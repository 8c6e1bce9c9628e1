------------------------------ MODULE MCFormats ------------------------------
(***************************************************************************)
(* The byte-level parts, checked in one run: a behaviour is either one     *)
(* message of Wire, one client's stream of Input, one frame of Catalog,    *)
(* one discovery of the schema, or one executable of Symbols.              *)
(***************************************************************************)
EXTENDS Wire, Input, Catalog, Symbols

vars == <<wireVars, inputVars, catalogVars, symbolsVars>>

Init ==
  \/ WireInit /\ InputIdle /\ CatalogIdle /\ SymbolsIdle
  \/ WireIdle /\ InputInit /\ CatalogIdle /\ SymbolsIdle
  \/ WireIdle /\ InputIdle /\ (DecodeInit \/ SchemaInit) /\ SymbolsIdle
  \/ WireIdle /\ InputIdle /\ CatalogIdle /\ SymbolsInit

Next ==
  \/ WireNext /\ UNCHANGED <<inputVars, catalogVars, symbolsVars>>
  \/ InputNext /\ UNCHANGED <<wireVars, catalogVars, symbolsVars>>
  \/ CatalogNext /\ UNCHANGED <<wireVars, inputVars, symbolsVars>>
  \/ SymbolsNext /\ UNCHANGED <<wireVars, inputVars, catalogVars>>

Spec == Init /\ [][Next]_vars
=============================================================================
