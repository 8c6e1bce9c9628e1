------------------------------- MODULE Symbols -------------------------------
(***************************************************************************)
(* Where the frames lie in the memory of the VHAL process                  *)
(* (src/vhal_source.c): roadcast_vhal_resolve_symbols reads the tables of  *)
(* the executable, roadcast_vhal_open adds the address it is mapped at.    *)
(*                                                                         *)
(* A file is its header fields and what its tables hold; offsets, sizes    *)
(* and addresses are uint64_t, here numbers below 2^ADDRESS_BITS, and the  *)
(* records of a table are a few units long.  The field ident stands for    *)
(* everything that has to have one fixed value: magic, class, version and  *)
(* the sizes of header and entries.  The name MMI_Rx_<CAN id> of a symbol  *)
(* is the frame it names; "other" is any name that is none of these, not   *)
(* terminated, or outside the string table.                                *)
(***************************************************************************)
EXTENDS Integers, Sequences, FiniteSetsExt

CONSTANTS
  ADDRESS_BITS,
  PAGE_SIZE,      \* the granularity of mappings
  Received        \* the frames, in the order of ROADCAST_CAN_IDS

VARIABLES
  elf,            \* the executable, or NoFile
  loaded,         \* the address the loader has added to every segment
  located         \* what roadcast_vhal_open computed, or NotYet

symbolsVars == <<elf, loaded, located>>

NoFile == [size |-> 0]
NotYet == [done |-> FALSE]
Failed == [done |-> TRUE, ok |-> FALSE]

Ehdr == 2
Phdr == 2
Shdr == 2
Sym == 2

Wrap(n) == n % 2^ADDRESS_BITS

-----------------------------------------------------------------------------
(* The tables of the file. *)

\* Mutant: the end of the table is computed and compared.
checked_table_by_end(file_size, offset, count, element_size) ==
  Wrap(offset + count * element_size) <= file_size

checked_table(file_size, offset, count, element_size) ==
  /\ offset <= file_size
  /\ count <= (file_size - offset) \div element_size

IsElf(f) == f.size >= Ehdr /\ f.ident

TablesFit(f) ==
  /\ checked_table(f.size, f.phoff, Len(f.programs), Phdr)
  /\ checked_table(f.size, f.shoff, Len(f.sections), Shdr)

\* The PT_LOAD segment with the lowest address, the first of several; 0 if
\* there is none.
load_segment(f) ==
  LET loads == {i \in DOMAIN f.programs : f.programs[i].type = "LOAD"}
      before(i, j) == \/ f.programs[i].vaddr < f.programs[j].vaddr
                      \/ f.programs[i].vaddr = f.programs[j].vaddr /\ i <= j
  IN  IF loads = {} THEN 0
      ELSE CHOOSE i \in loads : \A j \in loads : before(i, j)

\* The first SHT_SYMTAB section or, without one, the first SHT_DYNSYM; 0 if
\* there is neither.
symbols_section(f) ==
  LET first(type) ==
        LET found == {i \in DOMAIN f.sections : f.sections[i].type = type}
        IN  IF found = {} THEN 0
            ELSE CHOOSE i \in found : \A j \in found : i <= j
  IN  IF first("SYMTAB") # 0 THEN first("SYMTAB") ELSE first("DYNSYM")

\* sh_link counts from zero.
SymbolsFit(f) ==
  /\ symbols_section(f) # 0
  /\ LET symbols == f.sections[symbols_section(f)]
     IN  /\ symbols.link < Len(f.sections)
         /\ symbols.size % Sym = 0
         /\ checked_table(f.size, symbols.offset, symbols.size, 1)

strings_section(f) == f.sections[f.sections[symbols_section(f)].link + 1]

StringsFit(f) ==
  /\ strings_section(f).type = "STRTAB"
  /\ checked_table(f.size, strings_section(f).offset,
                   strings_section(f).size, 1)

-----------------------------------------------------------------------------
(* The symbols. *)

\* One turn of the loop over the symbols.  An undefined symbol, and one whose
\* name is not in the string table, is passed over; so is one that names a
\* frame that has a value.
take_symbol(found, symbol) ==
  IF /\ symbol.defined /\ symbol.name \in DOMAIN found.values
     /\ found.count < Cardinality(Received)
     /\ found.values[symbol.name] = 0
  THEN [values |-> [found.values EXCEPT ![symbol.name] = symbol.value],
        count |-> found.count + 1]
  ELSE found

symbol_values(table) ==
  LET after[n \in 0 .. Len(table)] ==
        IF n = 0 THEN [values |-> [f \in Received |-> 0], count |-> 0]
        ELSE take_symbol(after[n - 1], table[n])
  IN  after[Len(table)].values

roadcast_vhal_resolve_symbols(f) ==
  IF /\ IsElf(f) /\ TablesFit(f)
     /\ load_segment(f) # 0
     /\ SymbolsFit(f) /\ StringsFit(f)
  THEN [done |-> TRUE, ok |-> TRUE,
        values |-> symbol_values(f.sections[symbols_section(f)].symbols),
        load_vaddr |-> f.programs[load_segment(f)].vaddr,
        load_offset |-> f.programs[load_segment(f)].offset]
  ELSE Failed

-----------------------------------------------------------------------------
(* The process. *)

PageOf(n) == (n \div PAGE_SIZE) * PAGE_SIZE

\* /proc/PID/maps: whole pages, in the order of their addresses.
Maps(f, bias) ==
  {[start |-> Wrap(bias + PageOf(f.programs[i].vaddr)),
    offset |-> PageOf(f.programs[i].offset)] :
      i \in {i \in DOMAIN f.programs : f.programs[i].type = "LOAD"}}

Unmapped == -1

find_mapping_base(maps, wanted_offset) ==
  LET lines == {m \in maps : m.offset = wanted_offset}
  IN  IF lines = {} THEN Unmapped
      ELSE (CHOOSE m \in lines : \A n \in lines : m.start <= n.start).start

\* Mutant: a file mapped below the address it is linked to gets no bias.
addresses_bias_not_negative(resolved, map_base) ==
  [f \in Received |-> IF resolved.values[f] = 0 THEN 0
                      ELSE IF map_base < resolved.load_vaddr
                      THEN resolved.values[f]
                      ELSE Wrap(map_base - resolved.load_vaddr
                                  + resolved.values[f])]

\* bias = map_base - load_vaddr may wrap around, and the sum wraps back.
addresses(resolved, map_base) ==
  [f \in Received |-> IF resolved.values[f] = 0 THEN 0
                      ELSE Wrap(Wrap(map_base - resolved.load_vaddr)
                                  + resolved.values[f])]

\* The part of roadcast_vhal_open that computes addresses.
roadcast_vhal_open ==
  /\ elf # NoFile /\ located = NotYet
  /\ LET resolved == roadcast_vhal_resolve_symbols(elf)
         maps == Maps(elf, loaded)
         exact == find_mapping_base(maps, resolved.load_offset)
         base == IF exact # Unmapped THEN exact
                 ELSE find_mapping_base(maps, 0)
     IN  located' = IF \/ ~resolved.ok
                       \/ base = Unmapped
                       \/ \A f \in Received : resolved.values[f] = 0
                    THEN Failed
                    ELSE [done |-> TRUE, ok |-> TRUE,
                          addresses |-> addresses(resolved, base)]
  /\ UNCHANGED <<elf, loaded>>

-----------------------------------------------------------------------------
(* Executables: any header and section table, and well-formed ones with    *)
(* any symbols.                                                            *)

LastAddress == 2^ADDRESS_BITS - 1

AnyTables ==
  LET Section == [type : {"SYMTAB", "DYNSYM", "STRTAB"},
                  offset : {2, LastAddress}, size : {1, 2, 4}, link : 0 .. 2,
                  symbols : {<<>>}]
      Program == [type : {"LOAD", "OTHER"}, vaddr : {0}, offset : {0}]
  IN  [size : {1, 6}, ident : BOOLEAN, phoff : {2, LastAddress}, shoff : {2, LastAddress},
       programs : {<<>>} \cup {<<p>> : p \in Program},
       sections : {<<>>} \cup {<<s>> : s \in Section}
                         \cup {<<s, t>> : s \in Section, t \in Section}]

\* The objects lie in the segment that starts at base, behind its start: none
\* lies at address 0 of a file.
SymbolTables(base) ==
  LET Symbol == [defined : BOOLEAN, name : Received \cup {"other"},
                 value : {base + 1, base + 2}]
  IN  {<<>>} \cup {<<s>> : s \in Symbol}
             \cup {<<s, t>> : s \in Symbol, t \in Symbol}
             \cup {<<s, t, u>> : s \in Symbol, t \in Symbol, u \in Symbol}

WellFormed(segments, symtab, dynsym) ==
  LET section(type, symbols, link) ==
        [type |-> type, offset |-> 2, size |-> 2, link |-> link,
         symbols |-> symbols]
      strings == section("STRTAB", <<>>, 0)
  IN  [size |-> 12, ident |-> TRUE, phoff |-> 2, shoff |-> 2,
       programs |-> [i \in DOMAIN segments |->
                       [type |-> "LOAD", vaddr |-> segments[i][1],
                        offset |-> segments[i][2]]],
       sections |-> IF symtab = <<>>
                    THEN <<section("DYNSYM", dynsym, 1), strings>>
                    ELSE <<section("DYNSYM", dynsym, 1), strings,
                           section("SYMTAB", symtab, 1)>>]

\* The address and the file offset of two segments, which agree within the
\* page: a position-independent executable, one linked to a fixed address,
\* one whose segments are listed out of order, two segments on one page of
\* the file, and one whose first segment starts in the middle of a page.
Segments ==
  {<< <<0, 0>>, <<4, 4>> >>, << <<8, 0>>, <<12, 4>> >>,
   << <<8, 8>>, <<4, 0>> >>, << <<0, 0>>, <<6, 2>> >>,
   << <<2, 2>>, <<4, 4>> >>}

\* What the loader may add: nothing, a page, or the wrapped difference to an
\* address one page below the one the file is linked to, where that leaves all
\* segments above address 0.
Loads(segments) ==
  {0, PAGE_SIZE} \cup
    IF \A i \in DOMAIN segments : segments[i][1] > PAGE_SIZE
    THEN {Wrap(-PAGE_SIZE)} ELSE {}

SymbolsIdle == elf = NoFile /\ loaded = 0 /\ located = NotYet

SymbolsInit ==
  /\ located = NotYet
  /\ \/ elf \in AnyTables /\ loaded = 0
     \/ \E segments \in Segments :
          LET base == Min({segments[i][1] : i \in DOMAIN segments}) IN
            \E symtab \in SymbolTables(base), f \in Received :
              /\ elf = WellFormed(segments, symtab,
                         <<[defined |-> TRUE, name |-> f, value |-> base + 3]>>)
              /\ loaded \in Loads(segments)

SymbolsNext == roadcast_vhal_open

-----------------------------------------------------------------------------
(* Properties. *)

\* What roadcast_vhal_resolve_symbols reads of the file: pairs of an offset
\* and a length, each table once the checks before it have passed.
TablesRead(f) ==
  LET symbols == f.sections[symbols_section(f)]
  IN  (IF IsElf(f) THEN {<<0, Ehdr>>} ELSE {})
      \cup (IF IsElf(f) /\ TablesFit(f)
            THEN {<<f.phoff, Len(f.programs) * Phdr>>,
                  <<f.shoff, Len(f.sections) * Shdr>>} ELSE {})
      \cup (IF IsElf(f) /\ TablesFit(f) /\ load_segment(f) # 0 /\ SymbolsFit(f)
            THEN {<<f.shoff + symbols.link * Shdr, Shdr>>} ELSE {})
      \cup (IF roadcast_vhal_resolve_symbols(f).ok
            THEN {<<symbols.offset, symbols.size>>,
                  <<strings_section(f).offset, strings_section(f).size>>}
            ELSE {})

\* Whatever offsets, counts and links the header and the sections of the
\* executable hold, no table is read that does not lie inside the file, not
\* even when its end would overflow.
ReadsInsideFile ==
  elf # NoFile => \A r \in TablesRead(elf) : r[1] + r[2] <= elf.size

\* The frame's symbol: the first defined one in the table that counts.
SymbolOf(f) ==
  LET table == elf.sections[symbols_section(elf)].symbols
      named == {i \in DOMAIN table : table[i].defined /\ table[i].name = f}
  IN  IF named = {} THEN 0
      ELSE table[CHOOSE i \in named : \A j \in named : i <= j].value

\* Each frame is read where the loader has put its symbol, for executables
\* linked to a fixed address and position-independent ones alike, wherever
\* they are loaded, provided the lowest segment starts on a page; and a frame
\* without a symbol, and only such a frame, is left out.
SymbolsAtTheirAddresses ==
  /\ located.done /\ located.ok
  /\ elf.programs[load_segment(elf)].offset % PAGE_SIZE = 0
  => \A f \in Received :
       located.addresses[f] = IF SymbolOf(f) = 0 THEN 0
                              ELSE Wrap(loaded + SymbolOf(f))
=============================================================================
