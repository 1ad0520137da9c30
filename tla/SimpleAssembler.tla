--------------------------- MODULE SimpleAssembler ---------------------------
(* The two pass assembler (util/asm/simple_assembler.cc).  Parse() reads the *)
(* source line by line: it enters labels in the symbol table, with offsets in *)
(* their sections, and adds up sizes.  CreateExecutable() lays out the       *)
(* sections and turns the symbols into addresses, CreateRelocatable() sorts  *)
(* the symbol table; both then read the saved statements a second time, with *)
(* the symbols known, for the contents and the relocations.                  *)
(*                                                                           *)
(* A line is a label or NoName, and a statement.  Numbers are within the     *)
(* range of the types that the directives parse with.                        *)
EXTENDS Integers, Sequences, SequencesExt, FiniteSets

CONSTANTS Lines,          \* the lines that a source may have
          EntryPoints,    \* the names that an executable may be entered at
          Bases,          \* the base addresses of executables
          DataStarts,     \* values of data_segment_start_, 0 when not set
          DataAddressUnit,
          MaxLines,       \* bound: lines read
          NoName

NoSection == "none"       \* a null section pointer, and SHN_UNDEF
Sections == {".text", ".data", ".bss"}

StatementOK(s) ==
  /\ s.kind = "section" => s.to \in Sections
  /\ s.kind \in {"align", "space"} => s.n \in Nat
  /\ s.kind = "values" =>
       s.width \in Nat \ {0} /\ s.signed \in BOOLEAN /\ s.items \in Seq([number : BOOLEAN, value : Int])
  /\ s.kind = "strings" => s.texts \in Seq(Seq(Nat)) /\ s.zero \in BOOLEAN
  /\ s.kind = "op" => s.code \in Nat /\ s.reach \in Nat /\ s.relative \in BOOLEAN

ASSUME AssemblerAssumption ==
  /\ \A line \in Lines : StatementOK(line.stmt)
  /\ Bases \subseteq Nat /\ DataStarts \subseteq Nat /\ DataAddressUnit \in Nat \ {0}

VARIABLES phase,          \* "parse", "parsed", "executable", "relocatable", "failed", "crashed"
          source,         \* the lines read so far (for the properties)
          asm,            \* what Parse() leaves for the second pass, see NewAssembler
          image           \* the sections' contents and relocations, and the layout

vars == <<phase, source, asm, image>>

Page == 4096
RoundUp(a, n) == ((a + n - 1) \div n) * n

Symbol(name, value, size, section) ==
  [name |-> name, value |-> value, size |-> size, section |-> section, bind |-> "local"]

\* The constructor creates the three sections, each with its symbol, and
\* leaves no section current.  Positions in the table are the indices: the
\* null symbol is entry 0.
NewAssembler ==
  [lines |-> <<>>,                                        \* lines_
   current |-> NoSection,                                 \* current_section_
   location |-> [s \in Sections \cup {NoSection} |-> 0],  \* section_address_map_
   symtab |-> <<Symbol(".text", 0, 0, ".text"), Symbol(".data", 0, 0, ".data"), Symbol(".bss", 0, 0, ".bss")>>,
   indices |-> [s \in Sections |-> CHOOSE k \in 1 .. 3 : <<".text", ".data", ".bss">>[k] = s],  \* symbol_indices_
   global |-> {}, undefined |-> {},                       \* global_symbols_, undefined_symbols_
   bssSize |-> 0, ok |-> TRUE]

NoImage == [content |-> [s \in Sections |-> <<>>], relocations |-> <<>>, rela |-> {},
            start |-> [s \in Sections |-> 0], entry |-> 0, ok |-> TRUE, crashed |-> FALSE]

Init ==
  /\ phase = "parse" /\ source = <<>>
  /\ asm = NewAssembler /\ image = NoImage

Fail(a) == [a EXCEPT !.ok = FALSE]

-----------------------------------------------------------------------------
(* Symbols.                                                                *)

\* A symbol is added once.  A definition takes the name off the undefined
\* ones.
AddSymbol(a, name, value, size, section) ==
  IF name \in DOMAIN a.indices THEN Fail(a)
  ELSE [a EXCEPT !.symtab = Append(@, Symbol(name, value, size, section)),
                 !.indices = [n \in DOMAIN @ \cup {name} |-> IF n = name THEN Len(a.symtab) + 1 ELSE @[n]],
                 !.undefined = IF section = NoSection THEN @ ELSE @ \ {name}]

SimpleAddSymbol(a, name) ==
  IF name \in DOMAIN a.indices THEN a ELSE [a EXCEPT !.undefined = @ \cup {name}]

\* In the first pass every name is worth 0, and is noted as undefined unless
\* it is in the table; in the second it is worth what the table says.
ZeroResolve(a, name) == [asm |-> SimpleAddSymbol(a, name), value |-> 0]
Resolve(a, name) == [asm |-> a, value |-> a.symtab[a.indices[name]].value]

-----------------------------------------------------------------------------
(* Statements.  Reading one gives the assembler's state, the bytes, the      *)
(* growth of the section and the names of relocations.                       *)

Read(a, bytes, size, names) == [asm |-> a, bytes |-> bytes, size |-> size, names |-> names]
Refused(a) == Read(Fail(a), <<>>, 0, <<>>)

\* Numbers are taken up to the first item that is not one.  A negative number
\* is refused for an unsigned type; the value is cut to the type's width.
GetValues(items) ==
  LET bad == {k \in DOMAIN items : ~items[k].number}
  IN SubSeq(items, 1, IF bad = {} THEN Len(items) ELSE Min(bad) - 1)
ConvertToBytes(values, width) ==
  [k \in 1 .. width * Len(values) |->
     (values[1 + (k - 1) \div width].value \div 256 ^ ((k - 1) % width)) % 256]
ValueBytes(d) == ConvertToBytes(GetValues(d.items), d.width)
StringBytes(d) == FlattenSeq([k \in DOMAIN d.texts |-> d.texts[k] \o (IF d.zero THEN <<0>> ELSE <<>>)])

\* Outside of the sections the first pass stays at 0.
Address(a, first) == IF first /\ a.current = NoSection THEN 0 ELSE a.location[a.current]

KeepSection(a, section) == a
SetSection(a, section) == [a EXCEPT !.current = section]

ReadValues(a, d) ==
  LET values == GetValues(d.items)
  IN IF \E k \in DOMAIN values : ~d.signed /\ values[k].value < 0 THEN Refused(a)
     ELSE Read(a, ValueBytes(d), Len(ValueBytes(d)), <<>>)

ReadStrings(a, d) == Read(a, StringBytes(d), Len(StringBytes(d)), <<>>)

\* The padding is that of the section's location at the time.  The test for a
\* power of two takes 0 for one; with it the unsigned arithmetic takes the
\* location back to 0.
PowerOfTwo(n) == n = 0 \/ \E k \in 0 .. n : n = 2 ^ k
ReadAlign(a, d) ==
  LET at == a.location[a.current]
  IN IF a.current = NoSection \/ ~PowerOfTwo(d.n) THEN Refused(a)
     ELSE Read(a, <<>>, IF d.n = 0 THEN -at ELSE RoundUp(at, d.n) - at, <<>>)

DirectiveEffect(a, d) ==
  CASE d.kind = "section" -> Read(SetSection(a, d.to), <<>>, 0, <<>>)
    [] d.kind = "global"  -> Read([a EXCEPT !.global = @ \cup d.names], <<>>, 0, <<>>)
    [] d.kind = "align"   -> ReadAlign(a, d)
    [] d.kind = "space"   -> Read(a, <<>>, d.n, <<>>)
    [] d.kind = "values"  -> ReadValues(a, d)
    [] d.kind = "strings" -> ReadStrings(a, d)
    [] OTHER -> Refused(a)     \* .sect, .type and what is no directive

\* A directive's size goes to the section that was current before it, which
\* also has its label.  That the label exists already is not reported.
ParseAsmDirective(a, label, d) ==
  LET at(r) ==
        LET grown == IF r.size # 0 /\ a.current # NoSection
                       THEN [r.asm EXCEPT !.location[a.current] = @ + r.size] ELSE r.asm
        IN IF ~r.asm.ok \/ label = NoName THEN [r EXCEPT !.asm = grown]
           ELSE IF a.current = NoSection THEN [r EXCEPT !.asm = Fail(grown)]
           ELSE [r EXCEPT !.asm = [AddSymbol(grown, label, a.location[a.current], r.size, a.current)
                                     EXCEPT !.ok = TRUE]]
  IN at(DirectiveEffect(a, d))

\* The opcode assembler adds the label, resolves the name that the
\* instruction refers to, and encodes it: a unit for the opcode and one for
\* the operand, which may turn out not to fit.  An operand that is a name
\* comes with a relocation.
Encode(a, label, i, first) ==
  LET address  == Address(a, first)
      labelled == IF label = NoName THEN a ELSE AddSymbol(a, label, address, 0, a.current)
      encoded(r) == IF r.value > i.reach THEN Refused(r.asm)
                    ELSE Read(r.asm, <<i.code, r.value - (IF i.relative THEN address ELSE 0)>>, 2,
                              IF i.target = NoName THEN <<>> ELSE <<i.target>>)
  IN IF ~labelled.ok THEN Refused(labelled)
     ELSE encoded(IF i.target = NoName THEN [asm |-> labelled, value |-> 0]
                  ELSE IF first THEN ZeroResolve(labelled, i.target)
                  ELSE Resolve(labelled, i.target))

\* The section that is current may be none.
ParseAsmStatement(a, label, i, first) ==
  LET moved(r) == IF r.asm.ok THEN [r EXCEPT !.asm.location[a.current] = @ + r.size] ELSE r
  IN moved(Encode(a, label, i, first))

ParseStatement(a, label, s, first) ==
  IF s.kind = "op" THEN ParseAsmStatement(a, label, s, first) ELSE ParseAsmDirective(a, label, s)

-----------------------------------------------------------------------------
(* First pass.                                                             *)

LabelAlone(a, label) ==
  LET address == Address(a, TRUE)
  IN AddSymbol(a, label, IF a.current \in {".data", ".bss"} THEN address \div DataAddressUnit ELSE address,
               0, a.current)

\* One line of the source: statements are kept, without their labels.
ParseLine(a, line) ==
  LET r == ParseStatement(a, line.label, line.stmt, TRUE).asm
  IN IF line.stmt.kind # "empty" THEN IF r.ok THEN [r EXCEPT !.lines = Append(@, line.stmt)] ELSE r
     ELSE IF line.label # NoName THEN LabelAlone(a, line.label)
     ELSE a

\* Parse() may be called for one stream after the other.
ReadLine ==
  /\ phase \in {"parse", "parsed"} /\ Len(source) < MaxLines
  /\ \E line \in Lines :
       /\ source' = Append(source, line)
       /\ asm' = ParseLine(asm, line)
       /\ phase' = IF asm'.ok THEN "parse" ELSE "failed"
  /\ UNCHANGED image

\* At the end of a stream the names that are still undefined enter the
\* table, in the order of a hash set, up to one that is there (a label outside
\* of the sections), which ends the parse.
AddUndefined(a, names) ==
  LET known == {k \in DOMAIN names : names[k] \in DOMAIN a.indices}
      new == 1 .. IF known = {} THEN Len(names) ELSE Min(known) - 1
      added == [a EXCEPT !.symtab = @ \o [k \in new |-> Symbol(names[k], 0, 0, NoSection)],
                         !.indices = [n \in DOMAIN @ \cup {names[k] : k \in new} |->
                           IF n \in DOMAIN @ THEN @[n] ELSE Len(a.symtab) + (CHOOSE k \in new : names[k] = n)]]
  IN IF known # {} THEN Fail(added)
     ELSE [added EXCEPT !.undefined = {}, !.bssSize = a.location[".bss"]]
EndOfStream ==
  /\ phase = "parse"
  /\ \E names \in SetToSeqs(asm.undefined) : asm' = AddUndefined(asm, names)
  /\ phase' = IF asm'.ok THEN "parsed" ELSE "failed"
  /\ UNCHANGED <<source, image>>

-----------------------------------------------------------------------------
(* Second pass.                                                            *)

\* The relocations of a statement are at its place.  A statement that fails
\* is passed over: the status that is tested is not the one that was returned.
WithRelocations(p, r) ==
  [p EXCEPT !.asm = [r.asm EXCEPT !.ok = TRUE],
            !.image.relocations = @ \o [k \in DOMAIN r.names |->
              [symbol |-> r.names[k], section |-> p.asm.current, offset |-> p.asm.location[p.asm.current]]]]

\* One saved statement: data goes to the section that was current before it.
SecondPassLine(p, s) ==
  LET section == p.asm.current
      done(r) ==
        LET q == WithRelocations(p, r)
        IN IF r.names # <<>> /\ section = NoSection THEN [q EXCEPT !.image.crashed = TRUE]
           ELSE IF r.bytes = <<>> \/ section = ".bss" THEN q
           ELSE IF section = NoSection THEN [q EXCEPT !.image.ok = FALSE]
           ELSE [q EXCEPT !.image.content[section] = @ \o r.bytes]
  IN IF p.image.crashed \/ ~p.image.ok THEN p ELSE done(ParseStatement(p.asm, NoName, s, FALSE))

\* The section that is current at first is that of the end of the first pass.
ParsePassTwo(a, i) ==
  LET passed[n \in 0 .. Len(a.lines)] ==
        IF n = 0 THEN [asm |-> a, image |-> i] ELSE SecondPassLine(passed[n - 1], a.lines[n])
  IN passed[Len(a.lines)]

Bound(a, s) == IF s.name \in a.global THEN [s EXCEPT !.bind = "global"] ELSE s

UpdateSymbolsTwoSegments(a, start) ==
  [a EXCEPT !.symtab = [k \in DOMAIN @ |->
    LET s == Bound(a, @[k])
    IN CASE s.section = NoSection -> s
         [] s.section = ".text" -> [s EXCEPT !.value = @ + start[".text"]]
         [] OTHER -> [s EXCEPT !.value = @ + start[".data"]]]]

\* Symbols become addresses, and the global ones are marked.
UpdateSymbolsForExecutable(a, start) ==
  [a EXCEPT !.symtab = [k \in DOMAIN @ |->
    LET s == Bound(a, @[k])
    IN IF s.section = NoSection THEN s ELSE [s EXCEPT !.value = @ + start[s.section]]]]
UpdateSymbolsForRelocatable(a) == [a EXCEPT !.symtab = [k \in DOMAIN @ |-> Bound(a, @[k])]]

\* Text at the base, rounded down to a page; data at the next page, or where
\* it was set; bss behind data.
Layout(a, base, dataStart) ==
  LET text == (base \div Page) * Page
      data == IF dataStart # 0 THEN dataStart ELSE RoundUp(text + a.location[".text"], Page)
  IN [s \in Sections |-> CASE s = ".text" -> text [] s = ".data" -> data
                           [] s = ".bss" -> RoundUp(data + a.location[".data"], 16)]

\* arrange_local_symbols(): the local symbols first.
SymbolsWith(t, bind) == FlattenSeq([k \in DOMAIN t |-> IF t[k].bind = bind THEN <<t[k]>> ELSE <<>>])
ArrangeLocalSymbols(a) ==
  [a EXCEPT !.symtab = SymbolsWith(@, "local") \o SymbolsWith(@, "global")]
KeepIndices(a) == a
UpdateSymtabHeaderInfo(a) ==
  [a EXCEPT !.indices = [n \in {s.name : s \in Range(a.symtab)} |->
    CHOOSE k \in DOMAIN a.symtab : a.symtab[k].name = n]]

Outcome(p, result) ==
  /\ asm' = p.asm
  /\ image' = p.image
  /\ phase' = IF p.image.crashed THEN "crashed" ELSE IF ~p.image.ok THEN "failed" ELSE result
  /\ UNCHANGED source

CreateExecutable(base, entry, dataStart) ==
  LET start == Layout(asm, base, dataStart)
      laid == [UpdateSymbolsForExecutable(asm, start)
                 EXCEPT !.location = [s \in DOMAIN @ |-> IF s \in Sections THEN start[s] ELSE @[s]]]
      finished(p) ==
        IF ~p.image.ok THEN p
        ELSE IF entry \notin DOMAIN p.asm.indices THEN [p EXCEPT !.image.ok = FALSE]
        ELSE [asm |-> ArrangeLocalSymbols(p.asm),
              image |-> [p.image EXCEPT !.entry = Resolve(p.asm, entry).value]]
  IN /\ phase = "parsed"
     /\ Outcome(IF asm.undefined # {} THEN [asm |-> asm, image |-> [NoImage EXCEPT !.ok = FALSE]]
                ELSE finished(ParsePassTwo(laid, [NoImage EXCEPT !.start = start])), "executable")

\* The relocations are put in a section for each section that has some.
AddRelocationEntries(p) ==
  LET relocations == p.image.relocations
      entries == {[offset |-> r.offset, section |-> r.section, index |-> p.asm.indices[r.symbol]] : r \in Range(relocations)}
  IN IF ~p.image.ok \/ p.image.crashed THEN p
     ELSE IF \E r \in Range(relocations) : r.symbol \notin DOMAIN p.asm.indices THEN [p EXCEPT !.image.ok = FALSE]
     ELSE [p EXCEPT !.image.rela = entries]

CreateRelocatable ==
  LET sorted == UpdateSymtabHeaderInfo(ArrangeLocalSymbols(UpdateSymbolsForRelocatable(asm)))
      reset == [sorted EXCEPT !.location = [s \in DOMAIN @ |-> IF s \in Sections THEN 0 ELSE @[s]]]
  IN /\ phase = "parsed"
     /\ Outcome(AddRelocationEntries(ParsePassTwo(reset, NoImage)), "relocatable")

Next ==
  \/ ReadLine
  \/ EndOfStream
  \/ \E base \in Bases, entry \in EntryPoints, dataStart \in DataStarts : CreateExecutable(base, entry, dataStart)
  \/ CreateRelocatable

Spec == Init /\ [][Next]_vars

-----------------------------------------------------------------------------
(* Properties.  What the source means is read off its lines, without the      *)
(* assembler's state.                                                        *)

\* The section that is current before line k.
SectionAt(src, k) ==
  LET switches == {j \in 1 .. k - 1 : src[j].stmt.kind = "section"}
  IN IF switches = {} THEN NoSection ELSE src[Max(switches)].stmt.to

SizeOf(s) == CASE s.kind = "op" -> 2
               [] s.kind = "values" -> s.width * Len(GetValues(s.items))
               [] s.kind = "strings" -> Len(StringBytes(s))
               [] s.kind = "space" -> s.n
               [] OTHER -> 0

\* What the lines before line k take of a section, and where line k is.
SizeBefore(src, section, k) ==
  Cardinality(UNION {{j} \X (1 .. SizeOf(src[j].stmt)) : j \in {i \in 1 .. k - 1 : SectionAt(src, i) = section}})
OffsetAt(src, k) == SizeBefore(src, SectionAt(src, k), k)

Entry(name) == CHOOSE s \in Range(asm.symtab) : s.name = name
Targets(s) == {n \in {s.target} : n # NoName}
OpLines == {k \in DOMAIN source : source[k].stmt.kind = "op"}

\* The source chooses a section before it uses one, leaves gaps in bss only,
\* and its instructions can be encoded.  (Gaps have no bytes in text and data,
\* and the others are passed over in the second pass.)
WithoutGaps(src) ==
  \A k \in DOMAIN src :
    /\ SectionAt(src, k) = NoSection => src[k].stmt.kind = "section" /\ src[k].label = NoName
    /\ src[k].stmt.kind # "align"
    /\ src[k].stmt.kind = "space" => SectionAt(src, k) = ".bss"
Regular ==
  /\ WithoutGaps(source)
  /\ \A k \in OpLines : \A n \in Targets(source[k].stmt) : Entry(n).value <= source[k].stmt.reach

OpBytes(k) ==
  LET s == source[k].stmt
      value == IF s.target = NoName THEN 0 ELSE Entry(s.target).value
      at == image.start[SectionAt(source, k)] + OffsetAt(source, k)
  IN <<s.code, value - (IF s.relative THEN at ELSE 0)>>
LineBytes(k) ==
  CASE k \in OpLines -> OpBytes(k)
    [] source[k].stmt.kind = "values" -> ValueBytes(source[k].stmt)
    [] source[k].stmt.kind = "strings" -> StringBytes(source[k].stmt)

\* The two passes of an executable agree (CreateExecutable()): a label is the
\* address of the line that it stands on, the section has that line's bytes
\* there, and an instruction is encoded for its own address and for that of
\* the label it names.  The sections do not overlap.  (A directive's label that
\* is a section's name is silently dropped.)
ExecutableInPlace ==
  phase = "executable" /\ Regular =>
    /\ \A k \in DOMAIN source :
         LET label == source[k].label
         IN /\ label \notin Sections \cup {NoName} /\ Entry(label).section # NoSection
            /\ \A j \in 1 .. k - 1 : source[j].label # label
            => /\ Entry(label).section = SectionAt(source, k)
               /\ Entry(label).value = image.start[SectionAt(source, k)] + OffsetAt(source, k)
    /\ \A k \in DOMAIN source :
         source[k].stmt.kind \in {"op", "values", "strings"} /\ SectionAt(source, k) # ".bss" =>
           SubSeq(image.content[SectionAt(source, k)],
                  OffsetAt(source, k) + 1, OffsetAt(source, k) + SizeOf(source[k].stmt)) = LineBytes(k)
    /\ image.start[".bss"] >= image.start[".data"] + Len(image.content[".data"])

\* The relocations of a relocatable file (CreateRelocatable()) are those of
\* the instructions that name a symbol: in their section, at their place,
\* with the index that the symbol has in the sorted table, where the local
\* symbols are first.
RelocationsMatch ==
  phase = "relocatable" /\ Regular =>
    /\ \A k, j \in DOMAIN asm.symtab : k < j /\ asm.symtab[j].bind = "local" => asm.symtab[k].bind = "local"
    /\ {[offset |-> r.offset, section |-> r.section, symbol |-> asm.symtab[r.index].name] : r \in image.rela} =
         UNION {{[offset |-> OffsetAt(source, k), section |-> SectionAt(source, k), symbol |-> n] :
                   n \in Targets(source[k].stmt)} : k \in OpLines}

\* A source without gaps that Parse() took to its end, and whose operands fit
\* once the symbols are known, is assembled: the second pass, which starts in
\* the section where the first ended, is never outside of the sections (where
\* ParsePassTwo() uses a null pointer), and the symbols of all relocations are
\* found.  Only an unknown entry point is an error.  (For operands that do not
\* fit see ContentsComplete.)
AcceptedIsAssembled ==
  [][phase = "parsed" =>
       /\ CreateRelocatable /\ Regular' => phase' = "relocatable"
       /\ \A base \in Bases, entry \in EntryPoints \cap DOMAIN asm.indices, dataStart \in DataStarts :
            CreateExecutable(base, entry, dataStart) /\ Regular' => phase' = "executable"]_vars

\* An executable has no unresolved symbols ("In the case of generating an
\* executable ELF file, any unresolved symbols will result in an error",
\* resolver.cc:19): each name in its instructions is the label of some line.
ExecutableResolved ==
  phase = "executable" =>
    \A k \in OpLines : \A n \in Targets(source[k].stmt) : \E j \in DOMAIN source : source[j].label = n

\* ParsePassTwo() fills in the sections with "each of the lines saved in the
\* first pass" (simple_assembler.cc:734), or returns the status of the line
\* that failed (:749): if it succeeds, all lines are in the contents.  The
\* code breaks it: the status that is tested is not the line's.
ContentsComplete ==
  phase \in {"executable", "relocatable"} /\ WithoutGaps(source) =>
    \A s \in {".text", ".data"} : Len(image.content[s]) = SizeBefore(source, s, Len(source) + 1)
=============================================================================
