----------------------------- MODULE OatMetadata -----------------------------
(***************************************************************************)
(* The two tables a Windows boot.oat carries for the operating system, the *)
(* unwind table and the call targets (CFG), as run_dex2oat_no_image.py     *)
(* validates them after every compilation, and the corruptions the same    *)
(* file makes of an accepted boot.oat to see that the runtime refuses      *)
(* them.  The two were written apart from each other: that every           *)
(* corruption falls to a check is a property, not a definition.            *)
(*                                                                         *)
(* Offsets, sizes and counts are numbers of bytes as in the file.  A       *)
(* payload's "intact" says that its checksum is that of its content.       *)
(***************************************************************************)
EXTENDS Naturals, Sequences, FiniteSets

CONSTANT ElfAlignment                     \* WINDOWS_X64_ELF_ALIGNMENT

Elements(s) == {s[i] : i \in DOMAIN s}

-----------------------------------------------------------------------------
(* What the struct formats of the validators read from a file: names, sets *)
(* of flags and roles, and unsigned numbers.                               *)
Loads == [flags : SUBSET STRING, at : Nat, address : Nat, size : Nat, align : Nat]
Sections == [name : STRING, flags : SUBSET STRING, at : Nat, address : Nat, size : Nat, align : Nat]
Symbols == [name : STRING, section : Nat, value : Nat, size : Nat]

UnwindSlots == [at : Nat, op : Nat, info : Nat]
Descriptors ==
  [at : Nat, version : Nat, prologue : Nat, slots : Seq(UnwindSlots), padding : Nat,
   frame : Nat, frameOffset : Nat, trailing : Nat]
UnwindTables ==
  [magic : STRING, version : Nat, headerSize : Nat, machine : STRING, entrySize : Nat,
   count : Nat, entriesAt : Nat, blobAt : Nat, blobSize : Nat, codeBegin : Nat, codeEnd : Nat,
   intact : BOOLEAN, infos : Seq(Descriptors), entries : Seq([begin : Nat, end : Nat, info : Nat])]

CallTargets == [at : Nat, roles : SUBSET STRING]
CfgTables ==
  [magic : STRING, version : Nat, headerSize : Nat, machine : STRING, flags : Nat, targetSize : Nat,
   count : Nat, targetsAt : Nat, codeBegin : Nat, codeEnd : Nat, reserved : Nat,
   intact : BOOLEAN, targets : Seq(CallTargets)]

Oats ==
  [identity : STRING, size : Nat, loads : Seq(Loads), sections : Seq(Sections), symbols : Seq(Symbols),
   unwind : UnwindTables, cfg : CfgTables]

\* A table has as many entries as its header counts, and at an offset in the
\* blob there is one descriptor.
Tabled(oat) ==
  /\ oat \in Oats
  /\ oat.unwind.count <= Len(oat.unwind.entries) /\ oat.cfg.count <= Len(oat.cfg.targets)
  /\ \A i, j \in DOMAIN oat.unwind.infos : oat.unwind.infos[i].at = oat.unwind.infos[j].at => i = j

-----------------------------------------------------------------------------
(* The ELF envelope: [identity, size, loads, sections, symbols, unwind, cfg] *)

LayoutReads(oat) ==
  /\ oat.identity = "ELF64 x86-64 Linux"
  /\ oat.loads # <<>>
  /\ \A l \in Elements(oat.loads) :
       /\ l.at + l.size <= oat.size
       /\ l.align = ElfAlignment /\ l.at % l.align = l.address % l.align
       /\ ~({"write", "execute"} \subseteq l.flags)
  /\ \A i, j \in DOMAIN oat.sections : oat.sections[i].name = oat.sections[j].name => i = j

Has(oat, name) == \E s \in Elements(oat.sections) : s.name = name
IndexOf(oat, name) == CHOOSE i \in DOMAIN oat.sections : oat.sections[i].name = name
Section(oat, name) == oat.sections[IndexOf(oat, name)]

Follows(oat, late, early) == Has(oat, early) => IndexOf(oat, early) < IndexOf(oat, late)
Precedes(oat, early, late) == Has(oat, late) => IndexOf(oat, early) < IndexOf(oat, late)

\* Where a table's section must be, and that one read-only segment holds it.
Placed(oat, name, align) ==
  /\ \A s \in {name, ".rodata", ".text", ".dynsym", ".dynstr"} : Has(oat, s)
  /\ LET s == Section(oat, name)
     IN /\ s.flags = {"alloc"} /\ s.align = align
        /\ s.size >= 48 /\ s.at + s.size <= oat.size
        /\ \E l \in Elements(oat.loads) :
             /\ l.flags = {"read"}
             /\ l.at <= s.at /\ s.at + s.size <= l.at + l.size
             /\ l.address <= s.address /\ s.address + s.size <= l.address + l.size
  /\ Precedes(oat, name, ".bss") /\ Follows(oat, name, ".data.img.rel.ro")

\* The dynamic symbol the runtime finds a table by.
Anchored(oat, symbol, section, value, size) ==
  \E i \in DOMAIN oat.symbols :
    /\ oat.symbols[i] = [name |-> symbol, section |-> section, value |-> value, size |-> size]
    /\ \A j \in 1..i-1 : oat.symbols[j].name # symbol

\* A table has an anchor at its start and one at its last word.
AnchoredBoth(oat, name, symbol, last) ==
  LET s == Section(oat, name)
  IN /\ Anchored(oat, symbol, IndexOf(oat, name), s.address, s.size)
     /\ Anchored(oat, last, IndexOf(oat, name), s.address + s.size - 4, 4)

\* Offsets in the tables count from .rodata.
CodeBegin(oat) == Section(oat, ".text").address - Section(oat, ".rodata").address
CodeEnd(oat) == CodeBegin(oat) + Section(oat, ".text").size
OatOffset(oat, name) == Section(oat, name).address - Section(oat, ".rodata").address

-----------------------------------------------------------------------------
(* The unwind table: a header, one entry for each range of code, and the   *)
(* UNWIND_INFO descriptors the entries share.                              *)

NonvolatileGprs == {3, 5, 6, 7, 12, 13, 14, 15}
NonvolatileXmms == 6..15

\* Slots taken by an operation; 0 for one that is not supported.
SlotsOf(op, info) ==
  CASE op = 0 -> IF info \in NonvolatileGprs THEN 1 ELSE 0            \* push
    [] op = 1 -> IF info = 0 THEN 2 ELSE IF info = 1 THEN 3 ELSE 0    \* large allocation
    [] op = 2 -> 1                                                    \* small allocation
    [] op = 3 -> IF info = 0 THEN 1 ELSE 0                            \* set frame pointer
    [] op \in {4, 5} -> IF info \in NonvolatileGprs THEN op - 2 ELSE 0
    [] op \in {8, 9} -> IF info \in NonvolatileXmms THEN op - 6 ELSE 0
    [] op = 10 -> IF info \in {0, 1} THEN 1 ELSE 0                    \* machine frame
    [] OTHER -> 0

Padded(slots) == ((slots + 1) \div 2) * 2
DescriptorSize(d) == 4 + 2 * Padded(Len(d.slots))

\* The slots at which operations start: the first, and with each of them the
\* slot after the last that its operation takes.
After(d, s) == s + SlotsOf(d.slots[s].op, d.slots[s].info)
Operations(d) ==
  LET Slots == DOMAIN d.slots
      Followed(T) == /\ 1 \in Slots => 1 \in T
                     /\ \A s \in T : After(d, s) \in Slots => After(d, s) \in T
  IN {s \in Slots : \A T \in SUBSET Slots : Followed(T) => s \in T}

\* A descriptor d that owns the given number of bytes.
UnwindInfoValid(d, bytes) ==
  LET n == Len(d.slots)
      ops == Operations(d)
      frames == {s \in ops : d.slots[s].op = 3}
  IN /\ bytes >= 4 /\ d.version = 1 /\ DescriptorSize(d) <= bytes
     /\ \A s \in ops :
          /\ d.slots[s].at \in 1..d.prologue
          /\ After(d, s) > s /\ After(d, s) <= n + 1
          /\ After(d, s) \in ops => d.slots[After(d, s)].at < d.slots[s].at
     /\ n % 2 = 1 => d.padding = 0
     /\ IF d.frame = 0 THEN d.frameOffset = 0 /\ frames = {}
                       ELSE d.frame \in NonvolatileGprs /\ Cardinality(frames) = 1
     /\ d.trailing = 0

UnwindHeaderValid(p, size) ==
  /\ p.magic = "ouw" /\ p.version = 1 /\ p.headerSize = 48 /\ p.machine = "amd64"
  /\ p.entrySize = 12 /\ p.count >= 7 /\ p.entriesAt = 48
  /\ p.blobAt = p.entriesAt + p.count * p.entrySize
  /\ p.blobAt + p.blobSize = size

\* Seeded fault: a range of code is not compared with the range before it.
EntryValidAlone(p, i, codeBegin, codeEnd, at, size) ==
  LET e == p.entries[i]
  IN /\ e.begin >= codeBegin /\ e.end > e.begin /\ e.end <= codeEnd
     /\ e.info % 4 = 0 /\ e.info >= at + p.blobAt /\ e.info < at + size

EntryValid(p, i, codeBegin, codeEnd, at, size) ==
  LET e == p.entries[i]
  IN /\ e.begin >= codeBegin /\ (i > 1 => e.begin >= p.entries[i-1].end)
     /\ e.end > e.begin /\ e.end <= codeEnd
     /\ e.info % 4 = 0 /\ e.info >= at + p.blobAt /\ e.info < at + size

\* Every descriptor an entry refers to, up to the next that one refers to; a
\* descriptor in between that none refers to counts as trailing bytes.
DescriptorsValid(p, at, size) ==
  LET Used == {p.entries[i].info - at : i \in DOMAIN p.entries}
  IN \A u \in Used :
       LET later == {v \in Used : v > u}
           end == IF later = {} THEN size ELSE CHOOSE v \in later : \A w \in later : v <= w
       IN /\ \E d \in Elements(p.infos) : d.at = u /\ UnwindInfoValid(d, end - u)
          /\ ~\E d \in Elements(p.infos) : u < d.at /\ d.at < end

UnwindValid(oat) ==
  LET name == ".oat_unwind.windows"
      p == oat.unwind
      size == Section(oat, name).size
      at == OatOffset(oat, name)
  IN /\ LayoutReads(oat) /\ Placed(oat, name, ElfAlignment)
     /\ UnwindHeaderValid(p, size) /\ p.intact
     /\ p.codeBegin = CodeBegin(oat) /\ p.codeEnd = CodeEnd(oat)
     /\ \A i \in DOMAIN p.entries : EntryValid(p, i, p.codeBegin, p.codeEnd, at, size)
     /\ DescriptorsValid(p, at, size)
     /\ AnchoredBoth(oat, name, "oatunwindwindows", "oatunwindwindowslastword")

-----------------------------------------------------------------------------
(* The call targets: where indirect calls may go, and as what.             *)

CfgHeaderValid(p, size) ==
  /\ p.magic = "ocfg" /\ p.version = 1 /\ p.headerSize = 48 /\ p.machine = "amd64"
  /\ p.flags = 1 /\ p.targetSize = 8 /\ p.count # 0 /\ p.targetsAt = 48
  /\ p.targetsAt + p.count * p.targetSize = size /\ p.reserved = 0

TargetValid(oat, p, i) ==
  LET t == p.targets[i]
  IN /\ t.at >= p.codeBegin /\ t.at < p.codeEnd
     /\ (Section(oat, ".rodata").address + t.at) % 16 = 0
     /\ i > 1 => t.at > p.targets[i-1].at
     /\ t.roles # {} /\ t.roles \subseteq {"quick", "jni", "trampoline", "thunk"}

CfgValid(oat) ==
  LET name == ".oat_cfg.windows"
      p == oat.cfg
  IN /\ LayoutReads(oat) /\ Placed(oat, name, 4) /\ Follows(oat, name, ".oat_unwind.windows")
     /\ CfgHeaderValid(p, Section(oat, name).size) /\ p.intact
     /\ p.codeBegin = CodeBegin(oat) /\ p.codeEnd = CodeEnd(oat)
     /\ \A i \in DOMAIN p.targets : TargetValid(oat, p, i)
     /\ Cardinality({i \in DOMAIN p.targets : "trampoline" \in p.targets[i].roles}) = 7
     /\ AnchoredBoth(oat, name, "oatcfgwindows", "oatcfgwindowslastword")

-----------------------------------------------------------------------------
(* The corruptions of an accepted boot.oat                                 *)

\* A case is written with a new checksum, the checksum's own case without.
SetIn(p, field, value) == [[p EXCEPT ![field] = value] EXCEPT !.intact = TRUE]
WrongChecksum(p) == [p EXCEPT !.intact = FALSE]

UnwindHeaderCases(p) ==
  <<SetIn(p, "magic", "other"), SetIn(p, "version", 2), SetIn(p, "headerSize", 52),
    SetIn(p, "machine", "arm64"), SetIn(p, "entrySize", 16), SetIn(p, "count", 0),
    SetIn(p, "entriesAt", 52), SetIn(p, "blobAt", p.blobAt + 4),
    SetIn(p, "blobSize", p.blobSize - 4), SetIn(p, "codeBegin", p.codeBegin + 1),
    SetIn(p, "codeEnd", p.codeEnd - 1), WrongChecksum(p)>>

UnwindEntryCases(p, at, size) ==
  LET first == p.entries[1]
      last == p.entries[p.count]
      Entry(i, e) == SetIn(p, "entries", [p.entries EXCEPT ![i] = e])
  IN <<Entry(1, [first EXCEPT !.begin = p.codeBegin - 1]),
       Entry(2, [p.entries[2] EXCEPT !.begin = first.end - 1]),
       Entry(1, [first EXCEPT !.end = first.begin]),
       Entry(p.count, [last EXCEPT !.end = p.codeEnd + 1]),
       Entry(1, [first EXCEPT !.info = @ + 1]),
       Entry(1, [first EXCEPT !.info = at + p.blobAt - 4]),
       Entry(p.count, [last EXCEPT !.end = p.codeEnd, !.info = at + size])>>

\* The first descriptor referred to, the first with an operation and the first
\* with an odd number of slots.
UnwindInfoCases(p, at) ==
  LET Used == {i \in DOMAIN p.infos : \E e \in Elements(p.entries) : e.info = at + p.infos[i].at}
      FirstOf(S) == CHOOSE i \in S : \A j \in S : p.infos[i].at <= p.infos[j].at
      first == FirstOf(Used)
      some == FirstOf({i \in Used : p.infos[i].slots # <<>>})
      odd == FirstOf({i \in Used : Len(p.infos[i].slots) % 2 = 1})
      Info(i, d) == SetIn(p, "infos", [p.infos EXCEPT ![i] = d])
      Operation(op, info) == Info(some, [p.infos[some] EXCEPT !.slots[1].op = op, !.slots[1].info = info])
  IN <<Info(first, [p.infos[first] EXCEPT !.version = 2]),
       Operation(0, 1), Operation(6, 0),
       Info(odd, [p.infos[odd] EXCEPT !.padding = 1])>>

\* What a boot.oat must offer for the cases to be made.
UnwindCorruptible(oat) ==
  LET p == oat.unwind
      at == OatOffset(oat, ".oat_unwind.windows")
  IN /\ Section(oat, ".oat_unwind.windows").size >= 64 /\ p.count >= 2
     /\ \E d \in Elements(p.infos), e \in Elements(p.entries) :
          e.info = at + d.at /\ Len(d.slots) % 2 = 1

UnwindCorpus(oat) ==
  LET p == oat.unwind
      at == OatOffset(oat, ".oat_unwind.windows")
      cases == UnwindHeaderCases(p)
               \o UnwindEntryCases(p, at, Section(oat, ".oat_unwind.windows").size)
               \o UnwindInfoCases(p, at)
  IN [k \in DOMAIN cases |-> [oat EXCEPT !.unwind = cases[k]]]

CfgCorruptible(oat) ==
  Section(oat, ".oat_cfg.windows").size >= 64 /\ oat.cfg.count >= 2

CfgHeaderCases(p) ==
  <<SetIn(p, "magic", "other"), SetIn(p, "version", 2), SetIn(p, "headerSize", 52),
    SetIn(p, "machine", "arm64"), SetIn(p, "flags", 3), SetIn(p, "targetSize", 12),
    SetIn(p, "count", 0), SetIn(p, "targetsAt", 52), SetIn(p, "codeBegin", p.codeBegin + 1),
    SetIn(p, "codeEnd", p.codeEnd - 1), SetIn(p, "reserved", 1), WrongChecksum(p)>>

CfgTargetCases(p) ==
  LET first == p.targets[1]
      Target(i, at, roles) == SetIn(p, "targets", [p.targets EXCEPT ![i] = [at |-> at, roles |-> roles]])
  IN <<Target(1, p.codeBegin - 1, first.roles), Target(p.count, p.codeEnd, {"trampoline"}),
       Target(1, first.at + 1, first.roles), Target(2, first.at, {"quick"}),
       Target(1, first.at, {}), Target(1, first.at, {"unknown"})>>

CfgCorpus(oat) ==
  LET cases == CfgHeaderCases(oat.cfg) \o CfgTargetCases(oat.cfg)
  IN [k \in DOMAIN cases |-> [oat EXCEPT !.cfg = cases[k]]]
=============================================================================
