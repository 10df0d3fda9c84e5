-------------------------- MODULE MCBootImagePublish --------------------------
(* Two versions of the jar and up to three faults, so that a fault can meet  *)
(* what two earlier ones left behind.  dex2oat writes one of several valid   *)
(* pairs of tables, or a pair with a single defect, for both jars or one.    *)
EXTENDS BootImageGate

\* Three descriptors follow each other in the blob; which ones the entries
\* refer to, how far apart the entries are and how many there are varies.
D(at, slots) ==
  [at |-> at, version |-> 1, prologue |-> 9, slots |-> slots, padding |-> 0,
   frame |-> 0, frameOffset |-> 0, trailing |-> 0]
S(at, op, info) == [at |-> at, op |-> op, info |-> info]

Shapes ==
  [few    |-> [n |-> 7, gap |-> 0, uses |-> <<1, 2, 3>>, first |-> <<>>],
   gaps   |-> [n |-> 7, gap |-> 3, uses |-> <<3, 2, 1>>, first |-> <<S(4, 0, 5), S(2, 0, 3)>>],
   many   |-> [n |-> 9, gap |-> 1, uses |-> <<1, 2, 3>>, first |-> <<S(8, 4, 12), S(0, 0, 0), S(6, 8, 6), S(1, 1, 0)>>],
   odd    |-> [n |-> 8, gap |-> 0, uses |-> <<2, 1, 3>>, first |-> <<S(5, 2, 7), S(3, 10, 1), S(1, 0, 15)>>],
   far    |-> [n |-> 7, gap |-> 2, uses |-> <<3, 3, 3>>, first |-> <<S(5, 5, 3), S(9, 9, 9), S(9, 9, 9)>>]]

UnwindOf(h) ==
  LET i1 == 48 + 12 * h.n
      i2 == i1 + DescriptorSize(D(0, h.first))
      i3 == i2 + 8
      infos == <<D(i1, h.first), D(i2, <<S(7, 2, 4)>>),
                 [D(i3, <<S(9, 3, 0), S(6, 9, 7), S(0, 0, 0), S(0, 0, 0), S(2, 0, 5)>>) EXCEPT !.frame = 5, !.frameOffset = 2]>>
      size == i3 + 16
  IN [magic |-> "ouw", version |-> 1, headerSize |-> 48, machine |-> "amd64", entrySize |-> 12,
      count |-> h.n, entriesAt |-> 48, blobAt |-> i1, blobSize |-> size - i1,
      codeBegin |-> 64, codeEnd |-> 256, intact |-> TRUE, infos |-> infos,
      entries |-> [i \in 1..h.n |-> [begin |-> 64 + 20 * (i-1) + h.gap, end |-> 64 + 20 * i,
                                     info |-> 320 + infos[h.uses[1 + (i % 3)]].at]]]

\* Seven trampolines and other targets, 16 bytes apart.
Targets ==
  [plain |-> [i \in 1..8 |-> [at |-> 48 + 16 * i, roles |-> IF i = 8 THEN {"quick"} ELSE {"trampoline"}]],
   mixed |-> [i \in 1..9 |-> [at |-> 64 + 16 * i, roles |-> IF i \in {1, 9} THEN {"jni", "thunk"} ELSE {"trampoline", "quick"}]]]

CfgOf(ts) ==
  [magic |-> "ocfg", version |-> 1, headerSize |-> 48, machine |-> "amd64", flags |-> 1, targetSize |-> 8,
   count |-> Len(ts), targetsAt |-> 48, codeBegin |-> 64, codeEnd |-> 256, reserved |-> 0,
   intact |-> TRUE, targets |-> ts]

\* .rodata is at address 4096 and file offset 0.
Place(name, at, size, align) ==
  [name |-> name, flags |-> {"alloc"}, at |-> at, address |-> 4096 + at, size |-> size, align |-> align]
Load(flags, at, size) == [flags |-> flags, at |-> at, address |-> 4096 + at, size |-> size, align |-> 64]
Symbol(name, section, value, size) == [name |-> name, section |-> section, value |-> value, size |-> size]

Plain(shape, targets) ==
  LET u == UnwindOf(Shapes[shape])
      c == CfgOf(Targets[targets])
      us == u.blobAt + u.blobSize
      cs == 48 + 8 * c.count
      ca == 320 + us
  IN [identity |-> "ELF64 x86-64 Linux", size |-> ca + cs + 100,
      loads |-> <<Load({"read"}, 0, 64), Load({"read", "execute"}, 64, 192), Load({"read"}, 320, us + cs)>>,
      sections |-> <<Place(".dynsym", 0, 8, 8), Place(".dynstr", 8, 8, 1), Place(".rodata", 0, 64, 64),
                     Place(".text", 64, 192, 64), Place(".data.img.rel.ro", 256, 16, 64),
                     Place(".oat_unwind.windows", 320, us, 64), Place(".oat_cfg.windows", ca, cs, 4),
                     Place(".bss", ca + cs, 64, 64)>>,
      symbols |-> <<Symbol("oatunwindwindows", 6, 4096 + 320, us),
                    Symbol("oatunwindwindowslastword", 6, 4096 + 320 + us - 4, 4),
                    Symbol("oatcfgwindows", 7, 4096 + ca, cs),
                    Symbol("oatcfgwindowslastword", 7, 4096 + ca + cs - 4, 4)>>,
      unwind |-> u, cfg |-> c]

Swapped(s, i, j) == [s EXCEPT ![i] = s[j], ![j] = s[i]]
Defects == {"none", "identity", "execute", "congruence", "order", "load", "anchor", "six entries",
            "overlap", "unreferenced", "prologue", "operation", "frame", "sum", "bounds", "roles", "sorting"}
With(oat, defect) ==
  CASE defect = "none" -> oat
    [] defect = "identity" -> [oat EXCEPT !.identity = "ELF32"]
    [] defect = "execute" -> [oat EXCEPT !.loads[2].flags = @ \union {"write"}]
    [] defect = "congruence" -> [oat EXCEPT !.loads[1].at = 8]
    [] defect = "order" -> [oat EXCEPT !.sections = Swapped(@, 5, 6)]
    [] defect = "load" -> [oat EXCEPT !.loads[3].size = @ - 4]
    [] defect = "anchor" -> [oat EXCEPT !.symbols[2].value = @ - 4]
    [] defect = "six entries" -> [oat EXCEPT !.unwind.count = 6]
    [] defect = "overlap" -> [oat EXCEPT !.unwind.entries[3].begin = 64]
    [] defect = "unreferenced" -> [oat EXCEPT !.unwind.entries = [i \in DOMAIN @ |-> [@[i] EXCEPT !.info = oat.unwind.entries[3].info]]]
    [] defect = "prologue" -> [oat EXCEPT !.unwind.infos[2].slots[1].at = 10]
    [] defect = "operation" -> [oat EXCEPT !.unwind.infos[2].slots[1].op = 1]
    [] defect = "frame" -> [oat EXCEPT !.unwind.infos[3].frame = 0]
    [] defect = "sum" -> [oat EXCEPT !.unwind.intact = FALSE]
    [] defect = "bounds" -> [oat EXCEPT !.cfg.codeEnd = 255]
    [] defect = "roles" -> [oat EXCEPT !.cfg.targets[1].roles = {"thunk"}]
    [] defect = "sorting" -> [oat EXCEPT !.cfg.targets = Swapped(@, 2, 3)]

MCSchemes == ((DOMAIN Shapes) \X {"plain"} \X {"none"})
             \union {<<"few", "mixed", d>> : d \in Defects}
MCOatOf ==
  [s \in MCSchemes |->
     LET first == With(Plain(s[1], s[2]), s[3])
     IN <<first, IF s[3] = "sum" THEN Plain("few", "plain") ELSE first>>]
=============================================================================
