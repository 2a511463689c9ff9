----------------------------- MODULE HostProofs -----------------------------
(***************************************************************************)
(* What the installer promises of its changes to the host, for any set of  *)
(* operations in any order, any number of releases, and any number of      *)
(* commands, failures, kills and edits.  What is said of nginx alone needs *)
(* the build to come before the site (BuildComesFirst).                    *)
(***************************************************************************)
EXTENDS HostProperties, WellFoundedInduction, TLAPS

-----------------------------------------------------------------------------
(* Partial functions, as ledgers and journals are.                          *)

Partial(V) == UNION { [S -> V] : S \in SUBSET Ops }

LEMMA OverlayFacts ==
    ASSUME NEW f, NEW g
    PROVE  /\ DOMAIN Over(f, g) = DOMAIN f \cup DOMAIN g
           /\ \A x \in DOMAIN f : Over(f, g)[x] = f[x]
           /\ \A x \in DOMAIN g \ DOMAIN f : Over(f, g)[x] = g[x]
  BY DEF Over

LEMMA SingleFacts ==
    ASSUME NEW o, NEW v
    PROVE  DOMAIN Only(o, v) = {o} /\ Only(o, v)[o] = v
  BY DEF Only

LEMMA PartialFacts ==
    ASSUME NEW V, NEW f \in Partial(V)
    PROVE  DOMAIN f \subseteq Ops /\ \A o \in DOMAIN f : f[o] \in V
  BY DEF Partial

LEMMA PartialOverlay ==
    ASSUME NEW V, NEW f \in Partial(V), NEW g \in Partial(V)
    PROVE  Over(f, g) \in Partial(V)
<1>1. DOMAIN f \cup DOMAIN g \in SUBSET Ops
  BY PartialFacts
<1>2. Over(f, g) \in [DOMAIN f \cup DOMAIN g -> V]
  BY PartialFacts DEF Over
<1> QED
  BY <1>1, <1>2 DEF Partial

LEMMA PartialSingle ==
    ASSUME NEW V, NEW o \in Ops, NEW v \in V
    PROVE  Only(o, v) \in Partial(V)
<1>1. Only(o, v) \in [{o} -> V] /\ {o} \in SUBSET Ops
  BY DEF Only
<1> QED
  BY <1>1 DEF Partial

LEMMA PartialWithout ==
    ASSUME NEW V, NEW f \in Partial(V), NEW o
    PROVE  [x \in DOMAIN f \ {o} |-> f[x]] \in Partial(V)
<1>1. DOMAIN f \ {o} \in SUBSET Ops /\ [x \in DOMAIN f \ {o} |-> f[x]] \in [DOMAIN f \ {o} -> V]
  BY PartialFacts
<1> QED
  BY <1>1 DEF Partial

LEMMA NothingFacts ==
    /\ DOMAIN Nothing = {}
    /\ \A V : Nothing \in Partial(V)
    /\ \A V : \A f \in Partial(V) : DOMAIN f = {} => f = Nothing
<1>1. DOMAIN Nothing = {}
  BY DEF Nothing
<1>2. ASSUME NEW V PROVE Nothing \in Partial(V)
  <2>1. Nothing \in [{} -> V] /\ {} \in SUBSET Ops
    BY DEF Nothing
  <2> QED
    BY <2>1 DEF Partial
<1>3. ASSUME NEW V, NEW f \in Partial(V), DOMAIN f = {} PROVE f = Nothing
  <2>1. f = [o \in DOMAIN f |-> f[o]]
    BY DEF Partial
  <2> QED
    BY <1>3, <2>1 DEF Nothing
<1> QED
  BY <1>1, <1>2, <1>3

-----------------------------------------------------------------------------
(* The operations and their order.                                          *)

LEMMA Numbers ==
    /\ Releases \in Nat /\ Releases > 0
    /\ Edited = Releases + 1 /\ Half = Releases + 2 /\ Unknown = Releases + 3 /\ Stock = 0
    /\ Package = 1 .. Releases /\ Content = 0 .. Half
  BY SystemOptimizationsAssumption DEF Edited, Half, Unknown, Stock, Package, Content

LEMMA OrderFacts ==
    /\ Len(Order) \in Nat /\ DOMAIN Order = 1 .. Len(Order)
    /\ \A i \in DOMAIN Order : Order[i] \in Ops
    /\ \A i, j \in DOMAIN Order : Order[i] = Order[j] => i = j
    /\ \A o \in Ops : \E i \in DOMAIN Order : Order[i] = o
  BY SystemOptimizationsAssumption DEF Ops

LEMMA SortedFacts ==
    /\ Len(Sorted) \in Nat /\ DOMAIN Sorted = 1 .. Len(Sorted)
    /\ \A o \in Ops : \E i \in DOMAIN Sorted : Sorted[i] = o
  BY SystemOptimizationsAssumption

LEMMA LargestExists ==
    ASSUME NEW n \in Nat, NEW S \in SUBSET (1 .. n), S # {}
    PROVE  Max(S) \in S /\ \A j \in S : Max(S) >= j
<1> DEFINE T == { n - i : i \in S }
<1>0. \A i \in S : n - i \in Nat
  OBVIOUS
<1>1. T \subseteq Nat /\ T # {}
  BY <1>0
<1> DEFINE R == { p \in Nat \X Nat : p[1] < p[2] }
<1>a. IsWellFoundedOn(R, Nat)
  BY NatLessThanWellFounded DEF OpToRel
<1>2. PICK x \in T : \A y \in T : ~ (<<y, x>> \in R)
  <2> HIDE DEF T, R
  <2> QED
    BY <1>a, <1>1, WFMin
<1>3. PICK i \in S : x = n - i
  OBVIOUS
<1>4. ASSUME NEW j \in S PROVE i >= j
  <2>1. n - j \in T /\ n - j \in Nat /\ n - i \in Nat
    OBVIOUS
  <2>2. ~ (<<n - j, n - i>> \in R)
    BY <1>2, <1>3, <2>1
  <2>3. ~ (n - j < n - i)
    BY <2>1, <2>2
  <2> QED
    BY <2>3
<1> QED
  BY <1>4 DEF Max

LEMMA LastOfMember ==
    ASSUME NEW order, order = Order \/ order = Sorted, NEW S \in SUBSET Ops, S # {}
    PROVE  LastOf(order, S) \in S
<1> DEFINE I == {i \in DOMAIN order : order[i] \in S}
<1>1. Len(order) \in Nat /\ I \in SUBSET (1 .. Len(order)) /\ I # {}
  BY OrderFacts, SortedFacts
<1>2. Max(I) \in I
  <2> HIDE DEF I
  <2> QED
    BY <1>1, LargestExists
<1> QED
  BY <1>2 DEF LastOf

-----------------------------------------------------------------------------
(* Types.                                                                   *)

Outcomes == Stock .. Unknown
InstallPhases == {"apply", "change", "settle", "retire", "retired", "finish",
                  "commit", "clear", "undo", "undone"}
UninstallPhases == {"restore", "revert", "remove", "failed"}
Targets == {"idle", "enter", "apply", "finish", "undone", "remove", "failed"}
Stages == InstallPhases \cup UninstallPhases \cup Targets \cup {"recover", "flush"}
Kinds == {"none", "install", "uninstall", "check"}

IsRun(r) ==
    r \in [kind : Kinds, stage : Stages, release : Package, at : Nat \ {0}, todo : SUBSET Ops,
           pre : Partial(Content), out : Partial(Outcomes), current : Partial(Content),
           pending : SUBSET Restarting, queue : SUBSET Restarting, declined : SUBSET Ops,
           then : Targets, interrupted : BOOLEAN]

Endings == {"none", "recovered", "installed", "undone", "interrupted", "blocked", "failed",
            "uninstalled", "killed"}

IsHistory(h) ==
    h \in [commands : Nat, faults : Nat, kills : Nat, release : Package, ended : Endings,
           before : [Ops -> Content], edited : SUBSET Ops, idle : SUBSET Ops,
           kept : SUBSET Ops, missed : BOOLEAN, retired : BOOLEAN]

IsLedger(l) == l \in [pre : Partial(Content), out : Partial(Outcomes)]
IsJournal(j) == j \in [phase : {"none", "apply", "restore", "compensating"}, pre : Partial(Content)]

TypeInv ==
    /\ host \in [Ops -> Content]
    /\ aside \in [Packaged -> Content]
    /\ loaded \in [Restarting -> Content]
    /\ installed \in BOOLEAN
    /\ IsLedger(ledger) /\ IsJournal(journal)
    /\ IsRun(run) /\ IsHistory(hist)

\* What the command is at, or will be when the restarts are done.
Phase == IF run.stage = "flush" THEN run.then ELSE run.stage
Installing == Phase \in InstallPhases
Uninstalling == Phase \in UninstallPhases
Forward == Phase \in {"apply", "change", "settle", "retire", "retired", "finish"}
Changing == run.stage \in {"change", "settle"}
Retiring == run.stage \in {"retire", "retired"}

\* Which command is in which stage, and what it works on there.
ControlInv ==
    /\ run.kind = "none" => run = IdleRun
    /\ Phase = "idle" => run.kind = "none"
    /\ Installing => run.kind = "install"
    /\ Uninstalling => run.kind = "uninstall"
    /\ ~Installing => run.pre = Nothing /\ run.out = Nothing /\ run.current = Nothing /\ run.at = 1
    /\ Changing \/ Retiring => run.at <= Len(Order)
    /\ run.stage = "undo" => run.todo \subseteq DOMAIN run.current
    /\ run.stage = "recover" => run.todo \subseteq DOMAIN journal.pre
    /\ run.stage \in {"restore", "revert"} => run.todo \subseteq DOMAIN ledger.pre
    /\ run.stage = "revert" => run.todo # {}

LEMMA Sets ==
    /\ Guarded \subseteq Ops /\ Packaged \subseteq Ops /\ Restarting \subseteq Ops
    /\ Optional \subseteq Ops /\ Bundles \subseteq Guarded /\ Guarded \cap Packaged = {}
    /\ Bundles \cap Restarting = {} /\ Site \notin Bundles
    /\ Rockchip \in Ops /\ Rockchip \notin Guarded /\ Rockchip \notin Packaged
    /\ Build \in Packaged /\ Site \in Guarded
    /\ Plain \subseteq Ops /\ \A o \in Ops : o \in Plain <=> o \notin Guarded /\ o \notin Packaged
  BY SystemOptimizationsAssumption DEF Plain

LEMMA OpMember == ASSUME TypeInv, run.at <= Len(Order) PROVE Op \in Ops
<1>1. run.at \in DOMAIN Order
  BY OrderFacts DEF TypeInv, IsRun
<1> QED
  BY <1>1, OrderFacts DEF Op

LEMMA ContentFacts ==
    /\ Stock \in Content /\ Edited \in Content /\ Half \in Content
    /\ Package \subseteq Content /\ Content \subseteq Outcomes /\ Unknown \in Outcomes /\ 1 \in Package
    /\ Stock \notin Package /\ Edited \notin Package /\ Half \notin Package
    /\ Edited # Half /\ Stock # Edited /\ Stock # Half
    /\ Unknown \notin Content
  BY Numbers DEF Outcomes

LEMMA DesiredMember == ASSUME TypeInv, NEW o PROVE Desired(o) \in Package
  BY ContentFacts DEF Desired, TypeInv, IsRun

LEMMA IdleRunType == IsRun(IdleRun)
  BY NothingFacts, ContentFacts DEF IdleRun, IsRun, Kinds, Stages, Targets

LEMMA InitTypes == ASSUME Init PROVE TypeInv /\ ControlInv
<1>1. IsRun(run)
  BY IdleRunType DEF Init
<1>2. IsLedger(ledger) /\ IsJournal(journal)
  BY NothingFacts DEF Init, IsLedger, IsJournal, NoLedger, NoJournal
<1>3. IsHistory(hist) /\ host \in [Ops -> Content]
  BY ContentFacts DEF Init, IsHistory, Endings
<1>4. ControlInv
  BY DEF Init, ControlInv, Phase, Installing, Uninstalling, Changing, Retiring, InstallPhases,
         UninstallPhases, IdleRun
<1> QED
  BY <1>1, <1>2, <1>3, <1>4, ContentFacts DEF TypeInv, Init

LEMMA StageNames ==
    /\ InstallPhases \subseteq Stages /\ UninstallPhases \subseteq Stages /\ Targets \subseteq Stages
    /\ {"recover", "flush", "enter", "idle", "apply", "change", "settle", "retire", "retired", "finish",
        "commit", "clear", "undo", "undone", "restore", "revert", "remove", "failed"} \subseteq Stages
  BY DEF Stages, InstallPhases, UninstallPhases, Targets

-----------------------------------------------------------------------------
(* What an action leaves in the record of the command.                      *)

SameWork == run'.kind = run.kind /\ run'.release = run.release /\ run'.at = run.at
SameBooks == run'.pre = run.pre /\ run'.out = run.out /\ run'.current = run.current
SameRestarts == run'.pending = run.pending /\ run'.queue = run.queue

LEMMA GotoFields ==
    ASSUME TypeInv, NEW stage \in Stages, Goto(stage)
    PROVE  /\ IsRun(run') /\ SameWork /\ SameBooks /\ SameRestarts
           /\ run'.stage = stage /\ run'.todo = run.todo /\ run'.then = run.then
  BY DEF TypeInv, IsRun, Goto, SameWork, SameBooks, SameRestarts

LEMMA FlushFields ==
    ASSUME TypeInv, NEW next \in Targets, Flush(next)
    PROVE  /\ IsRun(run') /\ SameWork /\ SameBooks
           /\ run'.pending = {} /\ run'.queue = run.pending
           /\ run'.stage = "flush" /\ run'.todo = run.todo /\ run'.then = next
  BY StageNames DEF TypeInv, IsRun, Flush, SameWork, SameBooks

LEMMA IdleFields ==
    ASSUME run' = IdleRun
    PROVE  /\ IsRun(run') /\ run'.kind = "none" /\ run'.stage = "idle" /\ run'.todo = {}
           /\ run'.pre = Nothing /\ run'.out = Nothing /\ run'.current = Nothing /\ run'.at = 1
           /\ run'.pending = {} /\ run'.queue = {} /\ run'.then = "idle"
  BY IdleRunType DEF IdleRun

LEMMA BeginFields ==
    ASSUME TypeInv, Begin
    PROVE  /\ IsRun(run') /\ run'.kind \in Kinds \ {"none"} /\ run'.stage = "recover"
           /\ run'.todo = DOMAIN journal.pre /\ run'.at = 1
           /\ run'.pre = Nothing /\ run'.out = Nothing /\ run'.current = Nothing
           /\ run'.pending = {} /\ run'.queue = {} /\ run'.then = "idle"
           /\ IsHistory(hist') /\ hist'.ended = "none" /\ hist'.faults = hist.faults /\ hist'.kills = hist.kills
           /\ hist'.before = hist.before /\ hist'.edited = hist.edited /\ hist'.idle = hist.idle
           /\ hist'.kept = hist.kept /\ hist'.missed = hist.missed /\ hist'.retired = hist.retired
<1>1. DOMAIN journal.pre \in SUBSET Ops
  BY PartialFacts DEF TypeInv, IsJournal
<1>2. PICK kind \in {"install", "uninstall", "check"}, r \in hist.release .. Releases :
        /\ run' = [IdleRun EXCEPT !.kind = kind, !.release = r, !.stage = "recover", !.todo = DOMAIN journal.pre]
        /\ hist' = [hist EXCEPT !.commands = @ + 1, !.release = r, !.ended = "none"]
  BY DEF Begin
<1>3. r \in Package
  BY Numbers DEF TypeInv, IsHistory
<1>4. IsRun(run') /\ run'.kind = kind /\ run'.stage = "recover" /\ run'.todo = DOMAIN journal.pre /\ run'.at = 1
  BY <1>1, <1>2, <1>3, IdleRunType, StageNames DEF IsRun, IdleRun, Kinds
<1>5. /\ run'.pre = Nothing /\ run'.out = Nothing /\ run'.current = Nothing
      /\ run'.pending = {} /\ run'.queue = {} /\ run'.then = "idle"
  BY <1>2 DEF IdleRun
<1>6. /\ IsHistory(hist') /\ hist'.ended = "none" /\ hist'.faults = hist.faults /\ hist'.kills = hist.kills
      /\ hist'.before = hist.before /\ hist'.edited = hist.edited /\ hist'.idle = hist.idle
      /\ hist'.kept = hist.kept /\ hist'.missed = hist.missed /\ hist'.retired = hist.retired
  <2>1. hist.commands + 1 \in Nat
    BY DEF TypeInv, IsHistory
  <2> DEFINE commands == hist.commands + 1
  <2>2. hist' = [hist EXCEPT !.commands = commands, !.release = r, !.ended = "none"]
    BY <1>2
  <2> HIDE DEF commands
  <2> QED
    BY <2>2, <1>3, <2>1 DEF TypeInv, IsHistory, Endings, commands
<1> QED
  BY <1>4, <1>5, <1>6 DEF Kinds

LEMMA RestartFields ==
    ASSUME TypeInv, Restart
    PROVE  /\ IsRun(run') /\ SameWork /\ SameBooks
           /\ run'.pending = run.pending /\ run'.stage = "flush" /\ run'.todo = run.todo /\ run'.then = run.then
           /\ LastOf(Order, run.queue) \in run.queue
           /\ run'.queue = run.queue \ {LastOf(Order, run.queue)}
           /\ loaded' = [loaded EXCEPT ![LastOf(Order, run.queue)] = host[LastOf(Order, run.queue)]]
<1>1. LastOf(Order, run.queue) \in run.queue
  BY LastOfMember, Sets DEF TypeInv, IsRun, Restart
<1> QED
  BY <1>1 DEF TypeInv, IsRun, Restart, SameWork, SameBooks

\* An install, an uninstall or a check begins its own work.
EnterInstall ==
    /\ run'.stage = "apply" /\ run'.pre = ledger.pre /\ run'.out = ledger.out /\ run'.current = run.current
    /\ hist' = [hist EXCEPT !.before = host]

EnterUninstall == run'.stage = "restore" /\ run'.todo \subseteq DOMAIN ledger.pre /\ SameBooks /\ UNCHANGED hist

LEMMA EnterFields ==
    ASSUME TypeInv, Enter
    PROVE  \/ /\ run.kind = "install" /\ EnterInstall
              /\ IsRun(run') /\ SameWork /\ SameRestarts /\ run'.then = run.then /\ run'.todo = run.todo
           \/ /\ run.kind = "uninstall" /\ EnterUninstall
              /\ IsRun(run') /\ SameWork /\ SameRestarts /\ run'.then = run.then
           \/ run.kind = "check" /\ run' = IdleRun /\ hist' = [hist EXCEPT !.ended = "recovered"]
<1>1. CASE run.kind = "install"
  <2>1. PICK declined \in {{}, Optional} : run' = [run EXCEPT !.stage = "apply", !.declined = declined,
                                                        !.pre = ledger.pre, !.out = ledger.out]
    BY <1>1 DEF Enter
  <2>2. hist' = [hist EXCEPT !.before = host]
    BY <1>1 DEF Enter
  <2>3. declined \in SUBSET Ops
    BY Sets
  <2> QED
    BY <1>1, <2>1, <2>2, <2>3, StageNames DEF TypeInv, IsRun, IsLedger, SameWork, SameRestarts, EnterInstall
<1>2. CASE run.kind = "uninstall"
  <2>1. PICK optional \in BOOLEAN :
          run' = [run EXCEPT !.stage = "restore",
                     !.todo = IF optional THEN DOMAIN ledger.pre ELSE DOMAIN ledger.pre \ Optional]
    BY <1>2 DEF Enter
  <2>2. DOMAIN ledger.pre \in SUBSET Ops
    BY PartialFacts DEF TypeInv, IsLedger
  <2>3. UNCHANGED hist
    BY <1>2 DEF Enter
  <2> QED
    BY <1>2, <2>1, <2>2, <2>3, StageNames DEF TypeInv, IsRun, SameWork, SameRestarts, SameBooks, EnterUninstall
<1> QED
  BY <1>1, <1>2 DEF Enter, Finish

LEMMA NextAt == ASSUME TypeInv PROVE run.at + 1 \in Nat \ {0}
  BY DEF TypeInv, IsRun

LEMMA BookFacts ==
    ASSUME TypeInv, NEW o \in Ops
    PROVE  /\ \A c \in Content : Over(run.pre, Only(o, c)) \in Partial(Content)
           /\ \A c \in Content : Over(Only(o, c), run.current) \in Partial(Content)
           /\ \A c \in Outcomes : Over(Only(o, c), run.out) \in Partial(Outcomes)
           /\ \A c \in Content : Only(o, c) \in Partial(Content)
  BY PartialOverlay, PartialSingle DEF TypeInv, IsRun

LEMMA SkipOperationFields ==
    ASSUME TypeInv, SkipOperation
    PROVE  /\ IsRun(run') /\ run'.kind = run.kind /\ run'.release = run.release /\ run'.at = run.at + 1
           /\ run'.current = run.current /\ SameRestarts
           /\ run'.stage = "apply" /\ run'.todo = run.todo /\ run'.then = run.then
           /\ \/ run'.out = run.out
              \/ \E c \in SkipOutcome(Op) : run'.out = Over(Only(Op, c), run.out)
           /\ run'.pre = IF Op \in Packaged /\ host[Op] = run.release THEN Over(run.pre, Only(Op, Stock)) ELSE run.pre
<1> DEFINE chosen == CHOOSE c \in SkipOutcome(Op) : TRUE
           out == IF SkipOutcome(Op) = {} THEN run.out ELSE Over(Only(Op, chosen), run.out)
           pre == IF Op \in Packaged /\ host[Op] = run.release THEN Over(run.pre, Only(Op, Stock)) ELSE run.pre
           at == run.at + 1
<1>1. Op \in Ops
  BY OpMember DEF SkipOperation, At
<1>2. SkipOutcome(Op) \subseteq Outcomes
  <2>1. SkipOutcome(Op) \in {{}, {Unknown}, {host[Op]}}
    BY DEF SkipOutcome
  <2> QED
    BY <1>1, <2>1, ContentFacts DEF TypeInv
<1>3. SkipOutcome(Op) # {} => chosen \in SkipOutcome(Op)
  OBVIOUS
<1>4. out \in Partial(Outcomes) /\ pre \in Partial(Content)
  BY <1>1, <1>2, <1>3, BookFacts, ContentFacts DEF TypeInv, IsRun
<1>5. run' = [run EXCEPT !.at = at, !.out = out, !.pre = pre] /\ run.stage = "apply"
  BY DEF SkipOperation, At
<1>6. out = run.out \/ \E c \in SkipOutcome(Op) : out = Over(Only(Op, c), run.out)
  BY <1>3
<1>n. at \in Nat \ {0}
  BY NextAt
<1> HIDE DEF out, at
<1>7. /\ IsRun(run') /\ run'.kind = run.kind /\ run'.release = run.release /\ run'.at = at
      /\ run'.current = run.current /\ SameRestarts
      /\ run'.stage = "apply" /\ run'.todo = run.todo /\ run'.then = run.then
      /\ run'.out = out /\ run'.pre = pre
  <2> HIDE DEF pre
  <2> QED
    BY <1>4, <1>5, <1>n DEF TypeInv, IsRun, SameRestarts
<1> QED
  BY <1>6, <1>7 DEF at

LEMMA CaptureFields ==
    ASSUME TypeInv, Capture
    PROVE  /\ IsRun(run') /\ SameWork /\ SameRestarts /\ run'.pre = run.pre /\ run'.out = run.out
           /\ run'.stage = "change" /\ run'.todo = run.todo /\ run'.then = run.then
           /\ run'.current = Over(Only(Op, host[Op]), run.current)
           /\ IsJournal(journal') /\ journal'.pre = run'.current
<1> DEFINE current == Over(Only(Op, host[Op]), run.current)
<1>1. Op \in Ops /\ host[Op] \in Content
  BY OpMember DEF Capture, At, TypeInv
<1>2. current \in Partial(Content)
  BY <1>1, BookFacts
<1>3. run' = [run EXCEPT !.stage = "change", !.current = current] /\ journal' = Journal("apply", current)
  BY DEF Capture
<1> HIDE DEF current
<1>4. /\ IsRun(run') /\ SameWork /\ SameRestarts /\ run'.pre = run.pre /\ run'.out = run.out
      /\ run'.stage = "change" /\ run'.todo = run.todo /\ run'.then = run.then /\ run'.current = current
      /\ IsJournal(journal') /\ journal'.pre = current
  BY <1>2, <1>3, StageNames DEF TypeInv, IsRun, IsJournal, Journal, SameWork, SameRestarts
<1> QED
  BY <1>4 DEF current

LEMMA RequestedMember == ASSUME TypeInv, NEW o PROVE Requested(o) \in SUBSET Restarting /\ run.pending \subseteq Requested(o)
  BY DEF Requested, TypeInv, IsRun

LEMMA ChangedFields ==
    ASSUME TypeInv, NEW o \in Ops, Changed(o)
    PROVE  /\ IsRun(run') /\ SameWork /\ SameBooks
           /\ run'.pending = Requested(o) /\ run'.queue = run.queue
           /\ run'.stage = "settle" /\ run'.todo = run.todo /\ run'.then = run.then
           /\ host' = [host EXCEPT ![o] = Desired(o)]
  BY StageNames, RequestedMember DEF TypeInv, IsRun, Changed, SameWork, SameBooks

LEMMA RequestedFields ==
    ASSUME TypeInv, NEW o, run' = [run EXCEPT !.pending = Requested(o)]
    PROVE  /\ IsRun(run') /\ SameWork /\ SameBooks
           /\ run'.pending = Requested(o) /\ run'.queue = run.queue
           /\ run'.stage = run.stage /\ run'.todo = run.todo /\ run'.then = run.then
  BY RequestedMember DEF TypeInv, IsRun, SameWork, SameBooks

LEMMA JournalType == ASSUME NEW pre \in Partial(Content) PROVE IsJournal(Journal("apply", pre)) /\ IsJournal(Journal("restore", pre)) /\ IsJournal(Journal("compensating", pre))
  BY DEF IsJournal, Journal

LEMMA NoJournalType == IsJournal(NoJournal) /\ NoJournal.pre = Nothing
  BY NothingFacts DEF IsJournal, NoJournal

\* What Kept and the recorded preimages need of the operation in hand.
InHand == Op \in DOMAIN run.current

LEMMA SettleFields ==
    ASSUME TypeInv, Settle, InHand
    PROVE  /\ IsRun(run') /\ run'.kind = run.kind /\ run'.release = run.release /\ run'.at = run.at + 1
           /\ run'.current = run.current /\ SameRestarts
           /\ run'.stage = "apply" /\ run'.todo = run.todo /\ run'.then = run.then
           /\ run'.pre = Over(run.pre, Only(Op, Kept(Op))) /\ run'.out = Over(Only(Op, Desired(Op)), run.out)
           /\ IsJournal(journal')
<1> DEFINE pre == Over(run.pre, Only(Op, Kept(Op)))
           out == Over(Only(Op, Desired(Op)), run.out)
           at == run.at + 1
<1>1. Op \in Ops
  BY OpMember DEF Settle, At
<1>2. \A o \in DOMAIN run.current : run.current[o] \in Content
  BY PartialFacts DEF TypeInv, IsRun
<1>3. Kept(Op) \in Content /\ Desired(Op) \in Outcomes
  BY <1>2, DesiredMember, ContentFacts DEF Kept, InHand
<1>4. pre \in Partial(Content) /\ out \in Partial(Outcomes)
  BY <1>1, <1>3, BookFacts
<1>5. run' = [run EXCEPT !.stage = "apply", !.at = at, !.pre = pre, !.out = out]
  BY DEF Settle
<1>6. IsJournal(journal')
  <2>1. Rockchip \in DOMAIN run.current => Only(Rockchip, run.current[Rockchip]) \in Partial(Content)
    BY <1>2, PartialSingle, Sets
  <2> QED
    BY <2>1, JournalType, NoJournalType DEF Settle, SettledJournal
<1>n. at \in Nat \ {0}
  BY NextAt
<1> HIDE DEF pre, out, at
<1>7. /\ IsRun(run') /\ run'.kind = run.kind /\ run'.release = run.release /\ run'.at = at
      /\ run'.current = run.current /\ SameRestarts
      /\ run'.stage = "apply" /\ run'.todo = run.todo /\ run'.then = run.then
      /\ run'.pre = pre /\ run'.out = out
  BY <1>4, <1>5, <1>n, StageNames DEF TypeInv, IsRun, SameRestarts
<1> QED
  BY <1>6, <1>7 DEF pre, out, at

LEMMA GaveUpFields ==
    ASSUME TypeInv, run.at <= Len(Order), run' = GaveUp
    PROVE  /\ IsRun(run') /\ run'.kind = run.kind /\ run'.release = run.release /\ run'.at = run.at + 1
           /\ run'.current = run.current /\ SameRestarts
           /\ run'.stage = "apply" /\ run'.todo = run.todo /\ run'.then = run.then
           /\ run'.out = Over(Only(Op, Unknown), run.out)
           /\ run'.pre = [o \in DOMAIN run.pre \ {Op} |-> run.pre[o]]
<1> DEFINE pre == [o \in DOMAIN run.pre \ {Op} |-> run.pre[o]]
           out == Over(Only(Op, Unknown), run.out)
           at == run.at + 1
<1>1. Op \in Ops
  BY OpMember
<1>2. pre \in Partial(Content) /\ out \in Partial(Outcomes)
  BY <1>1, BookFacts, ContentFacts, PartialWithout DEF TypeInv, IsRun
<1>3. run' = [run EXCEPT !.stage = "apply", !.at = at, !.out = out, !.pre = pre]
  BY DEF GaveUp
<1>n. at \in Nat \ {0}
  BY NextAt
<1> HIDE DEF pre, out, at
<1>4. /\ IsRun(run') /\ run'.kind = run.kind /\ run'.release = run.release /\ run'.at = at
      /\ run'.current = run.current /\ SameRestarts
      /\ run'.stage = "apply" /\ run'.todo = run.todo /\ run'.then = run.then
      /\ run'.pre = pre /\ run'.out = out
  BY <1>2, <1>3, <1>n, StageNames DEF TypeInv, IsRun, SameRestarts
<1> QED
  BY <1>4 DEF pre, out, at

LEMMA UndidFields ==
    ASSUME TypeInv, Undid
    PROVE  /\ IsRun(run') /\ SameWork /\ SameBooks /\ run'.queue = run.queue
           /\ run'.stage = run.stage /\ run'.todo = run.todo \ {NextToUndo} /\ run'.then = run.then
           /\ run'.pending = IF run.stage = "undo" /\ NextToUndo \notin Packaged
                             THEN Requested(NextToUndo) ELSE run.pending
<1> DEFINE pending == IF run.stage = "undo" /\ NextToUndo \notin Packaged
                      THEN Requested(NextToUndo) ELSE run.pending
<1>1. pending \in SUBSET Restarting
  BY RequestedMember DEF TypeInv, IsRun
<1>2. run' = [run EXCEPT !.todo = @ \ {NextToUndo}, !.pending = pending]
  BY DEF Undid
<1> HIDE DEF pending
<1>3. /\ IsRun(run') /\ SameWork /\ SameBooks /\ run'.queue = run.queue
      /\ run'.stage = run.stage /\ run'.todo = run.todo \ {NextToUndo} /\ run'.then = run.then
      /\ run'.pending = pending
  BY <1>1, <1>2 DEF TypeInv, IsRun, SameWork, SameBooks
<1> QED
  BY <1>3 DEF pending

LEMMA TodoFields ==
    ASSUME TypeInv, NEW stage \in Stages,
           \/ run' = [run EXCEPT !.todo = @ \ {NextToRestore}] /\ stage = run.stage
           \/ run' = [run EXCEPT !.stage = stage, !.todo = @ \ {NextToRestore}]
    PROVE  /\ IsRun(run') /\ SameWork /\ SameBooks /\ SameRestarts
           /\ run'.stage = stage /\ run'.todo = run.todo \ {NextToRestore} /\ run'.then = run.then
  BY DEF TypeInv, IsRun, SameWork, SameBooks, SameRestarts

\* A failure of the install starts the undoing.
RaiseRun ==
    /\ SameWork /\ SameBooks /\ run'.pending = run.pending /\ run'.queue = {}
    /\ run'.stage = "undo" /\ run'.todo = DOMAIN run.current /\ run'.then = run.then

LEMMA RaiseFields ==
    ASSUME TypeInv, Raise
    PROVE  /\ IsRun(run') /\ RaiseRun
           /\ IsJournal(journal')
           /\ IF run.current = Nothing THEN journal' = journal ELSE journal'.pre = run.current
<1>1. PICK interrupted \in BOOLEAN :
        run' = [run EXCEPT !.stage = "undo", !.todo = DOMAIN run.current, !.queue = {}, !.interrupted = interrupted]
  BY DEF Raise
<1>2. DOMAIN run.current \in SUBSET Ops
  BY PartialFacts DEF TypeInv, IsRun
<1>3. IsRun(run') /\ RaiseRun
  BY <1>1, <1>2, StageNames DEF TypeInv, IsRun, SameWork, SameBooks, RaiseRun
<1>4. /\ IsJournal(journal')
      /\ IF run.current = Nothing THEN journal' = journal ELSE journal'.pre = run.current
  <2>1. run.current \in Partial(Content)
    BY DEF TypeInv, IsRun
  <2> QED
    BY <2>1, JournalType DEF Raise, Journal, TypeInv
<1> QED
  BY <1>3, <1>4

LEMMA UndoneFields ==
    ASSUME TypeInv, Undone
    PROVE  \/ run' = IdleRun /\ hist' = [hist EXCEPT !.ended = "interrupted"]
           \/ /\ IsRun(run') /\ SameWork /\ SameRestarts /\ run'.current = run.current /\ run'.out = run.out
              /\ run'.stage = "commit" /\ run'.pre = ledger.pre /\ run'.todo = run.todo /\ run'.then = run.then
              /\ UNCHANGED hist
<1>1. CASE run.interrupted
  BY <1>1 DEF Undone, Finish
<1>2. CASE ~run.interrupted
  <2>1. run' = [run EXCEPT !.stage = "commit", !.pre = ledger.pre] /\ UNCHANGED hist
    BY <1>2 DEF Undone
  <2> QED
    BY <2>1, StageNames DEF TypeInv, IsRun, IsLedger, SameWork, SameRestarts
<1> QED
  BY <1>1, <1>2

-----------------------------------------------------------------------------
(* What it leaves in the history.                                           *)

SameCauses ==
    /\ hist'.faults = hist.faults /\ hist'.kills = hist.kills
    /\ hist'.edited = hist.edited /\ hist'.idle = hist.idle
SameEffects == hist'.before = hist.before /\ hist'.kept = hist.kept /\ hist'.retired = hist.retired

LEMMA EndedFields ==
    ASSUME TypeInv, NEW how \in Endings, hist' = [hist EXCEPT !.ended = how]
    PROVE  IsHistory(hist') /\ SameCauses /\ SameEffects /\ hist'.ended = how /\ hist'.missed = hist.missed
  BY DEF TypeInv, IsHistory, SameCauses, SameEffects

LEMMA BeforeFields ==
    ASSUME TypeInv, hist' = [hist EXCEPT !.before = host]
    PROVE  /\ IsHistory(hist') /\ SameCauses /\ hist'.before = host /\ hist'.kept = hist.kept
           /\ hist'.retired = hist.retired /\ hist'.ended = hist.ended /\ hist'.missed = hist.missed
  BY DEF TypeInv, IsHistory, SameCauses

LEMMA RetiredFields ==
    ASSUME TypeInv, hist' = [hist EXCEPT !.retired = TRUE]
    PROVE  /\ IsHistory(hist') /\ SameCauses /\ hist'.before = hist.before /\ hist'.kept = hist.kept
           /\ hist'.retired /\ hist'.ended = hist.ended /\ hist'.missed = hist.missed
  BY DEF TypeInv, IsHistory, SameCauses

LEMMA FaultFields ==
    ASSUME TypeInv, NEW missed \in BOOLEAN, hist' = [hist EXCEPT !.faults = @ + 1, !.missed = missed]
    PROVE  /\ IsHistory(hist') /\ SameEffects /\ hist'.missed = missed /\ hist'.ended = hist.ended
           /\ hist'.faults = hist.faults + 1 /\ hist'.faults # 0 /\ hist'.kills = hist.kills
           /\ hist'.edited = hist.edited /\ hist'.idle = hist.idle
<1>1. hist.faults + 1 \in Nat \ {0}
  BY DEF TypeInv, IsHistory
<1> DEFINE faults == hist.faults + 1
<1>2. hist' = [hist EXCEPT !.faults = faults, !.missed = missed]
  OBVIOUS
<1> HIDE DEF faults
<1>3. /\ IsHistory(hist') /\ SameEffects /\ hist'.missed = missed /\ hist'.ended = hist.ended
      /\ hist'.faults = faults /\ hist'.kills = hist.kills
      /\ hist'.edited = hist.edited /\ hist'.idle = hist.idle
  <2>1. faults \in Nat
    BY <1>1 DEF faults
  <2> QED
    BY <1>2, <2>1 DEF TypeInv, IsHistory, SameEffects
<1> QED
  BY <1>1, <1>3 DEF faults

\* An undo, a recovery or a last restart that fails.
BlockedHistory(how) ==
    \/ hist' = [Failed(how) EXCEPT !.missed = TRUE]
    \/ hist' = [hist EXCEPT !.ended = how, !.missed = TRUE]

LEMMA BlockedFields ==
    ASSUME TypeInv, NEW how \in Endings, BlockedHistory(how)
    PROVE  /\ IsHistory(hist') /\ SameEffects /\ hist'.missed /\ hist'.ended = how
           /\ hist'.faults = hist.faults \/ hist'.faults # 0
           /\ hist'.kills = hist.kills /\ hist'.edited = hist.edited /\ hist'.idle = hist.idle
<1>1. hist.faults + 1 \in Nat \ {0}
  BY DEF TypeInv, IsHistory
<1> DEFINE faults == hist.faults + 1
<1>2. \/ hist' = [hist EXCEPT !.ended = how, !.faults = faults, !.missed = TRUE]
      \/ hist' = [hist EXCEPT !.ended = how, !.missed = TRUE]
  BY DEF BlockedHistory, Failed, TypeInv, IsHistory
<1>3. faults \in Nat \ {0}
  BY <1>1
<1> HIDE DEF faults
<1> QED
  BY <1>2, <1>3 DEF TypeInv, IsHistory, SameEffects

LEMMA KillFields ==
    ASSUME TypeInv, Kill
    PROVE  /\ IsHistory(hist') /\ SameEffects /\ hist'.missed = hist.missed /\ hist'.ended = "killed"
           /\ hist'.kills # 0 /\ hist'.faults = hist.faults
           /\ hist'.edited = hist.edited /\ hist'.idle = hist.idle
<1>1. hist.kills + 1 \in Nat \ {0}
  BY DEF TypeInv, IsHistory
<1> DEFINE kills == hist.kills + 1
<1>2. hist' = [hist EXCEPT !.kills = kills, !.ended = "killed"]
  BY DEF Kill
<1>3. kills \in Nat \ {0}
  BY <1>1
<1> HIDE DEF kills
<1> QED
  BY <1>2, <1>3 DEF TypeInv, IsHistory, SameEffects, Endings

LEMMA RemoveFields ==
    ASSUME TypeInv, RemoveLedger
    PROVE  /\ IsHistory(hist') /\ SameCauses /\ hist'.before = hist.before /\ hist'.retired = hist.retired
           /\ hist'.missed = hist.missed /\ hist'.ended = "uninstalled"
           /\ hist'.kept = {o \in Ops : host[o] \in Package \cup {Half}}
<1> DEFINE kept == {o \in Ops : host[o] \in Package \cup {Half}}
<1>1. hist' = [hist EXCEPT !.ended = "uninstalled", !.kept = kept] /\ kept \in SUBSET Ops
  BY DEF RemoveLedger
<1> HIDE DEF kept
<1>2. /\ IsHistory(hist') /\ SameCauses /\ hist'.before = hist.before /\ hist'.retired = hist.retired
      /\ hist'.missed = hist.missed /\ hist'.ended = "uninstalled" /\ hist'.kept = kept
  BY <1>1 DEF TypeInv, IsHistory, SameCauses, Endings
<1> QED
  BY <1>2 DEF kept

LEMMA EditFields ==
    ASSUME TypeInv, NEW o \in Ops, Edit(o)
    PROVE  /\ IsHistory(hist') /\ SameEffects /\ hist'.missed = hist.missed /\ hist'.ended = hist.ended
           /\ hist'.kills = hist.kills /\ hist'.faults = hist.faults
           /\ hist'.edited = hist.edited \cup {o}
           /\ hist'.idle = IF run.kind = "none" THEN hist.idle \cup {o} ELSE hist.idle
<1> DEFINE edited == hist.edited \cup {o}
           idle == IF run.kind = "none" THEN hist.idle \cup {o} ELSE hist.idle
<1>1. hist' = [hist EXCEPT !.edited = edited, !.idle = idle]
  BY DEF Edit
<1>2. edited \in SUBSET Ops /\ idle \in SUBSET Ops
  BY DEF TypeInv, IsHistory
<1> HIDE DEF edited, idle
<1>3. /\ IsHistory(hist') /\ SameEffects /\ hist'.missed = hist.missed /\ hist'.ended = hist.ended
      /\ hist'.kills = hist.kills /\ hist'.faults = hist.faults
      /\ hist'.edited = edited /\ hist'.idle = idle
  BY <1>1, <1>2 DEF TypeInv, IsHistory, SameEffects
<1> QED
  BY <1>3 DEF edited, idle

LEMMA EndingNames == {"none", "recovered", "installed", "undone", "interrupted", "blocked", "failed", "killed"} \subseteq Endings
  BY DEF Endings

-----------------------------------------------------------------------------
(* The operation that is undone or restored next.                           *)

LEMMA NextToUndoFacts ==
    ASSUME TypeInv, ControlInv, Undoing, run.todo # {}
    PROVE  /\ NextToUndo \in run.todo /\ NextToUndo \in Ops
           /\ NextToUndo \in DOMAIN Preimages /\ Preimages[NextToUndo] \in Content
           /\ run.stage = "undo" => Preimages = run.current
           /\ run.stage = "recover" => Preimages = journal.pre
<1>1. run.todo \in SUBSET Ops
  BY DEF TypeInv, IsRun
<1>2. NextToUndo \in run.todo
  BY <1>1, LastOfMember DEF NextToUndo
<1>3. /\ run.stage = "undo" => Preimages = run.current
      /\ run.stage = "recover" => Preimages = journal.pre
  BY DEF Preimages
<1>4. run.todo \subseteq DOMAIN Preimages /\ Preimages \in Partial(Content)
  BY <1>3 DEF Undoing, ControlInv, TypeInv, IsRun, IsJournal
<1> QED
  BY <1>1, <1>2, <1>3, <1>4, PartialFacts

LEMMA NextToRestoreFacts ==
    ASSUME TypeInv, ControlInv, run.stage \in {"restore", "revert"}, run.todo # {}
    PROVE  /\ NextToRestore \in run.todo /\ NextToRestore \in Ops
           /\ NextToRestore \in DOMAIN ledger.pre /\ ledger.pre[NextToRestore] \in Content
<1>1. run.todo \in SUBSET Ops /\ run.todo \subseteq DOMAIN ledger.pre
  BY DEF TypeInv, IsRun, ControlInv
<1>2. NextToRestore \in run.todo
  <2>1. CASE run.todo = {Build}
    BY <2>1 DEF NextToRestore
  <2>2. CASE run.todo # {Build}
    <3>1. run.todo \ {Build} \in SUBSET Ops /\ run.todo \ {Build} # {}
      BY <1>1, <2>2
    <3> QED
      BY <2>2, <3>1, LastOfMember DEF NextToRestore
  <2> QED
    BY <2>1, <2>2
<1>3. \A o \in DOMAIN ledger.pre : ledger.pre[o] \in Content
  BY PartialFacts DEF TypeInv, IsLedger
<1> QED
  BY <1>1, <1>2, <1>3

LEMMA RestoreStepTypes ==
    ASSUME TypeInv, NEW o \in Ops, NEW p \in Content, RestoreStep(o, p)
    PROVE  /\ host' \in [Ops -> Content] /\ aside' \in [Packaged -> Content]
           /\ \A x \in Ops : x # o => host'[x] = host[x]
           /\ \A x \in Packaged : x # o => aside'[x] = aside[x]
           /\ o \in Packaged =>
                /\ host'[o] = IF host[o] # Stock \/ p = Stock THEN Stock ELSE aside[o]
                /\ aside'[o] = IF p # Stock /\ host[o] = Stock THEN Stock ELSE aside[o]
           /\ o \notin Packaged => host'[o] = IF o \in Plain /\ host[o] # Half THEN Half ELSE p
  BY ContentFacts, Sets DEF TypeInv, RestoreStep

-----------------------------------------------------------------------------
(* The types are invariant.                                                 *)

LEMMA BeginTypes == ASSUME TypeInv, ControlInv, Begin PROVE TypeInv'
  BY BeginFields DEF TypeInv, Begin

LEMMA RecoveredTypes == ASSUME TypeInv, ControlInv, Recovered PROVE TypeInv'
  BY FlushFields, NoJournalType DEF TypeInv, Recovered, Targets

LEMMA RestartTypes == ASSUME TypeInv, ControlInv, Restart PROVE TypeInv'
<1>1. LastOf(Order, run.queue) \in Restarting /\ LastOf(Order, run.queue) \in Ops
  BY RestartFields, Sets DEF TypeInv, IsRun
<1> QED
  BY <1>1, RestartFields DEF TypeInv, Restart

LEMMA FlushedTypes == ASSUME TypeInv, ControlInv, Flushed PROVE TypeInv'
<1>1. run.then \in Stages
  BY StageNames DEF TypeInv, IsRun
<1> QED
  BY <1>1, GotoFields DEF TypeInv, Flushed

LEMMA EnterTypes == ASSUME TypeInv, ControlInv, Enter PROVE TypeInv'
<1>1. IsRun(run')
  BY EnterFields, IdleFields
<1>2. IsHistory(hist')
  BY EnterFields, BeforeFields, EndedFields, EndingNames DEF EnterInstall, EnterUninstall, TypeInv
<1>3. installed' \in BOOLEAN
  BY DEF Enter, TypeInv
<1> QED
  BY <1>1, <1>2, <1>3 DEF TypeInv, Enter

LEMMA SkipOperationTypes == ASSUME TypeInv, ControlInv, SkipOperation PROVE TypeInv'
  BY SkipOperationFields DEF TypeInv, SkipOperation

LEMMA CaptureTypes == ASSUME TypeInv, ControlInv, Capture PROVE TypeInv'
  BY CaptureFields, ContentFacts DEF TypeInv, Capture

LEMMA ChangeFileTypes == ASSUME TypeInv, ControlInv, ChangeFile PROVE TypeInv'
<1>1. Op \in Ops /\ Changed(Op)
  BY OpMember DEF ChangeFile, At
<1> QED
  BY <1>1, ChangedFields, DesiredMember, ContentFacts DEF TypeInv, ChangeFile

LEMMA MoveInTypes == ASSUME TypeInv, ControlInv, MoveIn PROVE TypeInv'
<1>1. Op \in Ops /\ Changed(Op)
  BY OpMember DEF MoveIn, At
<1> QED
  BY <1>1, ChangedFields, DesiredMember, ContentFacts DEF TypeInv, MoveIn

LEMMA ChangeRestTypes == ASSUME TypeInv, ControlInv, ChangeRest PROVE TypeInv'
<1>1. Op \in Ops /\ Changed(Op)
  BY OpMember DEF ChangeRest, At
<1> QED
  BY <1>1, ChangedFields, DesiredMember, ContentFacts DEF TypeInv, ChangeRest

LEMMA SetAsideTypes == ASSUME TypeInv, ControlInv, SetAside PROVE TypeInv'
  BY OpMember, ContentFacts DEF TypeInv, SetAside, At

LEMMA ChangeHalfTypes == ASSUME TypeInv, ControlInv, ChangeHalf PROVE TypeInv'
  BY OpMember, ContentFacts DEF TypeInv, ChangeHalf, At

LEMMA SettleTypes == ASSUME TypeInv, ControlInv, Settle, InHand PROVE TypeInv'
  BY SettleFields DEF TypeInv, Settle

LEMMA FlushBeforeRetirementTypes == ASSUME TypeInv, ControlInv, FlushBeforeRetirement PROVE TypeInv'
  BY FlushFields DEF TypeInv, FlushBeforeRetirement, Targets

LEMMA RetireChangedTypes == ASSUME TypeInv, ControlInv, RetireChanged PROVE TypeInv'
  BY GaveUpFields DEF TypeInv, RetireChanged, At

LEMMA RetireTypes == ASSUME TypeInv, ControlInv, Retire PROVE TypeInv'
<1>1. Op \in Ops /\ run.pre[Op] \in Content
  BY OpMember, PartialFacts DEF Retire, At, TypeInv, IsRun
<1>2. IsJournal(journal')
  BY <1>1, PartialSingle, JournalType DEF Retire
<1> QED
  BY <1>2, GotoFields, RetiredFields, StageNames DEF TypeInv, Retire

LEMMA RestoreRetiredTypes == ASSUME TypeInv, ControlInv, RestoreRetired, Op \in DOMAIN run.pre PROVE TypeInv'
<1>1. Op \in Ops /\ run.pre[Op] \in Content
  BY OpMember, PartialFacts DEF RestoreRetired, At, TypeInv, IsRun
<1> QED
  BY <1>1, GotoFields, StageNames DEF TypeInv, RestoreRetired

LEMMA RetiredTypes == ASSUME TypeInv, ControlInv, Retired PROVE TypeInv'
  BY GaveUpFields, NoJournalType DEF TypeInv, Retired, At

LEMMA AllAppliedTypes == ASSUME TypeInv, ControlInv, AllApplied PROVE TypeInv'
  BY FlushFields DEF TypeInv, AllApplied, Targets

LEMMA DiscardReplacedTypes == ASSUME TypeInv, ControlInv, DiscardReplaced PROVE TypeInv'
  BY GotoFields, StageNames, ContentFacts DEF TypeInv, DiscardReplaced

LEMMA CommitTypes == ASSUME TypeInv, ControlInv, Commit PROVE TypeInv'
  BY GotoFields, StageNames DEF TypeInv, Commit, IsLedger, IsRun

LEMMA ClearCommittedTypes == ASSUME TypeInv, ControlInv, ClearCommitted PROVE TypeInv'
<1>1. IsHistory(hist')
  BY EndedFields, EndingNames DEF ClearCommitted, Finish
<1> QED
  BY <1>1, IdleFields, NoJournalType DEF TypeInv, ClearCommitted, Finish

LEMMA UndoNextTypes == ASSUME TypeInv, ControlInv, UndoNext PROVE TypeInv'
<1>1. RestoreStep(NextToUndo, Preimages[NextToUndo]) /\ run' = [run EXCEPT !.pending = Requested(NextToUndo)]
  BY DEF UndoNext
<1> QED
  BY <1>1, NextToUndoFacts, RestoreStepTypes, RequestedFields DEF TypeInv, UndoNext

LEMMA UndidTypes == ASSUME TypeInv, ControlInv, Undid PROVE TypeInv'
  BY UndidFields DEF TypeInv, Undid

LEMMA AllUndoneTypes == ASSUME TypeInv, ControlInv, AllUndone PROVE TypeInv'
  BY FlushFields DEF TypeInv, AllUndone, Targets

LEMMA UndoneTypes == ASSUME TypeInv, ControlInv, Undone PROVE TypeInv'
<1>1. IsRun(run') /\ IsHistory(hist')
  BY UndoneFields, IdleFields, EndedFields, EndingNames DEF TypeInv
<1> QED
  BY <1>1, NoJournalType DEF TypeInv, Undone

LEMMA PreserveTypes == ASSUME TypeInv, ControlInv, Preserve PROVE TypeInv'
<1>1. run.stage \in Stages
  BY DEF TypeInv, IsRun
<1> QED
  BY <1>1, TodoFields DEF TypeInv, Preserve

LEMMA RestoreTypes == ASSUME TypeInv, ControlInv, Restore PROVE TypeInv'
<1>1. IsJournal(journal')
  BY NextToRestoreFacts, PartialSingle, JournalType DEF Restore
<1> QED
  BY <1>1, GotoFields, StageNames DEF TypeInv, Restore

LEMMA RevertTypes == ASSUME TypeInv, ControlInv, Revert PROVE TypeInv'
<1>1. /\ RestoreStep(NextToRestore, ledger.pre[NextToRestore]) /\ run.todo # {}
      /\ run' = [run EXCEPT !.pending = Requested(NextToRestore)]
  BY DEF Revert, ControlInv
<1> QED
  BY <1>1, NextToRestoreFacts, RestoreStepTypes, RequestedFields DEF TypeInv, Revert

LEMMA RevertedTypes == ASSUME TypeInv, ControlInv, Reverted PROVE TypeInv'
  BY TodoFields, StageNames, NoJournalType DEF TypeInv, Reverted

LEMMA AllRestoredTypes == ASSUME TypeInv, ControlInv, AllRestored PROVE TypeInv'
  BY FlushFields DEF TypeInv, AllRestored, Targets

LEMMA RemoveLedgerTypes == ASSUME TypeInv, ControlInv, RemoveLedger PROVE TypeInv'
<1>1. IsLedger(ledger')
  BY NothingFacts DEF RemoveLedger, IsLedger, NoLedger
<1> QED
  BY <1>1, IdleFields, RemoveFields DEF TypeInv, RemoveLedger

LEMMA RaiseTypes == ASSUME TypeInv, ControlInv, Raise PROVE TypeInv'
<1>1. IsHistory(hist')
  <2>1. CASE UNCHANGED hist
    BY <2>1 DEF TypeInv
  <2>2. CASE hist' = [hist EXCEPT !.faults = @ + 1, !.missed = @ \/ run.stage = "flush"]
    <3> DEFINE missed == hist.missed \/ run.stage = "flush"
    <3>1. hist' = [hist EXCEPT !.faults = @ + 1, !.missed = missed] /\ missed \in BOOLEAN
      BY <2>2 DEF TypeInv, IsHistory
    <3> HIDE DEF missed
    <3> QED
      BY <3>1, FaultFields
  <2> QED
    BY <2>1, <2>2 DEF Raise
<1> QED
  BY <1>1, RaiseFields DEF TypeInv, Raise

LEMMA UndoFailsTypes == ASSUME TypeInv, ControlInv, UndoFails PROVE TypeInv'
<1>1. IsHistory(hist')
  BY BlockedFields, EndingNames DEF UndoFails, BlockedHistory
<1>2. IsLedger(ledger')
  <2>1. Over(run.current, ledger.pre) \in Partial(Content)
    BY PartialOverlay DEF TypeInv, IsRun, IsLedger
  <2> QED
    BY <2>1 DEF UndoFails, TypeInv, IsRun, IsLedger
<1> QED
  BY <1>1, <1>2, IdleFields DEF TypeInv, UndoFails

LEMMA RecoveryFailsTypes == ASSUME TypeInv, ControlInv, RecoveryFails PROVE TypeInv'
<1>1. IsHistory(hist')
  BY BlockedFields, EndingNames DEF RecoveryFails, BlockedHistory
<1> QED
  BY <1>1, IdleFields DEF TypeInv, RecoveryFails

LEMMA UninstallFailsTypes == ASSUME TypeInv, ControlInv, UninstallFails PROVE TypeInv'
<1>1. IsHistory(hist')
  <2>1. CASE UNCHANGED hist
    BY <2>1 DEF TypeInv
  <2>2. CASE hist' = [hist EXCEPT !.faults = @ + 1]
    <3>1. hist' = [hist EXCEPT !.faults = @ + 1, !.missed = hist.missed] /\ hist.missed \in BOOLEAN
      BY <2>2 DEF TypeInv, IsHistory
    <3> QED
      BY <3>1, FaultFields
  <2> QED
    BY <2>1, <2>2 DEF UninstallFails
<1> QED
  BY <1>1, FlushFields DEF TypeInv, UninstallFails, Targets

LEMMA LastRestartFailsTypes == ASSUME TypeInv, ControlInv, LastRestartFails PROVE TypeInv'
<1>1. IsHistory(hist')
  BY BlockedFields, EndingNames DEF LastRestartFails, BlockedHistory
<1> QED
  BY <1>1, IdleFields DEF TypeInv, LastRestartFails

LEMMA UninstallFailedTypes == ASSUME TypeInv, ControlInv, UninstallFailed PROVE TypeInv'
<1>1. IsHistory(hist')
  BY EndedFields, EndingNames DEF UninstallFailed, Finish
<1> QED
  BY <1>1, IdleFields DEF TypeInv, UninstallFailed, Finish

LEMMA KillTypes == ASSUME TypeInv, ControlInv, Kill PROVE TypeInv'
  BY IdleFields, KillFields DEF TypeInv, Kill

LEMMA EditTypes == ASSUME TypeInv, NEW o \in Ops, Edit(o) PROVE TypeInv'
  BY EditFields, ContentFacts DEF TypeInv, Edit

-----------------------------------------------------------------------------
(* Which command is in which stage is invariant.                            *)

LEMMA IdleStage == IdleRun.stage = "idle"
  BY DEF IdleRun

LEMMA IdleControl == ASSUME run' = IdleRun PROVE ControlInv'
  BY IdleFields DEF ControlInv, Phase, Installing, Uninstalling, Changing, Retiring, InstallPhases, UninstallPhases

LEMMA BeginControl == ASSUME TypeInv, ControlInv, Begin PROVE ControlInv'
  BY IdleStage, BeginFields
     DEF ControlInv, Phase, Installing, Uninstalling, Changing, Retiring, InstallPhases, UninstallPhases, Begin, SameWork

LEMMA RecoveredControl == ASSUME TypeInv, ControlInv, Recovered PROVE ControlInv'
  BY IdleStage, FlushFields
     DEF ControlInv, Phase, Installing, Uninstalling, Changing, Retiring, InstallPhases, UninstallPhases, Recovered, SameWork, SameBooks, Targets, At

LEMMA FlushBeforeRetirementControl == ASSUME TypeInv, ControlInv, FlushBeforeRetirement PROVE ControlInv'
  BY IdleStage, FlushFields
     DEF ControlInv, Phase, Installing, Uninstalling, Changing, Retiring, InstallPhases, UninstallPhases, FlushBeforeRetirement, SameWork, SameBooks, Targets, At

LEMMA AllAppliedControl == ASSUME TypeInv, ControlInv, AllApplied PROVE ControlInv'
  BY IdleStage, FlushFields
     DEF ControlInv, Phase, Installing, Uninstalling, Changing, Retiring, InstallPhases, UninstallPhases, AllApplied, SameWork, SameBooks, Targets, At

LEMMA AllUndoneControl == ASSUME TypeInv, ControlInv, AllUndone PROVE ControlInv'
  BY IdleStage, FlushFields
     DEF ControlInv, Phase, Installing, Uninstalling, Changing, Retiring, InstallPhases, UninstallPhases, AllUndone, SameWork, SameBooks, Targets, At

LEMMA AllRestoredControl == ASSUME TypeInv, ControlInv, AllRestored PROVE ControlInv'
  BY IdleStage, FlushFields
     DEF ControlInv, Phase, Installing, Uninstalling, Changing, Retiring, InstallPhases, UninstallPhases, AllRestored, SameWork, SameBooks, Targets, At

LEMMA UninstallFailsControl == ASSUME TypeInv, ControlInv, UninstallFails PROVE ControlInv'
  BY IdleStage, FlushFields
     DEF ControlInv, Phase, Installing, Uninstalling, Changing, Retiring, InstallPhases, UninstallPhases, UninstallFails, SameWork, SameBooks, Targets

LEMMA RestartControl == ASSUME TypeInv, ControlInv, Restart PROVE ControlInv'
  BY IdleStage, RestartFields
     DEF ControlInv, Phase, Installing, Uninstalling, Changing, Retiring, InstallPhases, UninstallPhases, Restart, SameWork, SameBooks

LEMMA FlushedControl == ASSUME TypeInv, ControlInv, Flushed PROVE ControlInv'
  BY IdleStage, GotoFields, StageNames
     DEF ControlInv, Phase, Installing, Uninstalling, Changing, Retiring, InstallPhases, UninstallPhases, Flushed, SameWork, SameBooks, TypeInv, IsRun, Targets

LEMMA EnterControl == ASSUME TypeInv, ControlInv, Enter PROVE ControlInv'
<1>1. run.stage = "enter" /\ ledger' = ledger /\ journal' = journal
  BY DEF Enter
<1>2. CASE run' = IdleRun
  BY <1>2, IdleControl
<1>3. CASE run' # IdleRun
  BY <1>1, <1>3, EnterFields
     DEF ControlInv, Phase, Installing, Uninstalling, Changing, Retiring, InstallPhases, UninstallPhases,
         EnterInstall, EnterUninstall, SameWork, SameBooks
<1> QED
  BY <1>2, <1>3

LEMMA SkipOperationControl == ASSUME TypeInv, ControlInv, SkipOperation PROVE ControlInv'
  BY IdleStage, SkipOperationFields
     DEF ControlInv, Phase, Installing, Uninstalling, Changing, Retiring, InstallPhases, UninstallPhases, SkipOperation, At

LEMMA CaptureControl == ASSUME TypeInv, ControlInv, Capture PROVE ControlInv'
  BY IdleStage, CaptureFields
     DEF ControlInv, Phase, Installing, Uninstalling, Changing, Retiring, InstallPhases, UninstallPhases, Capture, At, SameWork

LEMMA ChangeFileControl == ASSUME TypeInv, ControlInv, ChangeFile PROVE ControlInv'
<1>1. Op \in Ops /\ Changed(Op) /\ run.stage = "change" /\ run.at <= Len(Order)
  BY OpMember DEF ChangeFile, At
<1> QED
  BY IdleStage, <1>1, ChangedFields
     DEF ControlInv, Phase, Installing, Uninstalling, Changing, Retiring, InstallPhases, UninstallPhases, SameWork, SameBooks

LEMMA MoveInControl == ASSUME TypeInv, ControlInv, MoveIn PROVE ControlInv'
<1>1. Op \in Ops /\ Changed(Op) /\ run.stage = "change" /\ run.at <= Len(Order)
  BY OpMember DEF MoveIn, At
<1> QED
  BY IdleStage, <1>1, ChangedFields
     DEF ControlInv, Phase, Installing, Uninstalling, Changing, Retiring, InstallPhases, UninstallPhases, SameWork, SameBooks

LEMMA ChangeRestControl == ASSUME TypeInv, ControlInv, ChangeRest PROVE ControlInv'
<1>1. Op \in Ops /\ Changed(Op) /\ run.stage = "change" /\ run.at <= Len(Order)
  BY OpMember DEF ChangeRest, At
<1> QED
  BY IdleStage, <1>1, ChangedFields
     DEF ControlInv, Phase, Installing, Uninstalling, Changing, Retiring, InstallPhases, UninstallPhases, SameWork, SameBooks

LEMMA SetAsideControl == ASSUME TypeInv, ControlInv, SetAside PROVE ControlInv'
  BY IdleStage, ContentFacts
     DEF ControlInv, Phase, Installing, Uninstalling, Changing, Retiring, InstallPhases, UninstallPhases, SetAside, At

LEMMA ChangeHalfControl == ASSUME TypeInv, ControlInv, ChangeHalf PROVE ControlInv'
  BY IdleStage, ContentFacts
     DEF ControlInv, Phase, Installing, Uninstalling, Changing, Retiring, InstallPhases, UninstallPhases, ChangeHalf, At

LEMMA SettleControl == ASSUME TypeInv, ControlInv, Settle, InHand PROVE ControlInv'
  BY SettleFields DEF ControlInv, Phase, Installing, Uninstalling, Changing, Retiring, InstallPhases, UninstallPhases, Settle, At

LEMMA RetireChangedControl == ASSUME TypeInv, ControlInv, RetireChanged PROVE ControlInv'
  BY IdleStage, GaveUpFields
     DEF ControlInv, Phase, Installing, Uninstalling, Changing, Retiring, InstallPhases, UninstallPhases, RetireChanged, At

LEMMA RetiredControl == ASSUME TypeInv, ControlInv, Retired PROVE ControlInv'
  BY IdleStage, GaveUpFields
     DEF ControlInv, Phase, Installing, Uninstalling, Changing, Retiring, InstallPhases, UninstallPhases, Retired, At

LEMMA RetireControl == ASSUME TypeInv, ControlInv, Retire PROVE ControlInv'
  BY IdleStage, GotoFields, StageNames
     DEF ControlInv, Phase, Installing, Uninstalling, Changing, Retiring, InstallPhases, UninstallPhases, Retire, SameWork, SameBooks, At

LEMMA RestoreRetiredControl == ASSUME TypeInv, ControlInv, RestoreRetired PROVE ControlInv'
  BY IdleStage, GotoFields, StageNames
     DEF ControlInv, Phase, Installing, Uninstalling, Changing, Retiring, InstallPhases, UninstallPhases, RestoreRetired, SameWork, SameBooks, At

LEMMA DiscardReplacedControl == ASSUME TypeInv, ControlInv, DiscardReplaced PROVE ControlInv'
  BY IdleStage, GotoFields, StageNames
     DEF ControlInv, Phase, Installing, Uninstalling, Changing, Retiring, InstallPhases, UninstallPhases, DiscardReplaced, SameWork, SameBooks, At

LEMMA CommitControl == ASSUME TypeInv, ControlInv, Commit PROVE ControlInv'
  BY IdleStage, GotoFields, StageNames
     DEF ControlInv, Phase, Installing, Uninstalling, Changing, Retiring, InstallPhases, UninstallPhases, Commit, SameWork, SameBooks, At

LEMMA RestoreControl == ASSUME TypeInv, ControlInv, Restore PROVE ControlInv'
  BY IdleStage, GotoFields, StageNames
     DEF ControlInv, Phase, Installing, Uninstalling, Changing, Retiring, InstallPhases, UninstallPhases, Restore, SameWork, SameBooks

LEMMA ClearCommittedControl == ASSUME TypeInv, ControlInv, ClearCommitted PROVE ControlInv'
  BY IdleStage, IdleControl
     DEF ControlInv, Phase, Installing, Uninstalling, Changing, Retiring, InstallPhases, UninstallPhases, ClearCommitted, Finish

LEMMA UninstallFailedControl == ASSUME TypeInv, ControlInv, UninstallFailed PROVE ControlInv'
  BY IdleStage, IdleControl
     DEF ControlInv, Phase, Installing, Uninstalling, Changing, Retiring, InstallPhases, UninstallPhases, UninstallFailed, Finish

LEMMA RemoveLedgerControl == ASSUME RemoveLedger PROVE ControlInv'
  BY IdleControl DEF RemoveLedger

LEMMA UndoFailsControl == ASSUME UndoFails PROVE ControlInv'
  BY IdleControl DEF UndoFails

LEMMA RecoveryFailsControl == ASSUME RecoveryFails PROVE ControlInv'
  BY IdleControl DEF RecoveryFails

LEMMA LastRestartFailsControl == ASSUME LastRestartFails PROVE ControlInv'
  BY IdleControl DEF LastRestartFails

LEMMA KillControl == ASSUME Kill PROVE ControlInv'
  BY IdleControl DEF Kill

LEMMA UndoNextControl == ASSUME TypeInv, ControlInv, UndoNext PROVE ControlInv'
<1>1. Undoing /\ run' = [run EXCEPT !.pending = Requested(NextToUndo)] /\ UNCHANGED <<ledger, journal>>
  BY DEF UndoNext
<1> QED
  BY IdleStage, <1>1, RequestedFields
     DEF ControlInv, Phase, Installing, Uninstalling, Changing, Retiring, InstallPhases, UninstallPhases, SameWork, SameBooks, Undoing

LEMMA UndidControl == ASSUME TypeInv, ControlInv, Undid PROVE ControlInv'
  BY IdleStage, UndidFields
     DEF ControlInv, Phase, Installing, Uninstalling, Changing, Retiring, InstallPhases, UninstallPhases, Undid, SameWork, SameBooks, Undoing

LEMMA UndoneControl == ASSUME TypeInv, ControlInv, Undone PROVE ControlInv'
<1>1. run.stage = "undone" /\ ledger' = ledger
  BY DEF Undone
<1>2. CASE run' = IdleRun
  BY <1>2, IdleControl
<1>3. CASE run' # IdleRun
  BY <1>1, <1>3, UndoneFields
     DEF ControlInv, Phase, Installing, Uninstalling, Changing, Retiring, InstallPhases, UninstallPhases, SameWork
<1> QED
  BY <1>2, <1>3

LEMMA PreserveControl == ASSUME TypeInv, ControlInv, Preserve PROVE ControlInv'
<1>1. run.stage \in Stages
  BY DEF TypeInv, IsRun
<1> QED
  BY IdleStage, <1>1, TodoFields
     DEF ControlInv, Phase, Installing, Uninstalling, Changing, Retiring, InstallPhases, UninstallPhases, SameWork, SameBooks, Preserve

LEMMA RevertControl == ASSUME TypeInv, ControlInv, Revert PROVE ControlInv'
<1>1. run.stage = "revert" /\ run' = [run EXCEPT !.pending = Requested(NextToRestore)] /\ UNCHANGED <<ledger, journal>>
  BY DEF Revert
<1> QED
  BY IdleStage, <1>1, RequestedFields
     DEF ControlInv, Phase, Installing, Uninstalling, Changing, Retiring, InstallPhases, UninstallPhases, SameWork, SameBooks

LEMMA RevertedControl == ASSUME TypeInv, ControlInv, Reverted PROVE ControlInv'
  BY IdleStage, TodoFields, StageNames
     DEF ControlInv, Phase, Installing, Uninstalling, Changing, Retiring, InstallPhases, UninstallPhases, Reverted, SameWork, SameBooks

LEMMA RaiseControl == ASSUME TypeInv, ControlInv, Raise PROVE ControlInv'
  BY IdleStage, RaiseFields
     DEF ControlInv, Phase, Installing, Uninstalling, Changing, Retiring, InstallPhases, UninstallPhases, Raise, SameWork, SameBooks, RaiseRun, Applying, TypeInv, IsRun, Targets

LEMMA EditControl == ASSUME TypeInv, ControlInv, NEW o \in Ops, Edit(o) PROVE ControlInv'
  BY DEF ControlInv, Phase, Installing, Uninstalling, Changing, Retiring, InstallPhases, UninstallPhases, Edit


-----------------------------------------------------------------------------
(* The books of an install against the ledger: it works through the         *)
(* operations in order, and only retired bundle files leave the preimages.  *)

Earlier == { Order[i] : i \in { j \in DOMAIN Order : j < run.at } }
Working == IF Changing THEN {Op} ELSE {}

LedgerAgrees ==
    Installing =>
        /\ DOMAIN ledger.pre \ DOMAIN run.pre \subseteq Bundles
        /\ \A o \in DOMAIN ledger.pre \cap DOMAIN run.pre : run.pre[o] = ledger.pre[o]

ForwardBooks ==
    Forward =>
        /\ DOMAIN run.current \subseteq Earlier \cup Working
        /\ DOMAIN run.current \subseteq DOMAIN run.pre \cup Working
        /\ DOMAIN ledger.pre \ DOMAIN run.pre \subseteq Earlier
        /\ DOMAIN run.pre \ DOMAIN ledger.pre \subseteq Earlier

PositionInv ==
    /\ LedgerAgrees /\ ForwardBooks
    /\ Changing => Op \in DOMAIN run.current
    /\ Retiring => Op \in DOMAIN run.pre \cap Bundles

LEMMA EarlierSame == ASSUME run'.at = run.at PROVE Earlier' = Earlier /\ Op' = Op
  BY DEF Earlier, Op

LEMMA EarlierStep ==
    ASSUME TypeInv, run.at <= Len(Order)
    PROVE  Op \notin Earlier /\ (run'.at = run.at + 1 => Earlier' = Earlier \cup {Op})
<1>1. run.at \in DOMAIN Order /\ run.at \in Nat
  BY OrderFacts DEF TypeInv, IsRun
<1>2. Op \notin Earlier
  BY <1>1, OrderFacts DEF Earlier, Op
<1>3. ASSUME run'.at = run.at + 1 PROVE Earlier' = Earlier \cup {Op}
  <2>1. { j \in DOMAIN Order : j < run'.at } = { j \in DOMAIN Order : j < run.at } \cup {run.at}
    BY <1>1, <1>3, OrderFacts
  <2> QED
    BY <2>1 DEF Earlier, Op
<1> QED
  BY <1>2, <1>3

LEMMA PositionFrame ==
    ASSUME PositionInv, SameWork, SameBooks, UNCHANGED ledger,
           Installing' => Installing,
           Forward' => Forward /\ (Changing' <=> Changing),
           Changing' => Changing, Retiring' => Retiring
    PROVE  PositionInv'
<1>1. Earlier' = Earlier /\ Op' = Op
  BY EarlierSame DEF SameWork
<1>2. Forward' => Working' = Working
  BY <1>1 DEF Working
<1> QED
  BY <1>1, <1>2 DEF PositionInv, LedgerAgrees, ForwardBooks, SameBooks

LEMMA IdlePosition == ASSUME run' = IdleRun PROVE PositionInv'
  BY IdleFields DEF PositionInv, LedgerAgrees, ForwardBooks, Phase, Installing, Forward, Changing, Retiring,
     InstallPhases

LEMMA BeginPosition == ASSUME TypeInv, Begin PROVE PositionInv'
  BY BeginFields DEF PositionInv, LedgerAgrees, ForwardBooks, Phase, Installing, Forward, Changing, Retiring,
     InstallPhases

LEMMA RecoveredPosition == ASSUME TypeInv, ControlInv, PositionInv, Recovered PROVE PositionInv'
<1>s. SameWork /\ SameBooks /\ UNCHANGED ledger
  BY FlushFields DEF Recovered, At, Targets
<1>p. /\ Installing' => Installing
      /\ Forward' => Forward /\ (Changing' <=> Changing)
      /\ Changing' => Changing
      /\ Retiring' => Retiring
  BY FlushFields DEF Phase, Installing, Forward, Changing, Retiring, InstallPhases, Recovered, At, Targets
<1> QED
  BY <1>s, <1>p, PositionFrame

LEMMA FlushBeforeRetirementPosition == ASSUME TypeInv, ControlInv, PositionInv, FlushBeforeRetirement PROVE PositionInv'
<1>s. SameWork /\ SameBooks /\ UNCHANGED ledger
  BY FlushFields DEF FlushBeforeRetirement, At, Targets
<1>p. /\ Installing' => Installing
      /\ Forward' => Forward /\ (Changing' <=> Changing)
      /\ Changing' => Changing
      /\ Retiring' => Retiring
  BY FlushFields DEF Phase, Installing, Forward, Changing, Retiring, InstallPhases, FlushBeforeRetirement, At, Targets
<1> QED
  BY <1>s, <1>p, PositionFrame

LEMMA AllAppliedPosition == ASSUME TypeInv, ControlInv, PositionInv, AllApplied PROVE PositionInv'
<1>s. SameWork /\ SameBooks /\ UNCHANGED ledger
  BY FlushFields DEF AllApplied, At, Targets
<1>p. /\ Installing' => Installing
      /\ Forward' => Forward /\ (Changing' <=> Changing)
      /\ Changing' => Changing
      /\ Retiring' => Retiring
  BY FlushFields DEF Phase, Installing, Forward, Changing, Retiring, InstallPhases, AllApplied, At, Targets
<1> QED
  BY <1>s, <1>p, PositionFrame

LEMMA AllUndonePosition == ASSUME TypeInv, ControlInv, PositionInv, AllUndone PROVE PositionInv'
<1>s. SameWork /\ SameBooks /\ UNCHANGED ledger
  BY FlushFields DEF AllUndone, At, Targets
<1>p. /\ Installing' => Installing
      /\ Forward' => Forward /\ (Changing' <=> Changing)
      /\ Changing' => Changing
      /\ Retiring' => Retiring
  BY FlushFields DEF Phase, Installing, Forward, Changing, Retiring, InstallPhases, AllUndone, At, Targets
<1> QED
  BY <1>s, <1>p, PositionFrame

LEMMA AllRestoredPosition == ASSUME TypeInv, ControlInv, PositionInv, AllRestored PROVE PositionInv'
<1>s. SameWork /\ SameBooks /\ UNCHANGED ledger
  BY FlushFields DEF AllRestored, At, Targets
<1>p. /\ Installing' => Installing
      /\ Forward' => Forward /\ (Changing' <=> Changing)
      /\ Changing' => Changing
      /\ Retiring' => Retiring
  BY FlushFields DEF Phase, Installing, Forward, Changing, Retiring, InstallPhases, AllRestored, At, Targets
<1> QED
  BY <1>s, <1>p, PositionFrame

LEMMA UninstallFailsPosition == ASSUME TypeInv, ControlInv, PositionInv, UninstallFails PROVE PositionInv'
<1>s. SameWork /\ SameBooks /\ UNCHANGED ledger
  BY FlushFields DEF UninstallFails, Targets
<1>p. /\ Installing' => Installing
      /\ Forward' => Forward /\ (Changing' <=> Changing)
      /\ Changing' => Changing
      /\ Retiring' => Retiring
  BY FlushFields DEF Phase, Installing, Forward, Changing, Retiring, InstallPhases, UninstallFails, Targets
<1> QED
  BY <1>s, <1>p, PositionFrame

LEMMA RestartPosition == ASSUME TypeInv, ControlInv, PositionInv, Restart PROVE PositionInv'
<1>s. SameWork /\ SameBooks /\ UNCHANGED ledger
  BY RestartFields DEF Restart
<1>p. /\ Installing' => Installing
      /\ Forward' => Forward /\ (Changing' <=> Changing)
      /\ Changing' => Changing
      /\ Retiring' => Retiring
  BY RestartFields DEF Phase, Installing, Forward, Changing, Retiring, InstallPhases, Restart
<1> QED
  BY <1>s, <1>p, PositionFrame

LEMMA FlushedPosition == ASSUME TypeInv, ControlInv, PositionInv, Flushed PROVE PositionInv'
<1>s. SameWork /\ SameBooks /\ UNCHANGED ledger
  BY GotoFields, StageNames DEF Flushed, TypeInv, IsRun, Targets
<1>p. /\ Installing' => Installing
      /\ Forward' => Forward /\ (Changing' <=> Changing)
      /\ Changing' => Changing
      /\ Retiring' => Retiring
  BY GotoFields, StageNames DEF Phase, Installing, Forward, Changing, Retiring, InstallPhases, Flushed, TypeInv, IsRun, Targets
<1> QED
  BY <1>s, <1>p, PositionFrame

LEMMA ChangeFilePosition == ASSUME TypeInv, ControlInv, PositionInv, ChangeFile PROVE PositionInv'
<1>0. Op \in Ops /\ Changed(Op) /\ UNCHANGED ledger /\ run.stage = "change"
  BY OpMember DEF ChangeFile, At
<1>s. SameWork /\ SameBooks /\ UNCHANGED ledger
  BY <1>0, ChangedFields DEF ChangeFile, At
<1>p. /\ Installing' => Installing
      /\ Forward' => Forward /\ (Changing' <=> Changing)
      /\ Changing' => Changing
      /\ Retiring' => Retiring
  BY <1>0, ChangedFields DEF Phase, Installing, Forward, Changing, Retiring, InstallPhases, ChangeFile, At
<1> QED
  BY <1>s, <1>p, PositionFrame

LEMMA MoveInPosition == ASSUME TypeInv, ControlInv, PositionInv, MoveIn PROVE PositionInv'
<1>0. Op \in Ops /\ Changed(Op) /\ UNCHANGED ledger /\ run.stage = "change"
  BY OpMember DEF MoveIn, At
<1>s. SameWork /\ SameBooks /\ UNCHANGED ledger
  BY <1>0, ChangedFields DEF MoveIn, At
<1>p. /\ Installing' => Installing
      /\ Forward' => Forward /\ (Changing' <=> Changing)
      /\ Changing' => Changing
      /\ Retiring' => Retiring
  BY <1>0, ChangedFields DEF Phase, Installing, Forward, Changing, Retiring, InstallPhases, MoveIn, At
<1> QED
  BY <1>s, <1>p, PositionFrame

LEMMA ChangeRestPosition == ASSUME TypeInv, ControlInv, PositionInv, ChangeRest PROVE PositionInv'
<1>0. Op \in Ops /\ Changed(Op) /\ UNCHANGED ledger /\ run.stage = "change"
  BY OpMember DEF ChangeRest, At
<1>s. SameWork /\ SameBooks /\ UNCHANGED ledger
  BY <1>0, ChangedFields DEF ChangeRest, At
<1>p. /\ Installing' => Installing
      /\ Forward' => Forward /\ (Changing' <=> Changing)
      /\ Changing' => Changing
      /\ Retiring' => Retiring
  BY <1>0, ChangedFields DEF Phase, Installing, Forward, Changing, Retiring, InstallPhases, ChangeRest, At
<1> QED
  BY <1>s, <1>p, PositionFrame

LEMMA SetAsidePosition == ASSUME TypeInv, ControlInv, PositionInv, SetAside PROVE PositionInv'
<1>s. SameWork /\ SameBooks /\ UNCHANGED ledger
  BY ContentFacts DEF SetAside, SameWork, SameBooks
<1>p. /\ Installing' => Installing
      /\ Forward' => Forward /\ (Changing' <=> Changing)
      /\ Changing' => Changing
      /\ Retiring' => Retiring
  BY ContentFacts DEF Phase, Installing, Forward, Changing, Retiring, InstallPhases, SetAside, SameWork, SameBooks
<1> QED
  BY <1>s, <1>p, PositionFrame

LEMMA ChangeHalfPosition == ASSUME TypeInv, ControlInv, PositionInv, ChangeHalf PROVE PositionInv'
<1>s. SameWork /\ SameBooks /\ UNCHANGED ledger
  BY ContentFacts DEF ChangeHalf, SameWork, SameBooks
<1>p. /\ Installing' => Installing
      /\ Forward' => Forward /\ (Changing' <=> Changing)
      /\ Changing' => Changing
      /\ Retiring' => Retiring
  BY ContentFacts DEF Phase, Installing, Forward, Changing, Retiring, InstallPhases, ChangeHalf, SameWork, SameBooks
<1> QED
  BY <1>s, <1>p, PositionFrame

LEMMA RestoreRetiredPosition == ASSUME TypeInv, ControlInv, PositionInv, RestoreRetired PROVE PositionInv'
<1>s. SameWork /\ SameBooks /\ UNCHANGED ledger
  BY GotoFields, StageNames DEF RestoreRetired, At
<1>p. /\ Installing' => Installing
      /\ Forward' => Forward /\ (Changing' <=> Changing)
      /\ Changing' => Changing
      /\ Retiring' => Retiring
  BY GotoFields, StageNames DEF Phase, Installing, Forward, Changing, Retiring, InstallPhases, RestoreRetired, At
<1> QED
  BY <1>s, <1>p, PositionFrame

LEMMA DiscardReplacedPosition == ASSUME TypeInv, ControlInv, PositionInv, DiscardReplaced PROVE PositionInv'
<1>s. SameWork /\ SameBooks /\ UNCHANGED ledger
  BY GotoFields, StageNames DEF DiscardReplaced, At
<1>p. /\ Installing' => Installing
      /\ Forward' => Forward /\ (Changing' <=> Changing)
      /\ Changing' => Changing
      /\ Retiring' => Retiring
  BY GotoFields, StageNames DEF Phase, Installing, Forward, Changing, Retiring, InstallPhases, DiscardReplaced, At
<1> QED
  BY <1>s, <1>p, PositionFrame

LEMMA RestorePosition == ASSUME TypeInv, ControlInv, PositionInv, Restore PROVE PositionInv'
<1>s. SameWork /\ SameBooks /\ UNCHANGED ledger
  BY GotoFields, StageNames DEF Restore, At
<1>p. /\ Installing' => Installing
      /\ Forward' => Forward /\ (Changing' <=> Changing)
      /\ Changing' => Changing
      /\ Retiring' => Retiring
  BY GotoFields, StageNames DEF Phase, Installing, Forward, Changing, Retiring, InstallPhases, Restore, At
<1> QED
  BY <1>s, <1>p, PositionFrame

LEMMA UndoNextPosition == ASSUME TypeInv, ControlInv, PositionInv, UndoNext PROVE PositionInv'
<1>0. run' = [run EXCEPT !.pending = Requested(NextToUndo)] /\ UNCHANGED ledger
  BY DEF UndoNext
<1>s. SameWork /\ SameBooks /\ UNCHANGED ledger
  BY <1>0, RequestedFields DEF UndoNext
<1>p. /\ Installing' => Installing
      /\ Forward' => Forward /\ (Changing' <=> Changing)
      /\ Changing' => Changing
      /\ Retiring' => Retiring
  BY <1>0, RequestedFields DEF Phase, Installing, Forward, Changing, Retiring, InstallPhases, UndoNext
<1> QED
  BY <1>s, <1>p, PositionFrame

LEMMA RevertPosition == ASSUME TypeInv, ControlInv, PositionInv, Revert PROVE PositionInv'
<1>0. run' = [run EXCEPT !.pending = Requested(NextToRestore)] /\ UNCHANGED ledger
  BY DEF Revert
<1>s. SameWork /\ SameBooks /\ UNCHANGED ledger
  BY <1>0, RequestedFields DEF Revert
<1>p. /\ Installing' => Installing
      /\ Forward' => Forward /\ (Changing' <=> Changing)
      /\ Changing' => Changing
      /\ Retiring' => Retiring
  BY <1>0, RequestedFields DEF Phase, Installing, Forward, Changing, Retiring, InstallPhases, Revert
<1> QED
  BY <1>s, <1>p, PositionFrame

LEMMA UndidPosition == ASSUME TypeInv, ControlInv, PositionInv, Undid PROVE PositionInv'
<1>s. SameWork /\ SameBooks /\ UNCHANGED ledger
  BY UndidFields DEF Undid
<1>p. /\ Installing' => Installing
      /\ Forward' => Forward /\ (Changing' <=> Changing)
      /\ Changing' => Changing
      /\ Retiring' => Retiring
  BY UndidFields DEF Phase, Installing, Forward, Changing, Retiring, InstallPhases, Undid
<1> QED
  BY <1>s, <1>p, PositionFrame

LEMMA PreservePosition == ASSUME TypeInv, ControlInv, PositionInv, Preserve PROVE PositionInv'
<1>0. run.stage \in Stages
  BY DEF TypeInv, IsRun
<1>s. SameWork /\ SameBooks /\ UNCHANGED ledger
  BY <1>0, TodoFields DEF Preserve
<1>p. /\ Installing' => Installing
      /\ Forward' => Forward /\ (Changing' <=> Changing)
      /\ Changing' => Changing
      /\ Retiring' => Retiring
  BY <1>0, TodoFields DEF Phase, Installing, Forward, Changing, Retiring, InstallPhases, Preserve
<1> QED
  BY <1>s, <1>p, PositionFrame

LEMMA RevertedPosition == ASSUME TypeInv, ControlInv, PositionInv, Reverted PROVE PositionInv'
<1>s. SameWork /\ SameBooks /\ UNCHANGED ledger
  BY TodoFields, StageNames DEF Reverted
<1>p. /\ Installing' => Installing
      /\ Forward' => Forward /\ (Changing' <=> Changing)
      /\ Changing' => Changing
      /\ Retiring' => Retiring
  BY TodoFields, StageNames DEF Phase, Installing, Forward, Changing, Retiring, InstallPhases, Reverted
<1> QED
  BY <1>s, <1>p, PositionFrame

LEMMA RaisePosition == ASSUME TypeInv, ControlInv, PositionInv, Raise PROVE PositionInv'
<1>s. SameWork /\ SameBooks /\ UNCHANGED ledger
  BY RaiseFields DEF Raise, RaiseRun, Applying, TypeInv, IsRun, Targets, ControlInv
<1>p. /\ Installing' => Installing
      /\ Forward' => Forward /\ (Changing' <=> Changing)
      /\ Changing' => Changing
      /\ Retiring' => Retiring
  BY RaiseFields DEF Phase, Installing, Forward, Changing, Retiring, InstallPhases, Raise, RaiseRun, Applying, TypeInv, IsRun, Targets, ControlInv
<1> QED
  BY <1>s, <1>p, PositionFrame

LEMMA EditPosition == ASSUME PositionInv, NEW o \in Ops, Edit(o) PROVE PositionInv'
<1>1. UNCHANGED <<run, ledger>>
  BY DEF Edit
<1> QED
  BY <1>1, PositionFrame DEF SameWork, SameBooks, Installing, Forward, Changing, Retiring, Phase

LEMMA EnterPosition == ASSUME TypeInv, ControlInv, PositionInv, Enter PROVE PositionInv'
<1>1. CASE run' = IdleRun
  BY <1>1, IdlePosition
<1>2. CASE run' # IdleRun /\ EnterInstall
  <2>1. run.stage = "enter" /\ UNCHANGED ledger
    BY DEF Enter
  <2>2. run'.current = Nothing
    BY <1>2, <2>1 DEF EnterInstall, ControlInv, Installing, Phase, InstallPhases
  <2> QED
    BY <1>2, <2>1, <2>2, NothingFacts DEF EnterInstall, PositionInv, LedgerAgrees, ForwardBooks, Changing, Retiring
<1>3. CASE run' # IdleRun /\ EnterUninstall
  BY <1>3 DEF EnterUninstall, PositionInv, LedgerAgrees, ForwardBooks, Phase, Installing, Forward, Changing, Retiring,
     InstallPhases
<1> QED
  BY <1>1, <1>2, <1>3, EnterFields

LEMMA SkipOperationPosition == ASSUME TypeInv, ControlInv, PositionInv, SkipOperation PROVE PositionInv'
<1>1. run.stage = "apply" /\ run.at <= Len(Order) /\ UNCHANGED ledger
  BY DEF SkipOperation, At
<1>2. Op \notin Earlier /\ Earlier' = Earlier \cup {Op}
  BY <1>1, EarlierStep, SkipOperationFields
<1>3. run'.pre = run.pre \/ run'.pre = Over(run.pre, Only(Op, Stock))
  BY SkipOperationFields
<1>4. /\ DOMAIN run.pre \subseteq DOMAIN run'.pre /\ DOMAIN run'.pre \subseteq DOMAIN run.pre \cup {Op}
      /\ \A o \in DOMAIN run.pre : run'.pre[o] = run.pre[o]
  <2>1. CASE run'.pre = run.pre
    BY <2>1
  <2>2. CASE run'.pre = Over(run.pre, Only(Op, Stock))
    BY <2>2 DEF Over, Only
  <2> QED
    BY <1>3, <2>1, <2>2
<1>5. Forward /\ Forward' /\ Installing /\ ~Changing /\ ~Changing' /\ ~Retiring'
  BY <1>1, SkipOperationFields DEF Phase, Installing, Forward, Changing, Retiring, InstallPhases
<1>6. Op \in DOMAIN ledger.pre => Op \in DOMAIN run.pre
  BY <1>2, <1>5 DEF PositionInv, ForwardBooks
<1> QED
  BY <1>1, <1>2, <1>4, <1>5, <1>6, SkipOperationFields DEF PositionInv, LedgerAgrees, ForwardBooks, Working

LEMMA CapturePosition == ASSUME TypeInv, ControlInv, PositionInv, Capture PROVE PositionInv'
<1>1. run.stage = "apply" /\ run.at <= Len(Order) /\ UNCHANGED ledger
  BY DEF Capture, At
<1>2. Earlier' = Earlier /\ Op' = Op
  BY CaptureFields, EarlierSame DEF SameWork
<1>a. run'.current = Over(Only(Op, host[Op]), run.current)
  BY CaptureFields
<1>3. DOMAIN run'.current = DOMAIN run.current \cup {Op}
  BY <1>a DEF Over, Only
<1>4. Forward /\ Forward' /\ Installing /\ ~Changing /\ Changing' /\ ~Retiring'
  BY <1>1, CaptureFields DEF Phase, Installing, Forward, Changing, Retiring, InstallPhases
<1> QED
  BY <1>1, <1>2, <1>3, <1>4, CaptureFields DEF PositionInv, LedgerAgrees, ForwardBooks, Working

LEMMA SettlePosition == ASSUME TypeInv, ControlInv, PositionInv, Settle PROVE PositionInv'
<1>1. run.stage = "settle" /\ run.at <= Len(Order) /\ UNCHANGED ledger
  BY DEF Settle, At
<1>2. InHand
  BY <1>1 DEF PositionInv, Changing, InHand
<1>3. Op \notin Earlier /\ Earlier' = Earlier \cup {Op}
  BY <1>1, <1>2, EarlierStep, SettleFields
<1>a. run'.pre = Over(run.pre, Only(Op, Kept(Op)))
  BY <1>2, SettleFields
<1>4. /\ DOMAIN run'.pre = DOMAIN run.pre \cup {Op}
      /\ \A o \in DOMAIN run.pre : run'.pre[o] = run.pre[o]
  BY <1>a DEF Over, Only
<1>5. Forward /\ Forward' /\ Installing /\ Changing /\ ~Changing' /\ ~Retiring'
  BY <1>1, <1>2, SettleFields DEF Phase, Installing, Forward, Changing, Retiring, InstallPhases
<1>6. Op \in DOMAIN ledger.pre => Op \in DOMAIN run.pre
  BY <1>3, <1>5 DEF PositionInv, ForwardBooks
<1> QED
  BY <1>1, <1>2, <1>3, <1>4, <1>5, <1>6, SettleFields DEF PositionInv, LedgerAgrees, ForwardBooks, Working

LEMMA GaveUpPosition ==
    ASSUME TypeInv, ControlInv, PositionInv, run' = GaveUp, run.at <= Len(Order), UNCHANGED ledger,
           Forward, Op \in Bundles, ~Changing
    PROVE  PositionInv'
<1>1. Op \notin Earlier /\ Earlier' = Earlier \cup {Op}
  BY EarlierStep, GaveUpFields
<1>2. DOMAIN run'.pre = DOMAIN run.pre \ {Op} /\ \A o \in DOMAIN run'.pre : run'.pre[o] = run.pre[o]
  BY GaveUpFields
<1>3. Forward' /\ Installing /\ ~Changing' /\ ~Retiring'
  BY GaveUpFields DEF Phase, Installing, Forward, Changing, Retiring, InstallPhases
<1> QED
  BY <1>1, <1>2, <1>3, GaveUpFields DEF PositionInv, LedgerAgrees, ForwardBooks, Working

LEMMA RetireChangedPosition == ASSUME TypeInv, ControlInv, PositionInv, RetireChanged PROVE PositionInv'
  BY GaveUpPosition DEF RetireChanged, At, Superseded, Forward, Phase, Changing

LEMMA RetiredPosition == ASSUME TypeInv, ControlInv, PositionInv, Retired PROVE PositionInv'
  BY GaveUpPosition DEF Retired, At, PositionInv, Retiring, Forward, Phase, Changing

LEMMA RetirePosition == ASSUME TypeInv, ControlInv, PositionInv, Retire PROVE PositionInv'
<1>1. /\ run.stage = "apply" /\ run.at <= Len(Order) /\ UNCHANGED ledger /\ Goto("retire")
      /\ Op \in DOMAIN run.pre \cap Bundles
  BY DEF Retire, At, Superseded
<1>2. Earlier' = Earlier /\ Op' = Op
  BY <1>1, GotoFields, StageNames, EarlierSame DEF SameWork
<1>3. Forward /\ Forward' /\ Installing /\ ~Changing /\ ~Changing' /\ Retiring'
  BY <1>1, GotoFields, StageNames DEF Phase, Installing, Forward, Changing, Retiring, InstallPhases
<1> QED
  BY <1>1, <1>2, <1>3, GotoFields, StageNames DEF PositionInv, LedgerAgrees, ForwardBooks, Working, SameBooks

LEMMA CommitPosition == ASSUME TypeInv, ControlInv, PositionInv, Commit PROVE PositionInv'
<1>1. Goto("clear") /\ ledger'.pre = run.pre
  BY DEF Commit
<1>2. ~Forward' /\ ~Changing' /\ ~Retiring'
  BY <1>1, GotoFields, StageNames DEF Phase, Forward, Changing, Retiring
<1> QED
  BY <1>1, <1>2, GotoFields, StageNames DEF PositionInv, LedgerAgrees, ForwardBooks, SameBooks

LEMMA UndonePosition == ASSUME TypeInv, ControlInv, PositionInv, Undone PROVE PositionInv'
<1>1. CASE run' = IdleRun
  BY <1>1, IdlePosition
<1>2. CASE run' # IdleRun
  <2>1. run'.pre = ledger.pre /\ run'.stage = "commit" /\ UNCHANGED ledger
    BY <1>2, UndoneFields DEF Undone
  <2> QED
    BY <2>1 DEF PositionInv, LedgerAgrees, ForwardBooks, Phase, Forward, Changing, Retiring
<1> QED
  BY <1>1, <1>2

LEMMA ClearCommittedPosition == ASSUME ClearCommitted PROVE PositionInv'
  BY IdlePosition DEF ClearCommitted, Finish

LEMMA UninstallFailedPosition == ASSUME UninstallFailed PROVE PositionInv'
  BY IdlePosition DEF UninstallFailed, Finish

LEMMA RemoveLedgerPosition == ASSUME RemoveLedger PROVE PositionInv'
  BY IdlePosition DEF RemoveLedger

LEMMA UndoFailsPosition == ASSUME UndoFails PROVE PositionInv'
  BY IdlePosition DEF UndoFails

LEMMA RecoveryFailsPosition == ASSUME RecoveryFails PROVE PositionInv'
  BY IdlePosition DEF RecoveryFails

LEMMA LastRestartFailsPosition == ASSUME LastRestartFails PROVE PositionInv'
  BY IdlePosition DEF LastRestartFails

LEMMA KillPosition == ASSUME Kill PROVE PositionInv'
  BY IdlePosition DEF Kill


-----------------------------------------------------------------------------
(* Types, stages and positions together.                                    *)

BookInv == TypeInv /\ ControlInv /\ PositionInv

LEMMA BookStep == ASSUME BookInv, [Next]_vars PROVE BookInv'
<1> USE DEF BookInv
<1>1. CASE Begin
  BY <1>1, BeginTypes, BeginControl, BeginPosition
<1>2. CASE Recovered
  BY <1>2, RecoveredTypes, RecoveredControl, RecoveredPosition
<1>3. CASE Restart
  BY <1>3, RestartTypes, RestartControl, RestartPosition
<1>4. CASE Flushed
  BY <1>4, FlushedTypes, FlushedControl, FlushedPosition
<1>5. CASE Enter
  BY <1>5, EnterTypes, EnterControl, EnterPosition
<1>6. CASE SkipOperation
  BY <1>6, SkipOperationTypes, SkipOperationControl, SkipOperationPosition
<1>7. CASE Capture
  BY <1>7, CaptureTypes, CaptureControl, CapturePosition
<1>8. CASE ChangeFile
  BY <1>8, ChangeFileTypes, ChangeFileControl, ChangeFilePosition
<1>9. CASE SetAside
  BY <1>9, SetAsideTypes, SetAsideControl, SetAsidePosition
<1>10. CASE MoveIn
  BY <1>10, MoveInTypes, MoveInControl, MoveInPosition
<1>11. CASE ChangeHalf
  BY <1>11, ChangeHalfTypes, ChangeHalfControl, ChangeHalfPosition
<1>12. CASE ChangeRest
  BY <1>12, ChangeRestTypes, ChangeRestControl, ChangeRestPosition
<1>13. CASE FlushBeforeRetirement
  BY <1>13, FlushBeforeRetirementTypes, FlushBeforeRetirementControl, FlushBeforeRetirementPosition
<1>14. CASE RetireChanged
  BY <1>14, RetireChangedTypes, RetireChangedControl, RetireChangedPosition
<1>15. CASE Retire
  BY <1>15, RetireTypes, RetireControl, RetirePosition
<1>16. CASE Retired
  BY <1>16, RetiredTypes, RetiredControl, RetiredPosition
<1>17. CASE AllApplied
  BY <1>17, AllAppliedTypes, AllAppliedControl, AllAppliedPosition
<1>18. CASE DiscardReplaced
  BY <1>18, DiscardReplacedTypes, DiscardReplacedControl, DiscardReplacedPosition
<1>19. CASE Commit
  BY <1>19, CommitTypes, CommitControl, CommitPosition
<1>20. CASE ClearCommitted
  BY <1>20, ClearCommittedTypes, ClearCommittedControl, ClearCommittedPosition
<1>21. CASE UndoNext
  BY <1>21, UndoNextTypes, UndoNextControl, UndoNextPosition
<1>22. CASE Undid
  BY <1>22, UndidTypes, UndidControl, UndidPosition
<1>23. CASE AllUndone
  BY <1>23, AllUndoneTypes, AllUndoneControl, AllUndonePosition
<1>24. CASE Undone
  BY <1>24, UndoneTypes, UndoneControl, UndonePosition
<1>25. CASE Preserve
  BY <1>25, PreserveTypes, PreserveControl, PreservePosition
<1>26. CASE Restore
  BY <1>26, RestoreTypes, RestoreControl, RestorePosition
<1>27. CASE Revert
  BY <1>27, RevertTypes, RevertControl, RevertPosition
<1>28. CASE Reverted
  BY <1>28, RevertedTypes, RevertedControl, RevertedPosition
<1>29. CASE AllRestored
  BY <1>29, AllRestoredTypes, AllRestoredControl, AllRestoredPosition
<1>30. CASE RemoveLedger
  BY <1>30, RemoveLedgerTypes, RemoveLedgerControl, RemoveLedgerPosition
<1>31. CASE Raise
  BY <1>31, RaiseTypes, RaiseControl, RaisePosition
<1>32. CASE UndoFails
  BY <1>32, UndoFailsTypes, UndoFailsControl, UndoFailsPosition
<1>33. CASE RecoveryFails
  BY <1>33, RecoveryFailsTypes, RecoveryFailsControl, RecoveryFailsPosition
<1>34. CASE UninstallFails
  BY <1>34, UninstallFailsTypes, UninstallFailsControl, UninstallFailsPosition
<1>35. CASE LastRestartFails
  BY <1>35, LastRestartFailsTypes, LastRestartFailsControl, LastRestartFailsPosition
<1>36. CASE UninstallFailed
  BY <1>36, UninstallFailedTypes, UninstallFailedControl, UninstallFailedPosition
<1>37. CASE Kill
  BY <1>37, KillTypes, KillControl, KillPosition
<1>38. CASE Settle
  <2>1. InHand
    BY <1>38 DEF Settle, At, PositionInv, Changing, InHand
  <2> QED
    BY <1>38, <2>1, SettleTypes, SettleControl, SettlePosition
<1>39. CASE RestoreRetired
  <2>1. Op \in DOMAIN run.pre
    BY <1>39 DEF RestoreRetired, At, PositionInv, Retiring
  <2> QED
    BY <1>39, <2>1, RestoreRetiredTypes, RestoreRetiredControl, RestoreRetiredPosition
<1>e. CASE \E o \in Ops : Edit(o)
  BY <1>e, EditTypes, EditControl, EditPosition
<1>u. CASE UNCHANGED vars
  BY <1>u DEF vars, TypeInv, ControlInv, PositionInv, LedgerAgrees, ForwardBooks, Earlier, Working, Op,
     Phase, Installing, Uninstalling, Forward, Changing, Retiring
<1> QED
  BY <1>1, <1>2, <1>3, <1>4, <1>5, <1>6, <1>7, <1>8, <1>9, <1>10, <1>11, <1>12, <1>13, <1>14, <1>15, <1>16, <1>17, <1>18, <1>19, <1>20, <1>21, <1>22, <1>23, <1>24, <1>25, <1>26, <1>27, <1>28, <1>29, <1>30, <1>31, <1>32, <1>33, <1>34, <1>35, <1>36, <1>37, <1>38, <1>39, <1>e, <1>u DEF Next, Command

THEOREM HostTypes == Spec => []BookInv
<1>1. Init => BookInv
  <2> SUFFICES ASSUME Init PROVE BookInv
    OBVIOUS
  <2>1. PositionInv
    BY DEF Init, IdleRun, PositionInv, LedgerAgrees, ForwardBooks, Phase, Installing, Forward, Changing, Retiring,
       InstallPhases
  <2> QED
    BY <2>1, InitTypes DEF BookInv
<1>2. BookInv /\ [Next]_vars => BookInv'
  BY BookStep
<1> QED
  BY <1>1, <1>2, PTL DEF Spec

-----------------------------------------------------------------------------
(* The history only grows.                                                  *)

HistoryGrows ==
    /\ hist'.idle = hist.idle /\ hist'.edited = hist.edited
    /\ hist'.kills = 0 => hist.kills = 0
    /\ hist'.faults = 0 => hist.faults = 0
    /\ hist.retired => hist'.retired
    /\ hist.missed => hist'.missed
    /\ RemoveLedger \/ hist'.kept = hist.kept
    /\ Enter \/ hist'.before = hist.before
    /\ \/ hist'.ended \in {hist.ended} \cup (Endings \ {"undone"})
       \/ ClearCommitted /\ run.then = "undone"

LEMMA HistoryStep == ASSUME TypeInv, Begin \/ Command \/ Kill PROVE HistoryGrows
<1>1. CASE Recovered
  BY <1>1 DEF Recovered, HistoryGrows
<1>2. CASE Restart
  BY <1>2 DEF Restart, HistoryGrows
<1>3. CASE Flushed
  BY <1>3 DEF Flushed, HistoryGrows
<1>4. CASE SkipOperation
  BY <1>4 DEF SkipOperation, HistoryGrows
<1>5. CASE Capture
  BY <1>5 DEF Capture, HistoryGrows
<1>6. CASE ChangeFile
  BY <1>6 DEF ChangeFile, HistoryGrows
<1>7. CASE SetAside
  BY <1>7 DEF SetAside, HistoryGrows
<1>8. CASE MoveIn
  BY <1>8 DEF MoveIn, HistoryGrows
<1>9. CASE ChangeHalf
  BY <1>9 DEF ChangeHalf, HistoryGrows
<1>10. CASE ChangeRest
  BY <1>10 DEF ChangeRest, HistoryGrows
<1>11. CASE Settle
  BY <1>11 DEF Settle, HistoryGrows
<1>12. CASE FlushBeforeRetirement
  BY <1>12 DEF FlushBeforeRetirement, HistoryGrows
<1>13. CASE RetireChanged
  BY <1>13 DEF RetireChanged, HistoryGrows
<1>14. CASE RestoreRetired
  BY <1>14 DEF RestoreRetired, HistoryGrows
<1>15. CASE Retired
  BY <1>15 DEF Retired, HistoryGrows
<1>16. CASE AllApplied
  BY <1>16 DEF AllApplied, HistoryGrows
<1>17. CASE DiscardReplaced
  BY <1>17 DEF DiscardReplaced, HistoryGrows
<1>18. CASE Commit
  BY <1>18 DEF Commit, HistoryGrows
<1>19. CASE UndoNext
  BY <1>19 DEF UndoNext, HistoryGrows
<1>20. CASE Undid
  BY <1>20 DEF Undid, HistoryGrows
<1>21. CASE AllUndone
  BY <1>21 DEF AllUndone, HistoryGrows
<1>22. CASE Preserve
  BY <1>22 DEF Preserve, HistoryGrows
<1>23. CASE Restore
  BY <1>23 DEF Restore, HistoryGrows
<1>24. CASE Revert
  BY <1>24 DEF Revert, HistoryGrows
<1>25. CASE Reverted
  BY <1>25 DEF Reverted, HistoryGrows
<1>26. CASE AllRestored
  BY <1>26 DEF AllRestored, HistoryGrows
<1>27. CASE Begin
  BY <1>27, BeginFields DEF HistoryGrows, Endings
<1>28. CASE Enter
  BY <1>28, EnterFields, BeforeFields, EndedFields, EndingNames DEF EnterInstall, EnterUninstall, HistoryGrows, SameCauses, SameEffects
<1>29. CASE Retire
  BY <1>29, RetiredFields DEF Retire, HistoryGrows, SameCauses
<1>30. CASE ClearCommitted
  BY <1>30, EndedFields, EndingNames DEF ClearCommitted, Finish, HistoryGrows, SameCauses, SameEffects
<1>31. CASE UninstallFailed
  BY <1>31, EndedFields, EndingNames DEF UninstallFailed, Finish, HistoryGrows, SameCauses, SameEffects
<1>32. CASE Undone
  BY <1>32, UndoneFields, EndedFields, EndingNames DEF HistoryGrows, SameCauses, SameEffects
<1>33. CASE RemoveLedger
  BY <1>33, RemoveFields DEF HistoryGrows, Endings, SameCauses
<1>34. CASE UndoFails
  BY <1>34, BlockedFields, EndingNames DEF UndoFails, BlockedHistory, HistoryGrows, SameEffects
<1>35. CASE RecoveryFails
  BY <1>35, BlockedFields, EndingNames DEF RecoveryFails, BlockedHistory, HistoryGrows, SameEffects
<1>36. CASE LastRestartFails
  BY <1>36, BlockedFields, EndingNames DEF LastRestartFails, BlockedHistory, HistoryGrows, SameEffects
<1>37. CASE Kill
  BY <1>37, KillFields DEF HistoryGrows, Endings, SameEffects
<1>38. CASE Raise
  <2>1. CASE UNCHANGED hist
    BY <2>1 DEF HistoryGrows
  <2>2. CASE hist' = [hist EXCEPT !.faults = @ + 1, !.missed = @ \/ run.stage = "flush"]
    <3> DEFINE missed == hist.missed \/ run.stage = "flush"
    <3>1. hist' = [hist EXCEPT !.faults = @ + 1, !.missed = missed] /\ missed \in BOOLEAN
      BY <2>2 DEF TypeInv, IsHistory
    <3>2. hist.missed => missed
      OBVIOUS
    <3> HIDE DEF missed
    <3> QED
      BY <3>1, <3>2, FaultFields DEF HistoryGrows, SameEffects
  <2> QED
    BY <1>38, <2>1, <2>2 DEF Raise
<1>39. CASE UninstallFails
  <2>1. CASE UNCHANGED hist
    BY <2>1 DEF HistoryGrows
  <2>2. CASE hist' = [hist EXCEPT !.faults = @ + 1]
    <3>1. hist' = [hist EXCEPT !.faults = @ + 1, !.missed = hist.missed] /\ hist.missed \in BOOLEAN
      BY <2>2 DEF TypeInv, IsHistory
    <3> QED
      BY <3>1, FaultFields DEF HistoryGrows, SameEffects
  <2> QED
    BY <1>39, <2>1, <2>2 DEF UninstallFails
<1> QED
  BY <1>1, <1>2, <1>3, <1>4, <1>5, <1>6, <1>7, <1>8, <1>9, <1>10, <1>11, <1>12, <1>13, <1>14, <1>15, <1>16, <1>17, <1>18, <1>19, <1>20, <1>21, <1>22, <1>23, <1>24, <1>25, <1>26, <1>27, <1>28, <1>29, <1>30, <1>31, <1>32, <1>33, <1>34, <1>35, <1>36, <1>37, <1>38, <1>39 DEF Command

-----------------------------------------------------------------------------
(* A ledger keeps the first preimages.                                      *)

\* A preimage in the ledger is not replaced by a later one, unless a rollback failed.
THEOREM FirstPreimages == Spec => FirstPreimagesKept
<1> DEFINE Keeps == hist'.ended # "blocked" =>
             \A o \in DOMAIN ledger.pre \cap DOMAIN ledger'.pre : ledger'.pre[o] = ledger.pre[o]
<1>1. BookInv /\ [Next]_vars => [Keeps]_vars
  <2> SUFFICES ASSUME BookInv, Next PROVE Keeps
    OBVIOUS
  <2>1. CASE UNCHANGED ledger
    BY <2>1
  <2>2. CASE Commit
    <3>1. ledger'.pre = run.pre /\ run.stage = "commit"
      BY <2>2 DEF Commit
    <3>2. Installing
      BY <3>1 DEF Installing, Phase, InstallPhases
    <3> QED
      BY <3>1, <3>2 DEF BookInv, PositionInv, LedgerAgrees
  <2>3. CASE RemoveLedger
    <3>1. DOMAIN ledger'.pre = {}
      BY <2>3, NothingFacts DEF RemoveLedger, NoLedger
    <3> QED
      BY <3>1
  <2>4. CASE UndoFails
    <3>1. hist'.ended = "blocked"
      BY <2>4, BlockedFields, EndingNames DEF BookInv, UndoFails, BlockedHistory
    <3> QED
      BY <3>1
  <2>5. CASE Next /\ ~Commit /\ ~RemoveLedger /\ ~UndoFails
    <3>1. UNCHANGED ledger
      BY <2>5 DEF Next, Command, Edit, Begin, Recovered, Restart, Flushed, Enter, SkipOperation, Capture, ChangeFile, SetAside, MoveIn, ChangeHalf, ChangeRest, Settle, FlushBeforeRetirement, RetireChanged, Retire, RestoreRetired, Retired, AllApplied, DiscardReplaced, ClearCommitted, UndoNext, Undid, AllUndone, Undone, Preserve, Restore, Revert, Reverted, AllRestored, Raise, RecoveryFails, UninstallFails, LastRestartFails, UninstallFailed, Kill
    <3> QED
      BY <3>1
  <2> QED
    BY <2>2, <2>3, <2>4, <2>5
<1> QED
  BY <1>1, HostTypes, PTL DEF Spec, FirstPreimagesKept

-----------------------------------------------------------------------------
(* What may be on record.  No file of a user, and no half of a change, is    *)
(* ever the preimage of a file or directory.                                *)

Whole(f) == \A o \in DOMAIN f \cap (Guarded \cup Packaged) : f[o] \notin {Edited, Half}
Unedited(f) == \A o \in DOMAIN f \cap Guarded : f[o] # Edited

BooksWhole == Whole(run.pre) /\ Whole(run.current) /\ Unedited(run.out)
DiskWhole == Whole(ledger.pre) /\ Unedited(ledger.out) /\ Whole(journal.pre)
HostWhole ==
    /\ \A o \in Guarded \cup Packaged : host[o] # Half
    /\ \A o \in Packaged : aside[o] # Half
WholeInv == BooksWhole /\ DiskWhole /\ HostWhole

LEMMA WholeNothing == Whole(Nothing) /\ Unedited(Nothing)
  BY NothingFacts DEF Whole, Unedited

LEMMA WholeOver ==
    ASSUME NEW f, NEW g
    PROVE  /\ Whole(f) /\ Whole(g) => Whole(Over(f, g))
           /\ Unedited(f) /\ Unedited(g) => Unedited(Over(f, g))
  BY DEF Whole, Unedited, Over

LEMMA WholeOnly ==
    ASSUME NEW o, NEW c
    PROVE  /\ (o \in Guarded \cup Packaged => c \notin {Edited, Half}) => Whole(Only(o, c))
           /\ (o \in Guarded => c # Edited) => Unedited(Only(o, c))
  BY DEF Whole, Unedited, Only

LEMMA WholeWithout == ASSUME NEW f, NEW o, Whole(f) PROVE Whole([x \in DOMAIN f \ {o} |-> f[x]])
  BY DEF Whole

LEMMA NewContent ==
    ASSUME TypeInv, NEW o
    PROVE  Stock \notin {Edited, Half} /\ Desired(o) \notin {Edited, Half} /\ Unknown # Edited
  BY DesiredMember, ContentFacts

LEMMA IdleWhole == ASSUME run' = IdleRun PROVE BooksWhole'
  BY IdleFields, WholeNothing DEF BooksWhole

LEMMA SameWhole == ASSUME BooksWhole, SameBooks PROVE BooksWhole'
  BY DEF BooksWhole, SameBooks

LEMMA DiskSameWhole == ASSUME DiskWhole, UNCHANGED <<ledger, journal>> PROVE DiskWhole'
  BY DEF DiskWhole

LEMMA JournalSameWhole == ASSUME DiskWhole, UNCHANGED ledger, Whole(journal'.pre) PROVE DiskWhole'
  BY DEF DiskWhole

LEMMA HostSameWhole == ASSUME HostWhole, UNCHANGED <<host, aside>> PROVE HostWhole'
  BY DEF HostWhole

LEMMA BooksWholeStep == ASSUME BookInv, WholeInv, Begin \/ Command \/ Kill PROVE BooksWhole'
<1> USE DEF BookInv, WholeInv
<1>1. CASE ClearCommitted
  BY <1>1, IdleWhole DEF ClearCommitted, Finish
<1>2. CASE RemoveLedger
  BY <1>2, IdleWhole DEF RemoveLedger, Finish
<1>3. CASE UndoFails
  BY <1>3, IdleWhole DEF UndoFails, Finish
<1>4. CASE RecoveryFails
  BY <1>4, IdleWhole DEF RecoveryFails, Finish
<1>5. CASE LastRestartFails
  BY <1>5, IdleWhole DEF LastRestartFails, Finish
<1>6. CASE UninstallFailed
  BY <1>6, IdleWhole DEF UninstallFailed, Finish
<1>7. CASE Kill
  BY <1>7, IdleWhole DEF Kill, Finish
<1>8. CASE Begin
  BY <1>8, BeginFields, WholeNothing DEF BooksWhole
<1>9. CASE Recovered
  BY <1>9, FlushFields, SameWhole DEF Recovered, Targets
<1>10. CASE FlushBeforeRetirement
  BY <1>10, FlushFields, SameWhole DEF FlushBeforeRetirement, Targets
<1>11. CASE AllApplied
  BY <1>11, FlushFields, SameWhole DEF AllApplied, Targets
<1>12. CASE AllUndone
  BY <1>12, FlushFields, SameWhole DEF AllUndone, Targets
<1>13. CASE AllRestored
  BY <1>13, FlushFields, SameWhole DEF AllRestored, Targets
<1>14. CASE UninstallFails
  BY <1>14, FlushFields, SameWhole DEF UninstallFails, Targets
<1>15. CASE Restart
  BY <1>15, RestartFields, SameWhole
<1>16. CASE Flushed
  BY <1>16, GotoFields, StageNames, SameWhole DEF Flushed, TypeInv, IsRun
<1>17. CASE Enter
  <2>1. CASE run' = IdleRun
    BY <2>1, IdleWhole
  <2>2. CASE run' # IdleRun
    BY <1>17, <2>2, EnterFields DEF EnterInstall, EnterUninstall, SameBooks, BooksWhole, DiskWhole
  <2> QED
    BY <2>1, <2>2
<1>18. CASE SkipOperation
  <2>1. run'.current = run.current
    BY <1>18, SkipOperationFields
  <2>2. Whole(run'.pre)
    <3>1. run'.pre = run.pre \/ run'.pre = Over(run.pre, Only(Op, Stock))
      BY <1>18, SkipOperationFields
    <3>2. Whole(Over(run.pre, Only(Op, Stock)))
      BY WholeOver, WholeOnly, NewContent DEF BooksWhole
    <3> QED
      BY <3>1, <3>2 DEF BooksWhole
  <2>3. Unedited(run'.out)
    <3>1. CASE run'.out = run.out
      BY <3>1 DEF BooksWhole
    <3>2. ASSUME NEW c \in SkipOutcome(Op), run'.out = Over(Only(Op, c), run.out) PROVE Unedited(run'.out)
      <4>1. Op \in Guarded => c # Edited
        BY NewContent, Sets DEF SkipOutcome
      <4> QED
        BY <3>2, <4>1, WholeOver, WholeOnly DEF BooksWhole
    <3> QED
      BY <1>18, <3>1, <3>2, SkipOperationFields
  <2> QED
    BY <2>1, <2>2, <2>3 DEF BooksWhole
<1>19. CASE Capture
  <2>1. Op \in Guarded \cup Packaged => host[Op] \notin {Edited, Half}
    BY <1>19 DEF Capture, NeedsApply, HostWhole
  <2>2. Whole(Over(Only(Op, host[Op]), run.current))
    BY <2>1, WholeOver, WholeOnly DEF BooksWhole
  <2> QED
    BY <1>19, <2>2, CaptureFields DEF BooksWhole
<1>20. CASE ChangeFile
  <2>1. Op \in Ops /\ Changed(Op)
    BY <1>20, OpMember DEF ChangeFile, At
  <2> QED
    BY <2>1, ChangedFields, SameWhole
<1>21. CASE MoveIn
  <2>1. Op \in Ops /\ Changed(Op)
    BY <1>21, OpMember DEF MoveIn, At
  <2> QED
    BY <2>1, ChangedFields, SameWhole
<1>22. CASE ChangeRest
  <2>1. Op \in Ops /\ Changed(Op)
    BY <1>22, OpMember DEF ChangeRest, At
  <2> QED
    BY <2>1, ChangedFields, SameWhole
<1>23. CASE SetAside
  BY <1>23, SameWhole DEF SetAside, SameBooks
<1>24. CASE ChangeHalf
  BY <1>24, SameWhole DEF ChangeHalf, SameBooks
<1>25. CASE Settle
  <2>1. InHand
    BY <1>25 DEF Settle, At, PositionInv, Changing, InHand
  <2>2. Op \in Guarded \cup Packaged => Kept(Op) \notin {Edited, Half}
    BY <2>1, NewContent DEF Kept, InHand, BooksWhole, Whole
  <2>3. Whole(Over(run.pre, Only(Op, Kept(Op)))) /\ Unedited(Over(Only(Op, Desired(Op)), run.out))
    BY <2>2, WholeOver, WholeOnly, NewContent DEF BooksWhole
  <2> QED
    BY <1>25, <2>1, <2>3, SettleFields DEF BooksWhole
<1>26. CASE RetireChanged
  <2>1. run' = GaveUp /\ run.at <= Len(Order)
    BY <1>26 DEF RetireChanged, At
  <2>2. Unedited(Over(Only(Op, Unknown), run.out)) /\ Whole([o \in DOMAIN run.pre \ {Op} |-> run.pre[o]])
    BY WholeOver, WholeOnly, WholeWithout, NewContent DEF BooksWhole
  <2> QED
    BY <2>1, <2>2, GaveUpFields DEF BooksWhole
<1>27. CASE Retired
  <2>1. run' = GaveUp /\ run.at <= Len(Order)
    BY <1>27 DEF Retired, At
  <2>2. Unedited(Over(Only(Op, Unknown), run.out)) /\ Whole([o \in DOMAIN run.pre \ {Op} |-> run.pre[o]])
    BY WholeOver, WholeOnly, WholeWithout, NewContent DEF BooksWhole
  <2> QED
    BY <2>1, <2>2, GaveUpFields DEF BooksWhole
<1>28. CASE Retire
  BY <1>28, GotoFields, StageNames, SameWhole DEF Retire
<1>29. CASE RestoreRetired
  BY <1>29, GotoFields, StageNames, SameWhole DEF RestoreRetired
<1>30. CASE DiscardReplaced
  BY <1>30, GotoFields, StageNames, SameWhole DEF DiscardReplaced
<1>31. CASE Commit
  BY <1>31, GotoFields, StageNames, SameWhole DEF Commit
<1>32. CASE Restore
  BY <1>32, GotoFields, StageNames, SameWhole DEF Restore
<1>33. CASE UndoNext
  <2>1. run' = [run EXCEPT !.pending = Requested(NextToUndo)]
    BY <1>33 DEF UndoNext
  <2> QED
    BY <2>1, RequestedFields, SameWhole
<1>34. CASE Revert
  <2>1. run' = [run EXCEPT !.pending = Requested(NextToRestore)]
    BY <1>34 DEF Revert
  <2> QED
    BY <2>1, RequestedFields, SameWhole
<1>35. CASE Undid
  BY <1>35, UndidFields, SameWhole
<1>36. CASE Undone
  <2>1. CASE run' = IdleRun
    BY <2>1, IdleWhole
  <2>2. CASE run' # IdleRun
    BY <1>36, <2>2, UndoneFields DEF BooksWhole, DiskWhole
  <2> QED
    BY <2>1, <2>2
<1>37. CASE Preserve
  BY <1>37, TodoFields, StageNames, SameWhole DEF Preserve, TypeInv, IsRun
<1>38. CASE Reverted
  BY <1>38, TodoFields, StageNames, SameWhole DEF Reverted, TypeInv, IsRun
<1>39. CASE Raise
  BY <1>39, RaiseFields, SameWhole DEF RaiseRun
<1> QED
  BY <1>1, <1>2, <1>3, <1>4, <1>5, <1>6, <1>7, <1>8, <1>9, <1>10, <1>11, <1>12, <1>13, <1>14, <1>15, <1>16, <1>17, <1>18, <1>19, <1>20, <1>21, <1>22, <1>23, <1>24, <1>25, <1>26, <1>27, <1>28, <1>29, <1>30, <1>31, <1>32, <1>33, <1>34, <1>35, <1>36, <1>37, <1>38, <1>39 DEF Command

LEMMA DiskWholeStep == ASSUME BookInv, WholeInv, Begin \/ Command \/ Kill PROVE DiskWhole'
<1> USE DEF BookInv, WholeInv
<1>1. CASE Begin
  BY <1>1, DiskSameWhole DEF Begin
<1>2. CASE Restart
  BY <1>2, DiskSameWhole DEF Restart
<1>3. CASE Flushed
  BY <1>3, DiskSameWhole DEF Flushed
<1>4. CASE Enter
  BY <1>4, DiskSameWhole DEF Enter
<1>5. CASE SkipOperation
  BY <1>5, DiskSameWhole DEF SkipOperation
<1>6. CASE ChangeFile
  BY <1>6, DiskSameWhole DEF ChangeFile
<1>7. CASE SetAside
  BY <1>7, DiskSameWhole DEF SetAside
<1>8. CASE MoveIn
  BY <1>8, DiskSameWhole DEF MoveIn
<1>9. CASE ChangeHalf
  BY <1>9, DiskSameWhole DEF ChangeHalf
<1>10. CASE ChangeRest
  BY <1>10, DiskSameWhole DEF ChangeRest
<1>11. CASE FlushBeforeRetirement
  BY <1>11, DiskSameWhole DEF FlushBeforeRetirement
<1>12. CASE RetireChanged
  BY <1>12, DiskSameWhole DEF RetireChanged
<1>13. CASE RestoreRetired
  BY <1>13, DiskSameWhole DEF RestoreRetired
<1>14. CASE AllApplied
  BY <1>14, DiskSameWhole DEF AllApplied
<1>15. CASE DiscardReplaced
  BY <1>15, DiskSameWhole DEF DiscardReplaced
<1>16. CASE UndoNext
  BY <1>16, DiskSameWhole DEF UndoNext
<1>17. CASE Undid
  BY <1>17, DiskSameWhole DEF Undid
<1>18. CASE AllUndone
  BY <1>18, DiskSameWhole DEF AllUndone
<1>19. CASE Preserve
  BY <1>19, DiskSameWhole DEF Preserve
<1>20. CASE Revert
  BY <1>20, DiskSameWhole DEF Revert
<1>21. CASE AllRestored
  BY <1>21, DiskSameWhole DEF AllRestored
<1>22. CASE RecoveryFails
  BY <1>22, DiskSameWhole DEF RecoveryFails
<1>23. CASE UninstallFails
  BY <1>23, DiskSameWhole DEF UninstallFails
<1>24. CASE LastRestartFails
  BY <1>24, DiskSameWhole DEF LastRestartFails
<1>25. CASE UninstallFailed
  BY <1>25, DiskSameWhole DEF UninstallFailed
<1>26. CASE Kill
  BY <1>26, DiskSameWhole DEF Kill
<1>27. CASE Recovered
  BY <1>27, JournalSameWhole, NoJournalType, WholeNothing DEF Recovered
<1>28. CASE Retired
  BY <1>28, JournalSameWhole, NoJournalType, WholeNothing DEF Retired
<1>29. CASE ClearCommitted
  BY <1>29, JournalSameWhole, NoJournalType, WholeNothing DEF ClearCommitted
<1>30. CASE Undone
  BY <1>30, JournalSameWhole, NoJournalType, WholeNothing DEF Undone
<1>31. CASE Reverted
  BY <1>31, JournalSameWhole, NoJournalType, WholeNothing DEF Reverted
<1>32. CASE Capture
  BY <1>32, BooksWholeStep, CaptureFields, JournalSameWhole DEF Capture, Command, BooksWhole
<1>33. CASE Settle
  <2>1. Rockchip \in DOMAIN run.current => Whole(Only(Rockchip, run.current[Rockchip]))
    BY WholeOnly, Sets
  <2>2. Whole(journal'.pre)
    BY <1>33, <2>1, NoJournalType, WholeNothing DEF Settle, SettledJournal, Journal
  <2> QED
    BY <1>33, <2>2, JournalSameWhole DEF Settle
<1>34. CASE Retire
  <2>1. Whole(Only(Op, run.pre[Op]))
    BY <1>34, WholeOnly DEF Retire, BooksWhole, Whole
  <2> QED
    BY <1>34, <2>1, JournalSameWhole DEF Retire, Journal
<1>35. CASE Restore
  <2>1. Whole(Only(NextToRestore, ledger.pre[NextToRestore]))
    BY <1>35, NextToRestoreFacts, WholeOnly DEF Restore, DiskWhole, Whole
  <2> QED
    BY <1>35, <2>1, JournalSameWhole DEF Restore, Journal
<1>36. CASE Commit
  BY <1>36 DEF Commit, BooksWhole, DiskWhole
<1>37. CASE RemoveLedger
  BY <1>37, WholeNothing DEF RemoveLedger, NoLedger, DiskWhole
<1>38. CASE Raise
  <2>1. Whole(journal'.pre) /\ UNCHANGED ledger
    BY <1>38, RaiseFields DEF Raise, BooksWhole, DiskWhole
  <2> QED
    BY <2>1, JournalSameWhole
<1>39. CASE UndoFails
  <2>1. Whole(Over(run.current, ledger.pre))
    BY WholeOver DEF BooksWhole, DiskWhole
  <2> QED
    BY <1>39, <2>1 DEF UndoFails, BooksWhole, DiskWhole
<1> QED
  BY <1>1, <1>2, <1>3, <1>4, <1>5, <1>6, <1>7, <1>8, <1>9, <1>10, <1>11, <1>12, <1>13, <1>14, <1>15, <1>16, <1>17, <1>18, <1>19, <1>20, <1>21, <1>22, <1>23, <1>24, <1>25, <1>26, <1>27, <1>28, <1>29, <1>30, <1>31, <1>32, <1>33, <1>34, <1>35, <1>36, <1>37, <1>38, <1>39 DEF Command

LEMMA HostWholeStep == ASSUME BookInv, WholeInv, Begin \/ Command \/ Kill PROVE HostWhole'
<1> USE DEF BookInv, WholeInv
<1>1. CASE Begin
  BY <1>1, HostSameWhole DEF Begin
<1>2. CASE Recovered
  BY <1>2, HostSameWhole DEF Recovered
<1>3. CASE Restart
  BY <1>3, HostSameWhole DEF Restart
<1>4. CASE Flushed
  BY <1>4, HostSameWhole DEF Flushed
<1>5. CASE Enter
  BY <1>5, HostSameWhole DEF Enter
<1>6. CASE SkipOperation
  BY <1>6, HostSameWhole DEF SkipOperation
<1>7. CASE Settle
  BY <1>7, HostSameWhole DEF Settle
<1>8. CASE FlushBeforeRetirement
  BY <1>8, HostSameWhole DEF FlushBeforeRetirement
<1>9. CASE RetireChanged
  BY <1>9, HostSameWhole DEF RetireChanged
<1>10. CASE Retire
  BY <1>10, HostSameWhole DEF Retire
<1>11. CASE Retired
  BY <1>11, HostSameWhole DEF Retired
<1>12. CASE AllApplied
  BY <1>12, HostSameWhole DEF AllApplied
<1>13. CASE Commit
  BY <1>13, HostSameWhole DEF Commit
<1>14. CASE ClearCommitted
  BY <1>14, HostSameWhole DEF ClearCommitted
<1>15. CASE Undid
  BY <1>15, HostSameWhole DEF Undid
<1>16. CASE AllUndone
  BY <1>16, HostSameWhole DEF AllUndone
<1>17. CASE Undone
  BY <1>17, HostSameWhole DEF Undone
<1>18. CASE Preserve
  BY <1>18, HostSameWhole DEF Preserve
<1>19. CASE Restore
  BY <1>19, HostSameWhole DEF Restore
<1>20. CASE Reverted
  BY <1>20, HostSameWhole DEF Reverted
<1>21. CASE AllRestored
  BY <1>21, HostSameWhole DEF AllRestored
<1>22. CASE RemoveLedger
  BY <1>22, HostSameWhole DEF RemoveLedger
<1>23. CASE Raise
  BY <1>23, HostSameWhole DEF Raise
<1>24. CASE UndoFails
  BY <1>24, HostSameWhole DEF UndoFails
<1>25. CASE RecoveryFails
  BY <1>25, HostSameWhole DEF RecoveryFails
<1>26. CASE UninstallFails
  BY <1>26, HostSameWhole DEF UninstallFails
<1>27. CASE LastRestartFails
  BY <1>27, HostSameWhole DEF LastRestartFails
<1>28. CASE UninstallFailed
  BY <1>28, HostSameWhole DEF UninstallFailed
<1>29. CASE Kill
  BY <1>29, HostSameWhole DEF Kill
<1>30. CASE Capture
  BY <1>30, ContentFacts DEF Capture, HostWhole, TypeInv
<1>31. CASE DiscardReplaced
  BY <1>31, ContentFacts DEF DiscardReplaced, HostWhole
<1>32. CASE ChangeFile
  BY <1>32, OpMember, DesiredMember, ContentFacts, Sets DEF ChangeFile, Changed, At, HostWhole, TypeInv
<1>33. CASE MoveIn
  BY <1>33, OpMember, DesiredMember, ContentFacts, Sets DEF MoveIn, Changed, At, HostWhole, TypeInv
<1>34. CASE ChangeRest
  BY <1>34, OpMember, DesiredMember, ContentFacts, Sets DEF ChangeRest, Changed, At, HostWhole, TypeInv
<1>35. CASE SetAside
  BY <1>35, OpMember, ContentFacts, Sets DEF SetAside, At, HostWhole, TypeInv
<1>36. CASE ChangeHalf
  BY <1>36, OpMember, ContentFacts, Sets DEF ChangeHalf, At, HostWhole, TypeInv
<1>37. CASE RestoreRetired
  <2>1. Op \in Guarded \cup Packaged => run.pre[Op] # Half
    BY <1>37 DEF RestoreRetired, At, PositionInv, Retiring, BooksWhole, Whole
  <2> QED
    BY <1>37, <2>1, OpMember, ContentFacts, Sets DEF RestoreRetired, At, HostWhole, TypeInv
<1>38. CASE UndoNext
  <2>1. NextToUndo \in Ops /\ Preimages[NextToUndo] \in Content /\ RestoreStep(NextToUndo, Preimages[NextToUndo])
    BY <1>38, NextToUndoFacts DEF UndoNext, Undoing
  <2>2. NextToUndo \in Guarded \cup Packaged => Preimages[NextToUndo] # Half
    BY <1>38, NextToUndoFacts DEF UndoNext, Undoing, BooksWhole, DiskWhole, Whole
  <2> QED
    BY <2>1, <2>2, RestoreStepTypes, ContentFacts, Sets DEF HostWhole
<1>39. CASE Revert
  <2>1. NextToRestore \in Ops /\ ledger.pre[NextToRestore] \in Content /\ RestoreStep(NextToRestore, ledger.pre[NextToRestore])
    BY <1>39, NextToRestoreFacts DEF Revert, ControlInv
  <2>2. NextToRestore \in Guarded \cup Packaged => ledger.pre[NextToRestore] # Half
    BY <1>39, NextToRestoreFacts DEF Revert, ControlInv, BooksWhole, DiskWhole, Whole
  <2> QED
    BY <2>1, <2>2, RestoreStepTypes, ContentFacts, Sets DEF HostWhole
<1> QED
  BY <1>1, <1>2, <1>3, <1>4, <1>5, <1>6, <1>7, <1>8, <1>9, <1>10, <1>11, <1>12, <1>13, <1>14, <1>15, <1>16, <1>17, <1>18, <1>19, <1>20, <1>21, <1>22, <1>23, <1>24, <1>25, <1>26, <1>27, <1>28, <1>29, <1>30, <1>31, <1>32, <1>33, <1>34, <1>35, <1>36, <1>37, <1>38, <1>39 DEF Command


LEMMA WholeStep == ASSUME BookInv, WholeInv, [Next]_vars PROVE WholeInv'
<1>1. CASE Begin \/ Command \/ Kill
  BY <1>1, BooksWholeStep, DiskWholeStep, HostWholeStep DEF WholeInv
<1>2. CASE \E o \in Ops : Edit(o)
  <2>1. PICK o \in Ops : Edit(o)
    BY <1>2
  <2>2. UNCHANGED <<run, ledger, journal, aside>> /\ host' = [host EXCEPT ![o] = Edited]
    BY <2>1 DEF Edit
  <2>3. HostWhole'
    BY <2>2, ContentFacts, Sets DEF WholeInv, HostWhole, BookInv, TypeInv
  <2> QED
    BY <2>2, <2>3, SameWhole, DiskSameWhole DEF WholeInv, SameBooks
<1>3. CASE UNCHANGED vars
  BY <1>3, SameWhole, DiskSameWhole, HostSameWhole DEF WholeInv, SameBooks, vars
<1> QED
  BY <1>1, <1>2, <1>3 DEF Next

-----------------------------------------------------------------------------
(* What a user wrote while no command ran.                                  *)

Theirs == hist.idle \cap (Guarded \cup Packaged)

IdleInv ==
    \A o \in Theirs :
        /\ host[o] = Edited
        /\ o \notin DOMAIN run.current
        /\ Retiring => o # Op
        /\ run.stage = "revert" => o # NextToRestore

LEMMA IdleFrame ==
    ASSUME IdleInv, UNCHANGED host, hist'.idle = hist.idle,
           run'.current = run.current \/ run'.current = Nothing,
           ~Retiring', run'.stage # "revert"
    PROVE  IdleInv'
  BY NothingFacts DEF IdleInv, Theirs

LEMMA IdleKept ==
    ASSUME IdleInv, hist'.idle = hist.idle, run'.current = run.current, run'.at = run.at,
           Retiring' => Retiring, run'.stage = "revert" => run.stage = "revert" /\ run'.todo = run.todo,
           \A o \in Theirs : host'[o] = Edited
    PROVE  IdleInv'
  BY EarlierSame DEF IdleInv, Theirs, NextToRestore

LEMMA HostElsewhere ==
    ASSUME TypeInv, IdleInv, NEW o, NEW c, host' = [host EXCEPT ![o] = c], host[o] # Edited \/ o \notin Theirs
    PROVE  \A x \in Theirs : host'[x] = Edited
  BY Sets DEF TypeInv, IdleInv, Theirs

LEMMA IdleStep == ASSUME BookInv, WholeInv, IdleInv, Begin \/ Command \/ Kill PROVE IdleInv'
<1> USE DEF BookInv
<1>h. hist'.idle = hist.idle
  BY HistoryStep DEF HistoryGrows
<1>1. CASE ClearCommitted
  <2>1. UNCHANGED host
    BY <1>1 DEF ClearCommitted
  <2>2. /\ run'.current = run.current \/ run'.current = Nothing
        /\ ~Retiring' /\ run'.stage # "revert"
    BY <1>1, IdleFields DEF ClearCommitted, Finish, Retiring
  <2> QED
    BY <1>h, <2>1, <2>2, IdleFrame
<1>2. CASE RemoveLedger
  <2>1. UNCHANGED host
    BY <1>2 DEF RemoveLedger
  <2>2. /\ run'.current = run.current \/ run'.current = Nothing
        /\ ~Retiring' /\ run'.stage # "revert"
    BY <1>2, IdleFields DEF RemoveLedger, Finish, Retiring
  <2> QED
    BY <1>h, <2>1, <2>2, IdleFrame
<1>3. CASE UndoFails
  <2>1. UNCHANGED host
    BY <1>3 DEF UndoFails
  <2>2. /\ run'.current = run.current \/ run'.current = Nothing
        /\ ~Retiring' /\ run'.stage # "revert"
    BY <1>3, IdleFields DEF UndoFails, Finish, Retiring
  <2> QED
    BY <1>h, <2>1, <2>2, IdleFrame
<1>4. CASE RecoveryFails
  <2>1. UNCHANGED host
    BY <1>4 DEF RecoveryFails
  <2>2. /\ run'.current = run.current \/ run'.current = Nothing
        /\ ~Retiring' /\ run'.stage # "revert"
    BY <1>4, IdleFields DEF RecoveryFails, Finish, Retiring
  <2> QED
    BY <1>h, <2>1, <2>2, IdleFrame
<1>5. CASE LastRestartFails
  <2>1. UNCHANGED host
    BY <1>5 DEF LastRestartFails
  <2>2. /\ run'.current = run.current \/ run'.current = Nothing
        /\ ~Retiring' /\ run'.stage # "revert"
    BY <1>5, IdleFields DEF LastRestartFails, Finish, Retiring
  <2> QED
    BY <1>h, <2>1, <2>2, IdleFrame
<1>6. CASE UninstallFailed
  <2>1. UNCHANGED host
    BY <1>6 DEF UninstallFailed
  <2>2. /\ run'.current = run.current \/ run'.current = Nothing
        /\ ~Retiring' /\ run'.stage # "revert"
    BY <1>6, IdleFields DEF UninstallFailed, Finish, Retiring
  <2> QED
    BY <1>h, <2>1, <2>2, IdleFrame
<1>7. CASE Kill
  <2>1. UNCHANGED host
    BY <1>7 DEF Kill
  <2>2. /\ run'.current = run.current \/ run'.current = Nothing
        /\ ~Retiring' /\ run'.stage # "revert"
    BY <1>7, IdleFields DEF Kill, Finish, Retiring
  <2> QED
    BY <1>h, <2>1, <2>2, IdleFrame
<1>8. CASE Begin
  <2>1. UNCHANGED host
    BY <1>8 DEF Begin
  <2>2. /\ run'.current = run.current \/ run'.current = Nothing
        /\ ~Retiring' /\ run'.stage # "revert"
    BY <1>8, BeginFields DEF Retiring
  <2> QED
    BY <1>h, <2>1, <2>2, IdleFrame
<1>9. CASE Recovered
  <2>1. UNCHANGED host
    BY <1>9 DEF Recovered
  <2>2. /\ run'.current = run.current \/ run'.current = Nothing
        /\ ~Retiring' /\ run'.stage # "revert"
    BY <1>9, FlushFields DEF Recovered, Targets, Retiring, SameBooks
  <2> QED
    BY <1>h, <2>1, <2>2, IdleFrame
<1>10. CASE FlushBeforeRetirement
  <2>1. UNCHANGED host
    BY <1>10 DEF FlushBeforeRetirement
  <2>2. /\ run'.current = run.current \/ run'.current = Nothing
        /\ ~Retiring' /\ run'.stage # "revert"
    BY <1>10, FlushFields DEF FlushBeforeRetirement, Targets, Retiring, SameBooks
  <2> QED
    BY <1>h, <2>1, <2>2, IdleFrame
<1>11. CASE AllApplied
  <2>1. UNCHANGED host
    BY <1>11 DEF AllApplied
  <2>2. /\ run'.current = run.current \/ run'.current = Nothing
        /\ ~Retiring' /\ run'.stage # "revert"
    BY <1>11, FlushFields DEF AllApplied, Targets, Retiring, SameBooks
  <2> QED
    BY <1>h, <2>1, <2>2, IdleFrame
<1>12. CASE AllUndone
  <2>1. UNCHANGED host
    BY <1>12 DEF AllUndone
  <2>2. /\ run'.current = run.current \/ run'.current = Nothing
        /\ ~Retiring' /\ run'.stage # "revert"
    BY <1>12, FlushFields DEF AllUndone, Targets, Retiring, SameBooks
  <2> QED
    BY <1>h, <2>1, <2>2, IdleFrame
<1>13. CASE AllRestored
  <2>1. UNCHANGED host
    BY <1>13 DEF AllRestored
  <2>2. /\ run'.current = run.current \/ run'.current = Nothing
        /\ ~Retiring' /\ run'.stage # "revert"
    BY <1>13, FlushFields DEF AllRestored, Targets, Retiring, SameBooks
  <2> QED
    BY <1>h, <2>1, <2>2, IdleFrame
<1>14. CASE UninstallFails
  <2>1. UNCHANGED host
    BY <1>14 DEF UninstallFails
  <2>2. /\ run'.current = run.current \/ run'.current = Nothing
        /\ ~Retiring' /\ run'.stage # "revert"
    BY <1>14, FlushFields DEF UninstallFails, Targets, Retiring, SameBooks
  <2> QED
    BY <1>h, <2>1, <2>2, IdleFrame
<1>15. CASE Restart
  <2>1. UNCHANGED host
    BY <1>15 DEF Restart
  <2>2. /\ run'.current = run.current \/ run'.current = Nothing
        /\ ~Retiring' /\ run'.stage # "revert"
    BY <1>15, RestartFields DEF Retiring, SameBooks
  <2> QED
    BY <1>h, <2>1, <2>2, IdleFrame
<1>16. CASE Flushed
  <2>1. UNCHANGED host
    BY <1>16 DEF Flushed
  <2>2. /\ run'.current = run.current \/ run'.current = Nothing
        /\ ~Retiring' /\ run'.stage # "revert"
    BY <1>16, GotoFields, StageNames DEF Flushed, TypeInv, IsRun, Targets, Retiring, SameBooks
  <2> QED
    BY <1>h, <2>1, <2>2, IdleFrame
<1>17. CASE Enter
  <2>1. UNCHANGED host
    BY <1>17 DEF Enter
  <2>2. /\ run'.current = run.current \/ run'.current = Nothing
        /\ ~Retiring' /\ run'.stage # "revert"
    BY <1>17, EnterFields, IdleFields DEF EnterInstall, EnterUninstall, SameBooks, Retiring
  <2> QED
    BY <1>h, <2>1, <2>2, IdleFrame
<1>18. CASE SkipOperation
  <2>1. UNCHANGED host
    BY <1>18 DEF SkipOperation
  <2>2. /\ run'.current = run.current \/ run'.current = Nothing
        /\ ~Retiring' /\ run'.stage # "revert"
    BY <1>18, SkipOperationFields DEF Retiring
  <2> QED
    BY <1>h, <2>1, <2>2, IdleFrame
<1>19. CASE Settle
  <2>1. InHand /\ UNCHANGED host
    BY <1>19 DEF Settle, At, PositionInv, Changing, InHand
  <2>2. run'.current = run.current /\ ~Retiring' /\ run'.stage # "revert"
    BY <1>19, <2>1, SettleFields DEF Retiring
  <2> QED
    BY <1>h, <2>1, <2>2, IdleFrame
<1>20. CASE RetireChanged
  <2>1. UNCHANGED host
    BY <1>20 DEF RetireChanged
  <2>2. /\ run'.current = run.current \/ run'.current = Nothing
        /\ ~Retiring' /\ run'.stage # "revert"
    BY <1>20, GaveUpFields DEF RetireChanged, At, Retiring
  <2> QED
    BY <1>h, <2>1, <2>2, IdleFrame
<1>21. CASE Retired
  <2>1. UNCHANGED host
    BY <1>21 DEF Retired
  <2>2. /\ run'.current = run.current \/ run'.current = Nothing
        /\ ~Retiring' /\ run'.stage # "revert"
    BY <1>21, GaveUpFields DEF Retired, At, Retiring
  <2> QED
    BY <1>h, <2>1, <2>2, IdleFrame
<1>22. CASE DiscardReplaced
  <2>1. UNCHANGED host
    BY <1>22 DEF DiscardReplaced
  <2>2. /\ run'.current = run.current \/ run'.current = Nothing
        /\ ~Retiring' /\ run'.stage # "revert"
    BY <1>22, GotoFields, StageNames DEF DiscardReplaced, Retiring, SameBooks
  <2> QED
    BY <1>h, <2>1, <2>2, IdleFrame
<1>23. CASE Commit
  <2>1. UNCHANGED host
    BY <1>23 DEF Commit
  <2>2. /\ run'.current = run.current \/ run'.current = Nothing
        /\ ~Retiring' /\ run'.stage # "revert"
    BY <1>23, GotoFields, StageNames DEF Commit, Retiring, SameBooks
  <2> QED
    BY <1>h, <2>1, <2>2, IdleFrame
<1>24. CASE Undid
  <2>1. UNCHANGED host
    BY <1>24 DEF Undid
  <2>2. /\ run'.current = run.current \/ run'.current = Nothing
        /\ ~Retiring' /\ run'.stage # "revert"
    BY <1>24, UndidFields DEF Undid, Undoing, Retiring, SameBooks
  <2> QED
    BY <1>h, <2>1, <2>2, IdleFrame
<1>25. CASE Undone
  <2>1. UNCHANGED host
    BY <1>25 DEF Undone
  <2>2. /\ run'.current = run.current \/ run'.current = Nothing
        /\ ~Retiring' /\ run'.stage # "revert"
    BY <1>25, UndoneFields, IdleFields DEF Retiring
  <2> QED
    BY <1>h, <2>1, <2>2, IdleFrame
<1>26. CASE Preserve
  <2>1. UNCHANGED host
    BY <1>26 DEF Preserve
  <2>2. /\ run'.current = run.current \/ run'.current = Nothing
        /\ ~Retiring' /\ run'.stage # "revert"
    BY <1>26, TodoFields, StageNames DEF Preserve, Retiring, SameBooks, TypeInv, IsRun
  <2> QED
    BY <1>h, <2>1, <2>2, IdleFrame
<1>27. CASE Reverted
  <2>1. UNCHANGED host
    BY <1>27 DEF Reverted
  <2>2. /\ run'.current = run.current \/ run'.current = Nothing
        /\ ~Retiring' /\ run'.stage # "revert"
    BY <1>27, TodoFields, StageNames DEF Reverted, Retiring, SameBooks, TypeInv, IsRun
  <2> QED
    BY <1>h, <2>1, <2>2, IdleFrame
<1>28. CASE Raise
  <2>1. UNCHANGED host
    BY <1>28 DEF Raise
  <2>2. /\ run'.current = run.current \/ run'.current = Nothing
        /\ ~Retiring' /\ run'.stage # "revert"
    BY <1>28, RaiseFields DEF RaiseRun, Retiring, SameBooks
  <2> QED
    BY <1>h, <2>1, <2>2, IdleFrame
<1>29. CASE Capture
  <2>1. UNCHANGED host /\ (Op \in Guarded \cup Packaged => host[Op] # Edited)
    BY <1>29 DEF Capture, NeedsApply
  <2>2. Op \notin Theirs
    BY <2>1 DEF IdleInv, Theirs
  <2>3. DOMAIN run'.current = DOMAIN run.current \cup {Op} /\ ~Retiring' /\ run'.stage # "revert"
    <3>1. run'.current = Over(Only(Op, host[Op]), run.current) /\ run'.stage = "change"
      BY <1>29, CaptureFields
    <3> QED
      BY <3>1 DEF Over, Only, Retiring
  <2> QED
    BY <1>h, <2>1, <2>2, <2>3 DEF IdleInv, Theirs
<1>30. CASE ChangeFile
  <2>1. Op \in Ops /\ Changed(Op)
    BY <1>30, OpMember DEF ChangeFile, At
  <2>a. host[Op] # Edited
    BY <1>30 DEF ChangeFile, At, PositionInv, Changing, WholeInv, BooksWhole, Whole
  <2>2. \A x \in Theirs : host'[x] = Edited
    BY <2>1, <2>a, HostElsewhere DEF Changed
  <2>k. /\ run'.current = run.current /\ run'.at = run.at
        /\ Retiring' => Retiring
        /\ run'.stage = "revert" => run.stage = "revert" /\ run'.todo = run.todo
    BY <1>30, <2>1, ChangedFields DEF SameWork, SameBooks, Retiring
  <2> QED
    BY <1>h, <2>2, <2>k, IdleKept
<1>31. CASE MoveIn
  <2>1. Op \in Ops /\ Changed(Op)
    BY <1>31, OpMember DEF MoveIn, At
  <2>a. host[Op] # Edited
    BY <1>31, ContentFacts DEF MoveIn
  <2>2. \A x \in Theirs : host'[x] = Edited
    BY <2>1, <2>a, HostElsewhere DEF Changed
  <2>k. /\ run'.current = run.current /\ run'.at = run.at
        /\ Retiring' => Retiring
        /\ run'.stage = "revert" => run.stage = "revert" /\ run'.todo = run.todo
    BY <1>31, <2>1, ChangedFields DEF SameWork, SameBooks, Retiring
  <2> QED
    BY <1>h, <2>2, <2>k, IdleKept
<1>32. CASE ChangeRest
  <2>1. Op \in Ops /\ Changed(Op)
    BY <1>32, OpMember DEF ChangeRest, At
  <2>a. Op \notin Theirs
    BY <1>32, Sets DEF ChangeRest, Theirs
  <2>2. \A x \in Theirs : host'[x] = Edited
    BY <2>1, <2>a, HostElsewhere DEF Changed
  <2>k. /\ run'.current = run.current /\ run'.at = run.at
        /\ Retiring' => Retiring
        /\ run'.stage = "revert" => run.stage = "revert" /\ run'.todo = run.todo
    BY <1>32, <2>1, ChangedFields DEF SameWork, SameBooks, Retiring
  <2> QED
    BY <1>h, <2>2, <2>k, IdleKept
<1>33. CASE SetAside
  <2>1. UNCHANGED run /\ host' = [host EXCEPT ![Op] = Stock]
    BY <1>33 DEF SetAside
  <2>a. Op \notin Theirs
    BY <1>33 DEF SetAside, At, PositionInv, Changing, IdleInv
  <2>2. \A x \in Theirs : host'[x] = Edited
    BY <2>1, <2>a, HostElsewhere
  <2>k. /\ run'.current = run.current /\ run'.at = run.at
        /\ Retiring' => Retiring
        /\ run'.stage = "revert" => run.stage = "revert" /\ run'.todo = run.todo
    BY <1>33, <2>1, ContentFacts DEF Retiring
  <2> QED
    BY <1>h, <2>2, <2>k, IdleKept
<1>34. CASE ChangeHalf
  <2>1. UNCHANGED run /\ host' = [host EXCEPT ![Op] = Half]
    BY <1>34 DEF ChangeHalf
  <2>a. Op \notin Theirs
    BY <1>34, Sets DEF ChangeHalf, Theirs
  <2>2. \A x \in Theirs : host'[x] = Edited
    BY <2>1, <2>a, HostElsewhere
  <2>k. /\ run'.current = run.current /\ run'.at = run.at
        /\ Retiring' => Retiring
        /\ run'.stage = "revert" => run.stage = "revert" /\ run'.todo = run.todo
    BY <1>34, <2>1, ContentFacts DEF Retiring
  <2> QED
    BY <1>h, <2>2, <2>k, IdleKept
<1>35. CASE Retire
  <2>1. UNCHANGED host /\ Goto("retire") /\ Op \in Guarded
    BY <1>35, Sets DEF Retire, Superseded
  <2>2. host[Op] # Edited
    BY <1>35, <2>1 DEF Retire, Drifted, WholeInv, BooksWhole, Unedited
  <2>3. Op \notin Theirs /\ Op' = Op
    BY <2>1, <2>2, GotoFields, StageNames, EarlierSame DEF IdleInv, SameWork
  <2> QED
    BY <1>h, <2>1, <2>3, GotoFields, StageNames DEF IdleInv, Theirs, SameBooks
<1>36. CASE RestoreRetired
  <2>1. Goto("retired") /\ host' = [host EXCEPT ![Op] = run.pre[Op]] /\ Retiring
    BY <1>36 DEF RestoreRetired, At, Retiring
  <2>a. Op \notin Theirs
    BY <2>1 DEF IdleInv
  <2>2. \A x \in Theirs : host'[x] = Edited
    BY <2>1, <2>a, HostElsewhere
  <2>k. /\ run'.current = run.current /\ run'.at = run.at
        /\ Retiring' => Retiring
        /\ run'.stage = "revert" => run.stage = "revert" /\ run'.todo = run.todo
    BY <1>36, <2>1, GotoFields, StageNames DEF SameWork, SameBooks
  <2> QED
    BY <1>h, <2>2, <2>k, IdleKept
<1>37. CASE UndoNext
  <2>1. /\ run' = [run EXCEPT !.pending = Requested(NextToUndo)]
        /\ RestoreStep(NextToUndo, Preimages[NextToUndo])
    BY <1>37 DEF UndoNext
  <2>a. /\ NextToUndo \in Ops /\ NextToUndo \in DOMAIN Preimages
        /\ run.stage = "undo" => Preimages = run.current
        /\ run.stage = "recover" => Preimages = journal.pre
    BY <1>37, NextToUndoFacts DEF UndoNext
  <2>b. NextToUndo \in Guarded => host[NextToUndo] # Edited
    BY <1>37, <2>a, DesiredMember, ContentFacts
       DEF UndoNext, Undoing, Refused, WholeInv, BooksWhole, DiskWhole, Whole, IsRun, TypeInv
  <2>c. NextToUndo \in Packaged => host[NextToUndo] # Edited
    BY <1>37, ContentFacts DEF UndoNext, Refused, Missing
  <2>2. \A x \in Theirs : host'[x] = Edited
    BY <2>1, <2>b, <2>c, HostElsewhere DEF RestoreStep, Theirs
  <2>k. /\ run'.current = run.current /\ run'.at = run.at
        /\ Retiring' => Retiring
        /\ run'.stage = "revert" => run.stage = "revert" /\ run'.todo = run.todo
    BY <1>37, <2>1, RequestedFields DEF SameWork, SameBooks, Retiring
  <2> QED
    BY <1>h, <2>2, <2>k, IdleKept
<1>38. CASE Restore
  <2>1. UNCHANGED host /\ Goto("revert") /\ Restorable(NextToRestore) /\ NextToRestore \in Ops
    BY <1>38, NextToRestoreFacts DEF Restore
  <2>2. NextToRestore \in Guarded => host[NextToRestore] # Edited
    BY <2>1 DEF Restorable, WholeInv, DiskWhole, Unedited
  <2>3. NextToRestore \in Packaged => host[NextToRestore] # Edited
    BY <2>1, ContentFacts DEF Restorable
  <2>4. NextToRestore \notin Theirs /\ NextToRestore' = NextToRestore /\ ~Retiring' /\ run'.current = run.current
    BY <2>1, <2>2, <2>3, GotoFields, StageNames DEF IdleInv, Theirs, NextToRestore, Retiring, SameBooks
  <2> QED
    BY <1>h, <2>1, <2>4 DEF IdleInv, Theirs
<1>39. CASE Revert
  <2>1. /\ run' = [run EXCEPT !.pending = Requested(NextToRestore)] /\ run.stage = "revert"
        /\ RestoreStep(NextToRestore, ledger.pre[NextToRestore])
    BY <1>39 DEF Revert
  <2>a. NextToRestore \notin Theirs
    BY <2>1 DEF IdleInv
  <2>2. \A x \in Theirs : host'[x] = Edited
    BY <2>1, <2>a, HostElsewhere DEF RestoreStep
  <2>k. /\ run'.current = run.current /\ run'.at = run.at
        /\ Retiring' => Retiring
        /\ run'.stage = "revert" => run.stage = "revert" /\ run'.todo = run.todo
    BY <1>39, <2>1, RequestedFields DEF SameWork, SameBooks, Retiring
  <2> QED
    BY <1>h, <2>2, <2>k, IdleKept
<1> QED
  BY <1>1, <1>2, <1>3, <1>4, <1>5, <1>6, <1>7, <1>8, <1>9, <1>10, <1>11, <1>12, <1>13, <1>14, <1>15, <1>16, <1>17, <1>18, <1>19, <1>20, <1>21, <1>22, <1>23, <1>24, <1>25, <1>26, <1>27, <1>28, <1>29, <1>30, <1>31, <1>32, <1>33, <1>34, <1>35, <1>36, <1>37, <1>38, <1>39 DEF Command

LEMMA IdleEdit == ASSUME BookInv, IdleInv, NEW o \in Ops, Edit(o) PROVE IdleInv'
<1>1. UNCHANGED run /\ host' = [host EXCEPT ![o] = Edited]
  BY DEF Edit
<1>2. \A x \in Ops : host'[x] = IF x = o THEN Edited ELSE host[x]
  BY <1>1 DEF BookInv, TypeInv
<1>3. CASE run.kind = "none"
  <2>1. hist'.idle = hist.idle \cup {o} /\ run = IdleRun
    BY <1>3, EditFields DEF BookInv, ControlInv
  <2>2. DOMAIN run'.current = {} /\ run'.stage = "idle"
    BY <1>1, <2>1, NothingFacts DEF IdleRun
  <2> QED
    BY <1>2, <2>1, <2>2, Sets DEF IdleInv, Theirs, Retiring
<1>4. CASE run.kind # "none"
  <2>1. hist'.idle = hist.idle
    BY <1>4, EditFields DEF BookInv
  <2>2. \A x \in Theirs : host'[x] = Edited
    BY <1>2, Sets DEF IdleInv, Theirs
  <2> QED
    BY <1>1, <2>1, <2>2, IdleKept DEF Retiring
<1> QED
  BY <1>3, <1>4

\* A file or directory of a user, written while no command ran, survives every command.
THEOREM EditsAreKept == Spec => []EditsSurvive
<1>1. Init => WholeInv /\ IdleInv
  <2> SUFFICES ASSUME Init PROVE WholeInv /\ IdleInv
    OBVIOUS
  <2>1. BooksWhole /\ DiskWhole
    BY WholeNothing DEF Init, IdleRun, NoLedger, NoJournal, BooksWhole, DiskWhole
  <2>2. HostWhole
    BY ContentFacts, Sets DEF Init, HostWhole
  <2>3. IdleInv
    BY DEF Init, IdleInv, Theirs
  <2> QED
    BY <2>1, <2>2, <2>3 DEF WholeInv
<1>2. BookInv /\ WholeInv /\ IdleInv /\ [Next]_vars => WholeInv' /\ IdleInv'
  <2> SUFFICES ASSUME BookInv, WholeInv, IdleInv, [Next]_vars PROVE IdleInv'
    BY WholeStep
  <2>1. CASE UNCHANGED vars
    BY <2>1 DEF vars, IdleInv, Theirs, Retiring, Op, NextToRestore
  <2> QED
    BY <2>1, IdleStep, IdleEdit DEF Next
<1>3. IdleInv => EditsSurvive
  BY DEF IdleInv, Theirs, EditsSurvive
<1> QED
  BY <1>1, <1>2, <1>3, HostTypes, PTL DEF Spec

-----------------------------------------------------------------------------
(* What the journal holds in each stage.                                    *)

Tries == Phase \in {"apply", "finish"}

JournalInv ==
    /\ Phase \in {"enter", "restore", "remove"} => journal.pre = Nothing
    /\ Changing => journal.pre = run.current
    /\ Phase \in {"apply", "finish", "commit", "clear"} => DOMAIN journal.pre \subseteq {Rockchip}
    /\ Tries =>
        /\ DOMAIN journal.pre \subseteq DOMAIN run.current
        /\ Rockchip \in DOMAIN run.current /\ ~hist.retired => Rockchip \in DOMAIN journal.pre
    /\ Retiring => DOMAIN journal.pre = {Op} /\ hist.retired
    /\ Phase \in {"undo", "undone"} =>
        IF run.current = Nothing THEN DOMAIN journal.pre \subseteq DOMAIN ledger.pre
                                 ELSE journal.pre = run.current
    /\ Uninstalling => DOMAIN journal.pre \subseteq DOMAIN ledger.pre

LEMMA IdleJournal == ASSUME run' = IdleRun PROVE JournalInv'
  BY IdleFields DEF JournalInv, Phase, Changing, Tries, Retiring, Uninstalling, UninstallPhases

LEMMA JournalFrame ==
    ASSUME JournalInv, UNCHANGED <<ledger, journal>>, run'.current = run.current, run'.at = run.at,
           hist.retired => hist'.retired, Changing' => Changing, Retiring' => Retiring,
           \/ Phase' = Phase
           \/ Phase = "undo" /\ Phase' = "undone"
           \/ Phase = "apply" /\ Phase' = "finish"
           \/ Phase = "finish" /\ Phase' = "commit"
           \/ Phase = "restore" /\ Phase' = "remove"
           \/ Phase \in {"restore", "revert"} /\ Phase' = "failed"
           \/ Phase = "enter" /\ Phase' = "restore"
           \/ Phase = "retire" /\ Phase' = "retired"
    PROVE  JournalInv'
<1>1. Op' = Op
  BY EarlierSame
<1> QED
  BY <1>1, NothingFacts DEF JournalInv, Tries, Uninstalling, UninstallPhases

LEMMA JournalStep == ASSUME BookInv, JournalInv, Begin \/ Command \/ Kill PROVE JournalInv'
<1> USE DEF BookInv
<1>h. hist.retired => hist'.retired
  BY HistoryStep DEF HistoryGrows
<1>1. CASE ClearCommitted
  BY <1>1, IdleJournal DEF ClearCommitted, Finish
<1>2. CASE RemoveLedger
  BY <1>2, IdleJournal DEF RemoveLedger, Finish
<1>3. CASE UndoFails
  BY <1>3, IdleJournal DEF UndoFails, Finish
<1>4. CASE RecoveryFails
  BY <1>4, IdleJournal DEF RecoveryFails, Finish
<1>5. CASE LastRestartFails
  BY <1>5, IdleJournal DEF LastRestartFails, Finish
<1>6. CASE UninstallFailed
  BY <1>6, IdleJournal DEF UninstallFailed, Finish
<1>7. CASE Kill
  BY <1>7, IdleJournal DEF Kill, Finish
<1>8. CASE Begin
  BY <1>8, BeginFields DEF JournalInv, Phase, Changing, Tries, Retiring, Uninstalling, UninstallPhases
<1>9. CASE Recovered
  BY <1>9, FlushFields, NoJournalType DEF Recovered, JournalInv, Phase, Changing, Tries, Retiring, Uninstalling, UninstallPhases, Targets
<1>10. CASE FlushBeforeRetirement
  <2>1. UNCHANGED <<ledger, journal>>
    BY <1>10 DEF FlushBeforeRetirement
  <2>2. run'.current = run.current /\ run'.at = run.at
    BY <1>10, FlushFields DEF SameWork, SameBooks, FlushBeforeRetirement, At, Targets
  <2>3. /\ Changing' => Changing
        /\ Retiring' => Retiring
        /\ \/ Phase' = Phase
           \/ Phase = "undo" /\ Phase' = "undone"
           \/ Phase = "apply" /\ Phase' = "finish"
           \/ Phase = "finish" /\ Phase' = "commit"
           \/ Phase = "restore" /\ Phase' = "remove"
           \/ Phase \in {"restore", "revert"} /\ Phase' = "failed"
           \/ Phase = "enter" /\ Phase' = "restore"
           \/ Phase = "retire" /\ Phase' = "retired"
    BY <1>10, FlushFields DEF Phase, Changing, Retiring, FlushBeforeRetirement, At, Targets
  <2> QED
    BY <1>h, <2>1, <2>2, <2>3, JournalFrame
<1>11. CASE AllApplied
  <2>1. UNCHANGED <<ledger, journal>>
    BY <1>11 DEF AllApplied
  <2>2. run'.current = run.current /\ run'.at = run.at
    BY <1>11, FlushFields DEF SameWork, SameBooks, AllApplied, At, Targets
  <2>3. /\ Changing' => Changing
        /\ Retiring' => Retiring
        /\ \/ Phase' = Phase
           \/ Phase = "undo" /\ Phase' = "undone"
           \/ Phase = "apply" /\ Phase' = "finish"
           \/ Phase = "finish" /\ Phase' = "commit"
           \/ Phase = "restore" /\ Phase' = "remove"
           \/ Phase \in {"restore", "revert"} /\ Phase' = "failed"
           \/ Phase = "enter" /\ Phase' = "restore"
           \/ Phase = "retire" /\ Phase' = "retired"
    BY <1>11, FlushFields DEF Phase, Changing, Retiring, AllApplied, At, Targets
  <2> QED
    BY <1>h, <2>1, <2>2, <2>3, JournalFrame
<1>12. CASE AllUndone
  <2>1. UNCHANGED <<ledger, journal>>
    BY <1>12 DEF AllUndone
  <2>2. run'.current = run.current /\ run'.at = run.at
    BY <1>12, FlushFields DEF SameWork, SameBooks, AllUndone, At, Targets
  <2>3. /\ Changing' => Changing
        /\ Retiring' => Retiring
        /\ \/ Phase' = Phase
           \/ Phase = "undo" /\ Phase' = "undone"
           \/ Phase = "apply" /\ Phase' = "finish"
           \/ Phase = "finish" /\ Phase' = "commit"
           \/ Phase = "restore" /\ Phase' = "remove"
           \/ Phase \in {"restore", "revert"} /\ Phase' = "failed"
           \/ Phase = "enter" /\ Phase' = "restore"
           \/ Phase = "retire" /\ Phase' = "retired"
    BY <1>12, FlushFields DEF Phase, Changing, Retiring, AllUndone, At, Targets
  <2> QED
    BY <1>h, <2>1, <2>2, <2>3, JournalFrame
<1>13. CASE AllRestored
  <2>1. UNCHANGED <<ledger, journal>>
    BY <1>13 DEF AllRestored
  <2>2. run'.current = run.current /\ run'.at = run.at
    BY <1>13, FlushFields DEF SameWork, SameBooks, AllRestored, At, Targets
  <2>3. /\ Changing' => Changing
        /\ Retiring' => Retiring
        /\ \/ Phase' = Phase
           \/ Phase = "undo" /\ Phase' = "undone"
           \/ Phase = "apply" /\ Phase' = "finish"
           \/ Phase = "finish" /\ Phase' = "commit"
           \/ Phase = "restore" /\ Phase' = "remove"
           \/ Phase \in {"restore", "revert"} /\ Phase' = "failed"
           \/ Phase = "enter" /\ Phase' = "restore"
           \/ Phase = "retire" /\ Phase' = "retired"
    BY <1>13, FlushFields DEF Phase, Changing, Retiring, AllRestored, At, Targets
  <2> QED
    BY <1>h, <2>1, <2>2, <2>3, JournalFrame
<1>14. CASE UninstallFails
  <2>1. UNCHANGED <<ledger, journal>>
    BY <1>14 DEF UninstallFails
  <2>2. run'.current = run.current /\ run'.at = run.at
    BY <1>14, FlushFields DEF SameWork, SameBooks, UninstallFails, At, Targets
  <2>3. /\ Changing' => Changing
        /\ Retiring' => Retiring
        /\ \/ Phase' = Phase
           \/ Phase = "undo" /\ Phase' = "undone"
           \/ Phase = "apply" /\ Phase' = "finish"
           \/ Phase = "finish" /\ Phase' = "commit"
           \/ Phase = "restore" /\ Phase' = "remove"
           \/ Phase \in {"restore", "revert"} /\ Phase' = "failed"
           \/ Phase = "enter" /\ Phase' = "restore"
           \/ Phase = "retire" /\ Phase' = "retired"
    BY <1>14, FlushFields DEF Phase, Changing, Retiring, UninstallFails, At, Targets
  <2> QED
    BY <1>h, <2>1, <2>2, <2>3, JournalFrame
<1>15. CASE Restart
  <2>1. UNCHANGED <<ledger, journal>>
    BY <1>15 DEF Restart
  <2>2. run'.current = run.current /\ run'.at = run.at
    BY <1>15, RestartFields DEF SameWork, SameBooks, Restart
  <2>3. /\ Changing' => Changing
        /\ Retiring' => Retiring
        /\ \/ Phase' = Phase
           \/ Phase = "undo" /\ Phase' = "undone"
           \/ Phase = "apply" /\ Phase' = "finish"
           \/ Phase = "finish" /\ Phase' = "commit"
           \/ Phase = "restore" /\ Phase' = "remove"
           \/ Phase \in {"restore", "revert"} /\ Phase' = "failed"
           \/ Phase = "enter" /\ Phase' = "restore"
           \/ Phase = "retire" /\ Phase' = "retired"
    BY <1>15, RestartFields DEF Phase, Changing, Retiring, Restart
  <2> QED
    BY <1>h, <2>1, <2>2, <2>3, JournalFrame
<1>16. CASE Flushed
  <2>1. UNCHANGED <<ledger, journal>>
    BY <1>16 DEF Flushed
  <2>2. run'.current = run.current /\ run'.at = run.at
    BY <1>16, GotoFields, StageNames DEF SameWork, SameBooks, Flushed, TypeInv, IsRun, Targets
  <2>3. /\ Changing' => Changing
        /\ Retiring' => Retiring
        /\ \/ Phase' = Phase
           \/ Phase = "undo" /\ Phase' = "undone"
           \/ Phase = "apply" /\ Phase' = "finish"
           \/ Phase = "finish" /\ Phase' = "commit"
           \/ Phase = "restore" /\ Phase' = "remove"
           \/ Phase \in {"restore", "revert"} /\ Phase' = "failed"
           \/ Phase = "enter" /\ Phase' = "restore"
           \/ Phase = "retire" /\ Phase' = "retired"
    BY <1>16, GotoFields, StageNames DEF Phase, Changing, Retiring, Flushed, TypeInv, IsRun, Targets
  <2> QED
    BY <1>h, <2>1, <2>2, <2>3, JournalFrame
<1>17. CASE Enter
  <2>1. run.stage = "enter" /\ UNCHANGED <<ledger, journal>> /\ journal.pre = Nothing
    BY <1>17 DEF Enter, JournalInv, Phase
  <2>2. CASE run' = IdleRun
    BY <2>2, IdleJournal
  <2>3. CASE run' # IdleRun /\ EnterInstall
    <3>1. run'.current = Nothing /\ run'.stage = "apply"
      BY <2>1, <2>3 DEF EnterInstall, ControlInv, Installing, Phase, InstallPhases
    <3> QED
      BY <2>1, <3>1, NothingFacts DEF JournalInv, Phase, Changing, Tries, Retiring, Uninstalling, UninstallPhases
  <2>4. CASE run' # IdleRun /\ EnterUninstall
    BY <2>1, <2>4, NothingFacts DEF EnterUninstall, JournalInv, Phase, Changing, Tries, Retiring, Uninstalling, UninstallPhases
  <2> QED
    BY <1>17, <2>2, <2>3, <2>4, EnterFields
<1>18. CASE SkipOperation
  <2>1. run.stage = "apply" /\ UNCHANGED <<ledger, journal, hist>>
    BY <1>18 DEF SkipOperation, At
  <2> QED
    BY <1>18, <2>1, SkipOperationFields DEF JournalInv, Phase, Changing, Tries, Retiring, Uninstalling, UninstallPhases
<1>19. CASE Capture
  BY <1>19, CaptureFields DEF JournalInv, Phase, Changing, Tries, Retiring, Uninstalling, UninstallPhases
<1>20. CASE ChangeFile
  <2>1. Op \in Ops /\ Changed(Op) /\ UNCHANGED journal /\ run.stage = "change"
    BY <1>20, OpMember DEF ChangeFile, At
  <2> QED
    BY <2>1, ChangedFields DEF JournalInv, Phase, Changing, Tries, Retiring, Uninstalling, UninstallPhases, SameBooks
<1>21. CASE MoveIn
  <2>1. Op \in Ops /\ Changed(Op) /\ UNCHANGED journal /\ run.stage = "change"
    BY <1>21, OpMember DEF MoveIn, At
  <2> QED
    BY <2>1, ChangedFields DEF JournalInv, Phase, Changing, Tries, Retiring, Uninstalling, UninstallPhases, SameBooks
<1>22. CASE ChangeRest
  <2>1. Op \in Ops /\ Changed(Op) /\ UNCHANGED journal /\ run.stage = "change"
    BY <1>22, OpMember DEF ChangeRest, At
  <2> QED
    BY <2>1, ChangedFields DEF JournalInv, Phase, Changing, Tries, Retiring, Uninstalling, UninstallPhases, SameBooks
<1>23. CASE SetAside
  <2>1. UNCHANGED <<ledger, journal>>
    BY <1>23 DEF SetAside
  <2>2. run'.current = run.current /\ run'.at = run.at
    BY <1>23, ContentFacts DEF SameWork, SameBooks, SetAside
  <2>3. /\ Changing' => Changing
        /\ Retiring' => Retiring
        /\ \/ Phase' = Phase
           \/ Phase = "undo" /\ Phase' = "undone"
           \/ Phase = "apply" /\ Phase' = "finish"
           \/ Phase = "finish" /\ Phase' = "commit"
           \/ Phase = "restore" /\ Phase' = "remove"
           \/ Phase \in {"restore", "revert"} /\ Phase' = "failed"
           \/ Phase = "enter" /\ Phase' = "restore"
           \/ Phase = "retire" /\ Phase' = "retired"
    BY <1>23, ContentFacts DEF Phase, Changing, Retiring, SetAside
  <2> QED
    BY <1>h, <2>1, <2>2, <2>3, JournalFrame
<1>24. CASE ChangeHalf
  <2>1. UNCHANGED <<ledger, journal>>
    BY <1>24 DEF ChangeHalf
  <2>2. run'.current = run.current /\ run'.at = run.at
    BY <1>24, ContentFacts DEF SameWork, SameBooks, ChangeHalf
  <2>3. /\ Changing' => Changing
        /\ Retiring' => Retiring
        /\ \/ Phase' = Phase
           \/ Phase = "undo" /\ Phase' = "undone"
           \/ Phase = "apply" /\ Phase' = "finish"
           \/ Phase = "finish" /\ Phase' = "commit"
           \/ Phase = "restore" /\ Phase' = "remove"
           \/ Phase \in {"restore", "revert"} /\ Phase' = "failed"
           \/ Phase = "enter" /\ Phase' = "restore"
           \/ Phase = "retire" /\ Phase' = "retired"
    BY <1>24, ContentFacts DEF Phase, Changing, Retiring, ChangeHalf
  <2> QED
    BY <1>h, <2>1, <2>2, <2>3, JournalFrame
<1>25. CASE Settle
  <2>1. InHand /\ UNCHANGED hist
    BY <1>25 DEF Settle, At, PositionInv, Changing, InHand
  <2>2. run'.current = run.current /\ run'.stage = "apply"
    BY <1>25, <2>1, SettleFields
  <2>3. DOMAIN journal'.pre = DOMAIN run.current \cap {Rockchip}
    <3>1. CASE Rockchip \in DOMAIN run.current
      <4>1. journal'.pre = Only(Rockchip, run.current[Rockchip])
        BY <1>25, <3>1 DEF Settle, SettledJournal, Journal
      <4> QED
        BY <3>1, <4>1 DEF Only
    <3>2. CASE Rockchip \notin DOMAIN run.current
      <4>1. journal' = NoJournal
        BY <1>25, <3>2 DEF Settle, SettledJournal
      <4> QED
        BY <3>2, <4>1, NothingFacts, NoJournalType
    <3> QED
      BY <3>1, <3>2
  <2> QED
    BY <2>1, <2>2, <2>3 DEF JournalInv, Phase, Changing, Tries, Retiring, Uninstalling, UninstallPhases
<1>26. CASE RetireChanged
  <2>1. run.stage = "apply" /\ run.at <= Len(Order) /\ run' = GaveUp /\ UNCHANGED <<ledger, journal, hist>>
    BY <1>26 DEF RetireChanged, At
  <2> QED
    BY <2>1, GaveUpFields DEF JournalInv, Phase, Changing, Tries, Retiring, Uninstalling, UninstallPhases
<1>27. CASE Retired
  <2>1. run.stage = "retired" /\ run.at <= Len(Order) /\ run' = GaveUp /\ journal'.pre = Nothing /\ UNCHANGED hist
    BY <1>27, NoJournalType DEF Retired, At
  <2> QED
    BY <2>1, GaveUpFields, NothingFacts DEF JournalInv, Phase, Changing, Tries, Retiring, Uninstalling, UninstallPhases
<1>28. CASE Retire
  <2>1. Goto("retire") /\ hist' = [hist EXCEPT !.retired = TRUE] /\ DOMAIN journal'.pre = {Op}
    BY <1>28, SingleFacts DEF Retire, Journal
  <2>2. hist'.retired /\ Op' = Op /\ run'.stage = "retire"
    BY <2>1, RetiredFields, GotoFields, StageNames, EarlierSame DEF SameWork
  <2> QED
    BY <2>1, <2>2 DEF JournalInv, Phase, Changing, Tries, Retiring, Uninstalling, UninstallPhases
<1>29. CASE RestoreRetired
  <2>1. UNCHANGED <<ledger, journal>>
    BY <1>29 DEF RestoreRetired
  <2>2. run'.current = run.current /\ run'.at = run.at
    BY <1>29, GotoFields, StageNames DEF SameWork, SameBooks, RestoreRetired, At
  <2>3. /\ Changing' => Changing
        /\ Retiring' => Retiring
        /\ \/ Phase' = Phase
           \/ Phase = "undo" /\ Phase' = "undone"
           \/ Phase = "apply" /\ Phase' = "finish"
           \/ Phase = "finish" /\ Phase' = "commit"
           \/ Phase = "restore" /\ Phase' = "remove"
           \/ Phase \in {"restore", "revert"} /\ Phase' = "failed"
           \/ Phase = "enter" /\ Phase' = "restore"
           \/ Phase = "retire" /\ Phase' = "retired"
    BY <1>29, GotoFields, StageNames DEF Phase, Changing, Retiring, RestoreRetired, At
  <2> QED
    BY <1>h, <2>1, <2>2, <2>3, JournalFrame
<1>30. CASE DiscardReplaced
  <2>1. UNCHANGED <<ledger, journal>>
    BY <1>30 DEF DiscardReplaced
  <2>2. run'.current = run.current /\ run'.at = run.at
    BY <1>30, GotoFields, StageNames DEF SameWork, SameBooks, DiscardReplaced, At
  <2>3. /\ Changing' => Changing
        /\ Retiring' => Retiring
        /\ \/ Phase' = Phase
           \/ Phase = "undo" /\ Phase' = "undone"
           \/ Phase = "apply" /\ Phase' = "finish"
           \/ Phase = "finish" /\ Phase' = "commit"
           \/ Phase = "restore" /\ Phase' = "remove"
           \/ Phase \in {"restore", "revert"} /\ Phase' = "failed"
           \/ Phase = "enter" /\ Phase' = "restore"
           \/ Phase = "retire" /\ Phase' = "retired"
    BY <1>30, GotoFields, StageNames DEF Phase, Changing, Retiring, DiscardReplaced, At
  <2> QED
    BY <1>h, <2>1, <2>2, <2>3, JournalFrame
<1>31. CASE Commit
  BY <1>31, GotoFields, StageNames DEF Commit, JournalInv, Phase, Changing, Tries, Retiring, Uninstalling, UninstallPhases
<1>32. CASE UndoNext
  <2>0. run' = [run EXCEPT !.pending = Requested(NextToUndo)]
    BY <1>32 DEF UndoNext
  <2>1. UNCHANGED <<ledger, journal>>
    BY <1>32 DEF UndoNext
  <2>2. run'.current = run.current /\ run'.at = run.at
    BY <2>0, RequestedFields DEF SameWork, SameBooks
  <2>3. /\ Changing' => Changing
        /\ Retiring' => Retiring
        /\ \/ Phase' = Phase
           \/ Phase = "undo" /\ Phase' = "undone"
           \/ Phase = "apply" /\ Phase' = "finish"
           \/ Phase = "finish" /\ Phase' = "commit"
           \/ Phase = "restore" /\ Phase' = "remove"
           \/ Phase \in {"restore", "revert"} /\ Phase' = "failed"
           \/ Phase = "enter" /\ Phase' = "restore"
           \/ Phase = "retire" /\ Phase' = "retired"
    BY <2>0, RequestedFields DEF Phase, Changing, Retiring
  <2> QED
    BY <1>h, <2>1, <2>2, <2>3, JournalFrame
<1>33. CASE Undid
  <2>1. UNCHANGED <<ledger, journal>>
    BY <1>33 DEF Undid
  <2>2. run'.current = run.current /\ run'.at = run.at
    BY <1>33, UndidFields DEF SameWork, SameBooks, Undid
  <2>3. /\ Changing' => Changing
        /\ Retiring' => Retiring
        /\ \/ Phase' = Phase
           \/ Phase = "undo" /\ Phase' = "undone"
           \/ Phase = "apply" /\ Phase' = "finish"
           \/ Phase = "finish" /\ Phase' = "commit"
           \/ Phase = "restore" /\ Phase' = "remove"
           \/ Phase \in {"restore", "revert"} /\ Phase' = "failed"
           \/ Phase = "enter" /\ Phase' = "restore"
           \/ Phase = "retire" /\ Phase' = "retired"
    BY <1>33, UndidFields DEF Phase, Changing, Retiring, Undid
  <2> QED
    BY <1>h, <2>1, <2>2, <2>3, JournalFrame
<1>34. CASE Revert
  <2>0. run' = [run EXCEPT !.pending = Requested(NextToRestore)]
    BY <1>34 DEF Revert
  <2>1. UNCHANGED <<ledger, journal>>
    BY <1>34 DEF Revert
  <2>2. run'.current = run.current /\ run'.at = run.at
    BY <2>0, RequestedFields DEF SameWork, SameBooks
  <2>3. /\ Changing' => Changing
        /\ Retiring' => Retiring
        /\ \/ Phase' = Phase
           \/ Phase = "undo" /\ Phase' = "undone"
           \/ Phase = "apply" /\ Phase' = "finish"
           \/ Phase = "finish" /\ Phase' = "commit"
           \/ Phase = "restore" /\ Phase' = "remove"
           \/ Phase \in {"restore", "revert"} /\ Phase' = "failed"
           \/ Phase = "enter" /\ Phase' = "restore"
           \/ Phase = "retire" /\ Phase' = "retired"
    BY <2>0, RequestedFields DEF Phase, Changing, Retiring
  <2> QED
    BY <1>h, <2>1, <2>2, <2>3, JournalFrame
<1>35. CASE Undone
  <2>1. CASE run' = IdleRun
    BY <2>1, IdleJournal
  <2>2. CASE run' # IdleRun
    <3>1. run'.stage = "commit" /\ journal'.pre = Nothing
      BY <1>35, <2>2, UndoneFields, NoJournalType DEF Undone
    <3> QED
      BY <3>1, NothingFacts DEF JournalInv, Phase, Changing, Tries, Retiring, Uninstalling, UninstallPhases
  <2> QED
    BY <2>1, <2>2
<1>36. CASE Preserve
  <2>1. UNCHANGED <<ledger, journal>>
    BY <1>36 DEF Preserve
  <2>2. run'.current = run.current /\ run'.at = run.at
    BY <1>36, TodoFields DEF SameWork, SameBooks, Preserve, TypeInv, IsRun
  <2>3. /\ Changing' => Changing
        /\ Retiring' => Retiring
        /\ \/ Phase' = Phase
           \/ Phase = "undo" /\ Phase' = "undone"
           \/ Phase = "apply" /\ Phase' = "finish"
           \/ Phase = "finish" /\ Phase' = "commit"
           \/ Phase = "restore" /\ Phase' = "remove"
           \/ Phase \in {"restore", "revert"} /\ Phase' = "failed"
           \/ Phase = "enter" /\ Phase' = "restore"
           \/ Phase = "retire" /\ Phase' = "retired"
    BY <1>36, TodoFields DEF Phase, Changing, Retiring, Preserve, TypeInv, IsRun
  <2> QED
    BY <1>h, <2>1, <2>2, <2>3, JournalFrame
<1>37. CASE Restore
  <2>1. run'.stage = "revert" /\ DOMAIN journal'.pre = {NextToRestore} /\ UNCHANGED ledger
    BY <1>37, SingleFacts, GotoFields, StageNames DEF Restore, Journal
  <2>2. NextToRestore \in DOMAIN ledger.pre
    BY <1>37, NextToRestoreFacts DEF Restore
  <2> QED
    BY <2>1, <2>2 DEF JournalInv, Phase, Changing, Tries, Retiring, Uninstalling, UninstallPhases
<1>38. CASE Reverted
  <2>1. run'.stage = "restore" /\ journal'.pre = Nothing
    BY <1>38, TodoFields, StageNames, NoJournalType DEF Reverted
  <2> QED
    BY <2>1, NothingFacts DEF JournalInv, Phase, Changing, Tries, Retiring, Uninstalling, UninstallPhases
<1>39. CASE Raise
  <2>1. run'.stage = "undo" /\ run'.current = run.current /\ UNCHANGED ledger
    BY <1>39, RaiseFields DEF Raise, RaiseRun, SameBooks
  <2>2. CASE run.current = Nothing
    <3>1. journal' = journal /\ DOMAIN run.current = {} /\ ~Changing
      BY <1>39, <2>2, RaiseFields, NothingFacts DEF PositionInv
    <3>2. CASE Retiring
      <4>1. run.at <= Len(Order) /\ Forward /\ Op \in DOMAIN run.pre
        BY <3>2 DEF ControlInv, PositionInv, Retiring, Forward, Phase
      <4>2. Op \in DOMAIN ledger.pre
        BY <4>1, EarlierStep DEF PositionInv, ForwardBooks
      <4> QED
        BY <2>1, <2>2, <3>1, <3>2, <4>2 DEF JournalInv, Phase, Changing, Tries, Retiring, Uninstalling, UninstallPhases
    <3>3. CASE ~Retiring
      <4>1. Tries
        BY <1>39, <3>1, <3>3 DEF Raise, Applying, Tries, Phase, Changing, Retiring
      <4> QED
        BY <2>1, <2>2, <3>1, <4>1 DEF JournalInv, Phase, Changing, Tries, Retiring, Uninstalling, UninstallPhases
    <3> QED
      BY <3>2, <3>3
  <2>3. CASE run.current # Nothing
    <3>1. journal'.pre = run.current
      BY <1>39, <2>3, RaiseFields
    <3> QED
      BY <2>1, <2>3, <3>1 DEF JournalInv, Phase, Changing, Tries, Retiring, Uninstalling, UninstallPhases
  <2> QED
    BY <2>2, <2>3
<1> QED
  BY <1>1, <1>2, <1>3, <1>4, <1>5, <1>6, <1>7, <1>8, <1>9, <1>10, <1>11, <1>12, <1>13, <1>14, <1>15, <1>16, <1>17, <1>18, <1>19, <1>20, <1>21, <1>22, <1>23, <1>24, <1>25, <1>26, <1>27, <1>28, <1>29, <1>30, <1>31, <1>32, <1>33, <1>34, <1>35, <1>36, <1>37, <1>38, <1>39 DEF Command

-----------------------------------------------------------------------------
(* What puts the package's work back.  An operation that holds the work of  *)
(* the package is on record: in the ledger, in what the command works on or *)
(* will undo, or in the journal it left; and no such record takes the work  *)
(* of the package for the original, unless an uninstall left it.            *)

Ours == Package \cup {Half}
Given(o) == o \in hist.kept \cup hist.edited
Anchored(o) == o \in DOMAIN ledger.pre \/ Given(o)

\* The operations a record is claimed of.
Careful(o) ==
    \/ hist.kills = 0 /\ (o \in Bundles => NothingFailed)
    \/ o = Rockchip /\ ~hist.retired

InProgress == Forward \/ Phase = "undo"

\* The command, or the next one, has the operation to finish or to undo.
Held(o) ==
    \/ Phase = "idle" /\ o \in DOMAIN journal.pre
    \/ Phase \in {"recover", "undo"} /\ o \in run.todo
    \/ Forward /\ o \in DOMAIN run.current

Backed(f) == \A o \in DOMAIN f : Careful(o) /\ f[o] \in Ours => Anchored(o)

AnchorInv == (InProgress => Backed(run.current)) /\ Backed(journal.pre)

LeftToUs(o) == Careful(o) /\ OfPackage(o) /\ ~Given(o)

HeldInv ==
    \A o \in Ops : LeftToUs(o) =>
        /\ IF Phase = "commit" THEN o \in DOMAIN run.pre ELSE Held(o) \/ o \in DOMAIN ledger.pre
        /\ Forward => o \notin DOMAIN ledger.pre \ DOMAIN run.pre
        /\ Phase = "commit" /\ o = Rockchip /\ ~hist.retired =>
               Rockchip \in DOMAIN ledger.pre \cup DOMAIN journal.pre

\* Without failures, kills and edits no command undoes anything, ...
Clean == hist.kills = 0 /\ NothingFailed

CleanStages ==
    Clean => /\ Phase \notin {"undo", "undone", "failed"}
             /\ Phase \in {"idle", "recover"} => journal.pre = Nothing

\* ... finds what it wrote, ...
CleanWork ==
    Clean =>
        /\ run.stage = "change" =>
            /\ Op \in Guarded => host[Op] = run.current[Op]
            /\ Op \in Packaged /\ host[Op] # Stock => run.current[Op] # Stock /\ aside[Op] = Stock
        /\ run.stage = "settle" => host[Op] = Desired(Op)
        /\ run.stage = "retired" => host[Op] = run.pre[Op]
        /\ \A o \in Packaged : host[o] # Edited /\ aside[o] # Edited

\* ... and gives up no bundle file but with the vendor's content.
Bookkeeping == Installing /\ Phase # "clear"
BookPre == IF Bookkeeping THEN run.pre ELSE ledger.pre
BookOut == IF Bookkeeping THEN run.out ELSE ledger.out

CleanBundles ==
    Clean => \A o \in Bundles \cap DOMAIN BookPre :
        /\ \/ host[o] = BookPre[o]
           \/ o \in DOMAIN BookOut /\ host[o] = BookOut[o]
           \/ run.stage = "settle" /\ o = Op
        /\ BookPre[o] \in Package => o \in hist.kept

CleanInv == CleanStages /\ CleanWork /\ CleanBundles

RecordInv == AnchorInv /\ HeldInv /\ CleanInv

LEMMA BeginStage == ASSUME ControlInv, Begin PROVE run.stage = "idle" /\ ~RemoveLedger
<1>1. run = IdleRun
  BY DEF Begin, ControlInv
<1>2. run.stage = "idle"
  BY <1>1 DEF IdleRun
<1> QED
  BY <1>2 DEF RemoveLedger

LEMMA CarefulStays ==
    ASSUME HistoryGrows, ~RemoveLedger, NEW o
    PROVE  (Careful(o)' => Careful(o)) /\ Given(o)' = Given(o) /\ (Clean' => Clean)
  BY DEF HistoryGrows, Careful, Given, NothingFailed, Clean

LEMMA PackageContent ==
    ASSUME NEW p \in Content, p \notin {Edited, Half}, p # Stock
    PROVE  p \in Package
  BY Numbers

LEMMA AnchorFrame ==
    ASSUME HistoryGrows, ~RemoveLedger, AnchorInv, DOMAIN ledger.pre \subseteq DOMAIN ledger'.pre,
           InProgress' => run'.current = Nothing \/ (InProgress /\ run'.current = run.current),
           \/ journal'.pre \in {journal.pre, Nothing}
           \/ DOMAIN journal'.pre \subseteq DOMAIN ledger.pre
           \/ /\ InProgress /\ DOMAIN journal'.pre \subseteq DOMAIN run.current
              /\ \A o \in DOMAIN journal'.pre : journal'.pre[o] = run.current[o]
    PROVE  AnchorInv'
<1>1. \A o : (Careful(o)' => Careful(o)) /\ (Anchored(o) => Anchored(o)')
  BY CarefulStays DEF Anchored
<1>2. InProgress' => Backed(run.current)'
  BY <1>1, NothingFacts DEF AnchorInv, Backed
<1>3. Backed(journal.pre)'
  BY <1>1, NothingFacts DEF AnchorInv, Backed, Anchored
<1> QED
  BY <1>2, <1>3 DEF AnchorInv

LEMMA AnchorStep ==
    ASSUME BookInv, JournalInv, AnchorInv, HeldInv, Begin \/ Command \/ Kill PROVE AnchorInv'
<1> USE DEF BookInv
<1>h. HistoryGrows
  BY HistoryStep
<1>1. CASE LastRestartFails
  <2>1. UNCHANGED <<ledger, journal>> /\ ~RemoveLedger
    BY <1>1 DEF LastRestartFails, At, Undoing, RemoveLedger
  <2>2. InProgress' => run'.current = Nothing \/ (InProgress /\ run'.current = run.current)
    BY <1>1, IdleFields DEF InProgress, Forward, Phase, LastRestartFails, Finish
  <2> QED
    BY <1>h, <2>1, <2>2, AnchorFrame
<1>2. CASE RecoveryFails
  <2>1. UNCHANGED <<ledger, journal>> /\ ~RemoveLedger
    BY <1>2 DEF RecoveryFails, At, Undoing, RemoveLedger
  <2>2. InProgress' => run'.current = Nothing \/ (InProgress /\ run'.current = run.current)
    BY <1>2, IdleFields DEF InProgress, Forward, Phase, RecoveryFails, Finish
  <2> QED
    BY <1>h, <2>1, <2>2, AnchorFrame
<1>3. CASE UninstallFailed
  <2>1. UNCHANGED <<ledger, journal>> /\ ~RemoveLedger
    BY <1>3 DEF UninstallFailed, At, Undoing, RemoveLedger
  <2>2. InProgress' => run'.current = Nothing \/ (InProgress /\ run'.current = run.current)
    BY <1>3, IdleFields DEF InProgress, Forward, Phase, UninstallFailed, Finish
  <2> QED
    BY <1>h, <2>1, <2>2, AnchorFrame
<1>4. CASE Kill
  <2>1. UNCHANGED <<ledger, journal>> /\ ~RemoveLedger
    BY <1>4, KillFields, RemoveFields DEF Kill, At, Undoing, RemoveLedger
  <2>2. InProgress' => run'.current = Nothing \/ (InProgress /\ run'.current = run.current)
    BY <1>4, IdleFields DEF InProgress, Forward, Phase, Kill, Finish
  <2> QED
    BY <1>h, <2>1, <2>2, AnchorFrame
<1>5. CASE ClearCommitted
  <2>1. UNCHANGED ledger /\ journal'.pre = Nothing /\ ~RemoveLedger
    BY <1>5, NoJournalType DEF ClearCommitted, At, Undoing, RemoveLedger
  <2>2. InProgress' => run'.current = Nothing \/ (InProgress /\ run'.current = run.current)
    BY <1>5, IdleFields DEF InProgress, Forward, Phase, ClearCommitted, Finish
  <2> QED
    BY <1>h, <2>1, <2>2, AnchorFrame
<1>6. CASE Begin
  <2>1. UNCHANGED <<ledger, journal>> /\ ~RemoveLedger
    BY <1>6, BeginStage DEF Begin
  <2>2. InProgress' => run'.current = Nothing \/ (InProgress /\ run'.current = run.current)
    BY <1>6, BeginFields DEF InProgress, Forward, Phase, Begin
  <2> QED
    BY <1>h, <2>1, <2>2, AnchorFrame
<1>7. CASE Recovered
  <2>1. UNCHANGED ledger /\ journal'.pre = Nothing /\ ~RemoveLedger
    BY <1>7, NoJournalType DEF Recovered, At, Undoing, RemoveLedger
  <2>2. InProgress' => run'.current = Nothing \/ (InProgress /\ run'.current = run.current)
    BY <1>7, FlushFields DEF InProgress, Forward, Phase, Recovered, Targets
  <2> QED
    BY <1>h, <2>1, <2>2, AnchorFrame
<1>8. CASE FlushBeforeRetirement
  <2>1. UNCHANGED <<ledger, journal>> /\ ~RemoveLedger
    BY <1>8 DEF FlushBeforeRetirement, At, Undoing, RemoveLedger
  <2>2. InProgress' => run'.current = Nothing \/ (InProgress /\ run'.current = run.current)
    BY <1>8, FlushFields DEF InProgress, Forward, Phase, FlushBeforeRetirement, Targets, SameBooks, At
  <2> QED
    BY <1>h, <2>1, <2>2, AnchorFrame
<1>9. CASE AllApplied
  <2>1. UNCHANGED <<ledger, journal>> /\ ~RemoveLedger
    BY <1>9 DEF AllApplied, At, Undoing, RemoveLedger
  <2>2. InProgress' => run'.current = Nothing \/ (InProgress /\ run'.current = run.current)
    BY <1>9, FlushFields DEF InProgress, Forward, Phase, AllApplied, Targets, SameBooks, At
  <2> QED
    BY <1>h, <2>1, <2>2, AnchorFrame
<1>10. CASE AllUndone
  <2>1. UNCHANGED <<ledger, journal>> /\ ~RemoveLedger
    BY <1>10 DEF AllUndone, At, Undoing, RemoveLedger
  <2>2. InProgress' => run'.current = Nothing \/ (InProgress /\ run'.current = run.current)
    BY <1>10, FlushFields DEF InProgress, Forward, Phase, AllUndone, Targets, SameBooks, At
  <2> QED
    BY <1>h, <2>1, <2>2, AnchorFrame
<1>11. CASE AllRestored
  <2>1. UNCHANGED <<ledger, journal>> /\ ~RemoveLedger
    BY <1>11 DEF AllRestored, At, Undoing, RemoveLedger
  <2>2. InProgress' => run'.current = Nothing \/ (InProgress /\ run'.current = run.current)
    BY <1>11, FlushFields DEF InProgress, Forward, Phase, AllRestored, Targets, SameBooks, At
  <2> QED
    BY <1>h, <2>1, <2>2, AnchorFrame
<1>12. CASE UninstallFails
  <2>1. UNCHANGED <<ledger, journal>> /\ ~RemoveLedger
    BY <1>12 DEF UninstallFails, At, Undoing, RemoveLedger
  <2>2. InProgress' => run'.current = Nothing \/ (InProgress /\ run'.current = run.current)
    BY <1>12, FlushFields DEF InProgress, Forward, Phase, UninstallFails, Targets, SameBooks, At
  <2> QED
    BY <1>h, <2>1, <2>2, AnchorFrame
<1>13. CASE Restart
  <2>1. UNCHANGED <<ledger, journal>> /\ ~RemoveLedger
    BY <1>13 DEF Restart, At, Undoing, RemoveLedger
  <2>2. InProgress' => run'.current = Nothing \/ (InProgress /\ run'.current = run.current)
    BY <1>13, RestartFields DEF InProgress, Forward, Phase, Restart, SameBooks
  <2> QED
    BY <1>h, <2>1, <2>2, AnchorFrame
<1>14. CASE Flushed
  <2>1. UNCHANGED <<ledger, journal>> /\ ~RemoveLedger
    BY <1>14 DEF Flushed, At, Undoing, RemoveLedger
  <2>2. InProgress' => run'.current = Nothing \/ (InProgress /\ run'.current = run.current)
    BY <1>14, GotoFields, StageNames DEF InProgress, Forward, Phase, Flushed, TypeInv, IsRun, Targets, SameBooks
  <2> QED
    BY <1>h, <2>1, <2>2, AnchorFrame
<1>15. CASE Enter
  <2>1. UNCHANGED <<ledger, journal>> /\ ~RemoveLedger /\ run.stage = "enter"
    BY <1>15 DEF Enter, RemoveLedger
  <2>2. run.current = Nothing
    BY <2>1 DEF ControlInv, Installing, Phase, InstallPhases
  <2>3. run'.current = Nothing
    BY <1>15, <2>2, EnterFields, IdleFields DEF EnterInstall, EnterUninstall, SameBooks
  <2> QED
    BY <1>h, <2>1, <2>3, AnchorFrame
<1>16. CASE SkipOperation
  <2>1. UNCHANGED <<ledger, journal>> /\ ~RemoveLedger
    BY <1>16 DEF SkipOperation, At, Undoing, RemoveLedger
  <2>2. InProgress' => run'.current = Nothing \/ (InProgress /\ run'.current = run.current)
    BY <1>16, SkipOperationFields DEF InProgress, Forward, Phase, SkipOperation, At
  <2> QED
    BY <1>h, <2>1, <2>2, AnchorFrame
<1>17. CASE Capture
  <2>1. UNCHANGED <<host, ledger, hist>> /\ ~RemoveLedger /\ run.stage = "apply" /\ Op \in Ops
    BY <1>17, OpMember DEF Capture, At, RemoveLedger
  <2>2. run'.current = Over(Only(Op, host[Op]), run.current) /\ journal'.pre = run'.current
    BY <1>17, CaptureFields
  <2>3. Op \notin DOMAIN run.current
    <3>1. DOMAIN run.current \subseteq Earlier /\ run.at <= Len(Order)
      BY <1>17, <2>1 DEF Capture, At, PositionInv, ForwardBooks, Forward, Phase, Working, Changing
    <3> QED
      BY <3>1, EarlierStep
  <2>4. Careful(Op) /\ host[Op] \in Ours => Anchored(Op)
    BY <2>1, <2>3 DEF HeldInv, LeftToUs, OfPackage, Ours, Held, Forward, Phase, Anchored
  <2>5. \A o : (Careful(o)' => Careful(o)) /\ (Anchored(o) => Anchored(o)')
    BY <1>h, <2>1, CarefulStays DEF Anchored
  <2>6. Backed(run.current)'
    <3>1. \A o \in DOMAIN run'.current : run'.current[o] = IF o = Op THEN host[Op] ELSE run.current[o]
      BY <2>2 DEF Over, Only
    <3>2. \A o \in DOMAIN run'.current : o = Op \/ o \in DOMAIN run.current
      BY <2>2 DEF Over, Only
    <3>3. Backed(run.current)
      BY <2>1 DEF AnchorInv, InProgress, Forward, Phase
    <3> QED
      BY <2>4, <2>5, <3>1, <3>2, <3>3 DEF Backed
  <2> QED
    BY <2>2, <2>6 DEF AnchorInv, Backed
<1>18. CASE ChangeFile
  <2>1. Op \in Ops /\ Changed(Op) /\ UNCHANGED <<ledger, journal>> /\ run.stage = "change" /\ ~RemoveLedger
    BY <1>18, OpMember DEF ChangeFile, At, RemoveLedger
  <2>2. InProgress /\ run'.current = run.current
    BY <2>1, ChangedFields DEF InProgress, Forward, Phase, SameBooks
  <2> QED
    BY <1>h, <2>1, <2>2, AnchorFrame
<1>19. CASE MoveIn
  <2>1. Op \in Ops /\ Changed(Op) /\ UNCHANGED <<ledger, journal>> /\ run.stage = "change" /\ ~RemoveLedger
    BY <1>19, OpMember DEF MoveIn, At, RemoveLedger
  <2>2. InProgress /\ run'.current = run.current
    BY <2>1, ChangedFields DEF InProgress, Forward, Phase, SameBooks
  <2> QED
    BY <1>h, <2>1, <2>2, AnchorFrame
<1>20. CASE ChangeRest
  <2>1. Op \in Ops /\ Changed(Op) /\ UNCHANGED <<ledger, journal>> /\ run.stage = "change" /\ ~RemoveLedger
    BY <1>20, OpMember DEF ChangeRest, At, RemoveLedger
  <2>2. InProgress /\ run'.current = run.current
    BY <2>1, ChangedFields DEF InProgress, Forward, Phase, SameBooks
  <2> QED
    BY <1>h, <2>1, <2>2, AnchorFrame
<1>21. CASE SetAside
  <2>1. UNCHANGED <<ledger, journal>> /\ ~RemoveLedger
    BY <1>21 DEF SetAside, At, Undoing, RemoveLedger
  <2>2. InProgress' => run'.current = Nothing \/ (InProgress /\ run'.current = run.current)
    BY <1>21, ContentFacts DEF InProgress, Forward, Phase, SetAside
  <2> QED
    BY <1>h, <2>1, <2>2, AnchorFrame
<1>22. CASE ChangeHalf
  <2>1. UNCHANGED <<ledger, journal>> /\ ~RemoveLedger
    BY <1>22 DEF ChangeHalf, At, Undoing, RemoveLedger
  <2>2. InProgress' => run'.current = Nothing \/ (InProgress /\ run'.current = run.current)
    BY <1>22, ContentFacts DEF InProgress, Forward, Phase, ChangeHalf
  <2> QED
    BY <1>h, <2>1, <2>2, AnchorFrame
<1>23. CASE Settle
  <2>1. InHand /\ UNCHANGED ledger /\ run.stage = "settle" /\ ~RemoveLedger
    BY <1>23 DEF Settle, At, PositionInv, Changing, InHand, RemoveLedger
  <2>2. run'.current = run.current /\ InProgress
    BY <1>23, <2>1, SettleFields DEF InProgress, Forward, Phase
  <2>3. CASE Rockchip \in DOMAIN run.current
    <3>1. journal'.pre = Only(Rockchip, run.current[Rockchip])
      BY <1>23, <2>3 DEF Settle, SettledJournal, Journal
    <3>2. DOMAIN journal'.pre = {Rockchip} /\ journal'.pre[Rockchip] = run.current[Rockchip]
      BY <3>1 DEF Only
    <3> QED
      BY <1>h, <2>1, <2>2, <2>3, <3>2, AnchorFrame
  <2>4. CASE Rockchip \notin DOMAIN run.current
    <3>1. journal'.pre = Nothing
      BY <1>23, <2>4, NoJournalType DEF Settle, SettledJournal
    <3> QED
      BY <1>h, <2>1, <2>2, <3>1, AnchorFrame
  <2> QED
    BY <2>3, <2>4
<1>24. CASE RetireChanged
  <2>1. run.stage = "apply" /\ run.at <= Len(Order) /\ run' = GaveUp /\ UNCHANGED <<ledger, journal>> /\ ~RemoveLedger
    BY <1>24 DEF RetireChanged, At, RemoveLedger
  <2>2. InProgress /\ run'.current = run.current
    BY <2>1, GaveUpFields DEF InProgress, Forward, Phase
  <2> QED
    BY <1>h, <2>1, <2>2, AnchorFrame
<1>25. CASE Retired
  <2>1. run.stage = "retired" /\ run.at <= Len(Order) /\ run' = GaveUp /\ UNCHANGED ledger /\ ~RemoveLedger
    BY <1>25 DEF Retired, At, RemoveLedger
  <2>2. InProgress /\ run'.current = run.current /\ journal'.pre = Nothing
    BY <1>25, <2>1, GaveUpFields, NoJournalType DEF InProgress, Forward, Phase, Retired
  <2> QED
    BY <1>h, <2>1, <2>2, AnchorFrame
<1>26. CASE Retire
  <2>1. /\ run.stage = "apply" /\ run.at <= Len(Order) /\ Goto("retire") /\ UNCHANGED ledger /\ ~RemoveLedger
        /\ Op \in DOMAIN run.pre /\ journal'.pre = Only(Op, run.pre[Op])
    BY <1>26 DEF Retire, At, Journal, RemoveLedger
  <2>2. InProgress /\ run'.current = run.current
    BY <2>1, GotoFields, StageNames DEF InProgress, Forward, Phase, SameBooks
  <2>3. Op \in DOMAIN ledger.pre
    BY <2>1, EarlierStep DEF PositionInv, ForwardBooks, Forward, Phase
  <2>4. DOMAIN journal'.pre \subseteq DOMAIN ledger.pre
    BY <2>1, <2>3 DEF Only
  <2> QED
    BY <1>h, <2>1, <2>2, <2>4, AnchorFrame
<1>27. CASE RestoreRetired
  <2>1. UNCHANGED <<ledger, journal>> /\ ~RemoveLedger
    BY <1>27 DEF RestoreRetired, At, Undoing, RemoveLedger
  <2>2. InProgress' => run'.current = Nothing \/ (InProgress /\ run'.current = run.current)
    BY <1>27, GotoFields, StageNames DEF InProgress, Forward, Phase, RestoreRetired, At, SameBooks
  <2> QED
    BY <1>h, <2>1, <2>2, AnchorFrame
<1>28. CASE DiscardReplaced
  <2>1. UNCHANGED <<ledger, journal>> /\ ~RemoveLedger
    BY <1>28 DEF DiscardReplaced, At, Undoing, RemoveLedger
  <2>2. InProgress' => run'.current = Nothing \/ (InProgress /\ run'.current = run.current)
    BY <1>28, GotoFields, StageNames DEF InProgress, Forward, Phase, DiscardReplaced, At, SameBooks
  <2> QED
    BY <1>h, <2>1, <2>2, AnchorFrame
<1>29. CASE Commit
  <2>1. run.stage = "commit" /\ ledger'.pre = run.pre /\ UNCHANGED <<journal, hist>> /\ ~RemoveLedger
    BY <1>29 DEF Commit, RemoveLedger
  <2>2. DOMAIN journal.pre \subseteq {Rockchip}
    BY <2>1 DEF JournalInv, Phase
  <2>3. Rockchip \in DOMAIN ledger.pre => Rockchip \in DOMAIN ledger'.pre
    BY <2>1, Sets DEF PositionInv, LedgerAgrees, Installing, Phase, InstallPhases
  <2>4. Careful(Rockchip)' => Careful(Rockchip)
    BY <1>h, <2>1, CarefulStays
  <2>5. Given(Rockchip)' = Given(Rockchip)
    BY <1>h, <2>1, CarefulStays
  <2>6. ~InProgress'
    BY <1>29, GotoFields, StageNames DEF Commit, InProgress, Forward, Phase
  <2> QED
    BY <2>1, <2>2, <2>3, <2>4, <2>5, <2>6 DEF AnchorInv, Backed, Anchored
<1>30. CASE UndoNext
  <2>1. UNCHANGED <<ledger, journal>> /\ ~RemoveLedger /\ run' = [run EXCEPT !.pending = Requested(NextToUndo)]
    BY <1>30 DEF UndoNext, Undoing, RemoveLedger
  <2>2. InProgress' => InProgress /\ run'.current = run.current
    BY <2>1, RequestedFields DEF InProgress, Forward, Phase, SameBooks
  <2> QED
    BY <1>h, <2>1, <2>2, AnchorFrame
<1>31. CASE Revert
  <2>1. UNCHANGED <<ledger, journal>> /\ ~RemoveLedger /\ run' = [run EXCEPT !.pending = Requested(NextToRestore)]
    BY <1>31 DEF Revert, Undoing, RemoveLedger
  <2>2. InProgress' => InProgress /\ run'.current = run.current
    BY <2>1, RequestedFields DEF InProgress, Forward, Phase, SameBooks
  <2> QED
    BY <1>h, <2>1, <2>2, AnchorFrame
<1>32. CASE Undid
  <2>1. UNCHANGED <<ledger, journal>> /\ ~RemoveLedger
    BY <1>32 DEF Undid, At, Undoing, RemoveLedger
  <2>2. InProgress' => run'.current = Nothing \/ (InProgress /\ run'.current = run.current)
    BY <1>32, UndidFields DEF InProgress, Forward, Phase, Undid, SameBooks, Undoing
  <2> QED
    BY <1>h, <2>1, <2>2, AnchorFrame
<1>33. CASE Undone
  <2>1. UNCHANGED ledger /\ journal'.pre = Nothing /\ ~RemoveLedger
    BY <1>33, NoJournalType DEF Undone, At, Undoing, RemoveLedger
  <2>2. InProgress' => run'.current = Nothing \/ (InProgress /\ run'.current = run.current)
    BY <1>33, UndoneFields, IdleFields DEF InProgress, Forward, Phase, Undone
  <2> QED
    BY <1>h, <2>1, <2>2, AnchorFrame
<1>34. CASE Preserve
  <2>1. UNCHANGED <<ledger, journal>> /\ ~RemoveLedger
    BY <1>34 DEF Preserve, At, Undoing, RemoveLedger
  <2>2. InProgress' => run'.current = Nothing \/ (InProgress /\ run'.current = run.current)
    BY <1>34, TodoFields DEF InProgress, Forward, Phase, Preserve, TypeInv, IsRun
  <2> QED
    BY <1>h, <2>1, <2>2, AnchorFrame
<1>35. CASE Reverted
  <2>1. UNCHANGED ledger /\ journal'.pre = Nothing /\ ~RemoveLedger
    BY <1>35, NoJournalType DEF Reverted, At, Undoing, RemoveLedger
  <2>2. InProgress' => run'.current = Nothing \/ (InProgress /\ run'.current = run.current)
    BY <1>35, TodoFields, StageNames DEF InProgress, Forward, Phase, Reverted
  <2> QED
    BY <1>h, <2>1, <2>2, AnchorFrame
<1>36. CASE Restore
  <2>1. Goto("revert") /\ UNCHANGED ledger /\ ~RemoveLedger /\ NextToRestore \in DOMAIN ledger.pre
    BY <1>36, NextToRestoreFacts DEF Restore, RemoveLedger
  <2>2. DOMAIN journal'.pre \subseteq DOMAIN ledger.pre
    BY <1>36, <2>1 DEF Restore, Journal, Only
  <2>3. ~InProgress'
    BY <2>1, GotoFields, StageNames DEF InProgress, Forward, Phase
  <2> QED
    BY <1>h, <2>1, <2>2, <2>3, AnchorFrame
<1>37. CASE RemoveLedger
  <2>1. journal' = journal /\ journal.pre = Nothing
    BY <1>37 DEF RemoveLedger, JournalInv, Phase
  <2>2. ~InProgress'
    BY <1>37, IdleFields DEF RemoveLedger, InProgress, Forward, Phase
  <2> QED
    BY <2>1, <2>2, NothingFacts DEF AnchorInv, Backed
<1>38. CASE Raise
  <2>1. UNCHANGED ledger /\ ~RemoveLedger /\ run'.current = run.current
    BY <1>38, RaiseFields DEF Raise, RaiseRun, SameBooks, Applying, At, RemoveLedger
  <2>2. InProgress
    BY <1>38 DEF Raise, Applying, InProgress, Forward, Phase
  <2>3. journal'.pre = journal.pre \/ journal'.pre = run.current
    BY <1>38, RaiseFields
  <2> QED
    BY <1>h, <2>1, <2>2, <2>3, AnchorFrame
<1>39. CASE UndoFails
  <2>1. UNCHANGED journal /\ ~RemoveLedger /\ run' = IdleRun /\ ledger'.pre = Over(run.current, ledger.pre)
    BY <1>39 DEF UndoFails, RemoveLedger
  <2>2. DOMAIN ledger.pre \subseteq DOMAIN ledger'.pre
    BY <2>1 DEF Over
  <2>3. ~InProgress'
    BY <2>1, IdleFields DEF InProgress, Forward, Phase
  <2> QED
    BY <1>h, <2>1, <2>2, <2>3, AnchorFrame
<1> QED
  BY <1>1, <1>2, <1>3, <1>4, <1>5, <1>6, <1>7, <1>8, <1>9, <1>10, <1>11, <1>12, <1>13, <1>14, <1>15, <1>16, <1>17, <1>18, <1>19, <1>20, <1>21, <1>22, <1>23, <1>24, <1>25, <1>26, <1>27, <1>28, <1>29, <1>30, <1>31, <1>32, <1>33, <1>34, <1>35, <1>36, <1>37, <1>38, <1>39 DEF Command

LEMMA HeldFrame ==
    ASSUME HistoryGrows, ~RemoveLedger, HeldInv, DOMAIN ledger.pre \subseteq DOMAIN ledger'.pre,
           Phase # "commit", Phase' # "commit",
           \A o \in Ops : Held(o) => Held(o)' \/ o \in DOMAIN ledger'.pre,
           Forward' => \A o \in DOMAIN ledger'.pre \ DOMAIN run'.pre :
                           Forward /\ o \in DOMAIN ledger.pre \ DOMAIN run.pre,
           \A o \in Ops : OfPackage(o)' =>
               \/ OfPackage(o)
               \/ /\ o \in DOMAIN ledger'.pre \/ Held(o)'
                  /\ Forward' => o \notin DOMAIN ledger'.pre \ DOMAIN run'.pre
    PROVE  HeldInv'
<1>1. \A o : (Careful(o)' => Careful(o)) /\ Given(o)' = Given(o)
  BY CarefulStays
<1> QED
  BY <1>1 DEF HeldInv, LeftToUs

\* The same for an action that leaves the host, the ledger and the books alone.
LEMMA HeldKept ==
    ASSUME HistoryGrows, HeldInv, ~RemoveLedger, UNCHANGED <<host, ledger>>,
           Phase # "commit", Phase' # "commit",
           \A o \in Ops : Held(o) => Held(o)',
           Forward' => Forward /\ DOMAIN run.pre \subseteq DOMAIN run'.pre
    PROVE  HeldInv'
<1>1. \A o \in Ops : OfPackage(o)' = OfPackage(o)
  BY DEF OfPackage
<1> QED
  BY <1>1, HeldFrame

\* The same for an action that writes one operation, which is on record.
LEMMA HeldWrites ==
    ASSUME HistoryGrows, HeldInv, ~RemoveLedger, UNCHANGED ledger, NEW x \in Ops,
           \A o \in Ops : o # x => host'[o] = host[o],
           Phase # "commit", Phase' # "commit", Forward' => Forward,
           \A o \in Ops : Held(o) => Held(o)',
           run'.pre = run.pre,
           x \in DOMAIN ledger'.pre \/ Held(x)',
           Forward => x \notin DOMAIN ledger.pre \ DOMAIN run.pre
    PROVE  HeldInv'
<1>1. \A o \in Ops : o # x => OfPackage(o)' = OfPackage(o)
  BY DEF OfPackage
<1> QED
  BY <1>1, HeldFrame

LEMMA HeldStep ==
    ASSUME BookInv, WholeInv, JournalInv, RecordInv, Begin \/ Command \/ Kill PROVE HeldInv'
<1> USE DEF BookInv, RecordInv
<1>h. HistoryGrows
  BY HistoryStep
<1>1. CASE Begin
  <2>1. UNCHANGED <<host, ledger>> /\ ~RemoveLedger
    BY <1>1, BeginStage DEF Begin
  <2>2. /\ Phase # "commit" /\ Phase' # "commit"
        /\ \A o \in Ops : Held(o) => Held(o)'
        /\ Forward' => Forward /\ run'.pre = run.pre
    BY <1>1, BeginFields, BeginStage DEF Held, Forward, Phase, Begin
  <2> QED
    BY <1>h, <2>1, <2>2, HeldKept
<1>2. CASE Recovered
  <2>1. UNCHANGED <<host, ledger>> /\ ~RemoveLedger
    BY <1>2 DEF Recovered, At, Undoing, RemoveLedger
  <2>2. /\ Phase # "commit" /\ Phase' # "commit"
        /\ \A o \in Ops : Held(o) => Held(o)'
        /\ Forward' => Forward /\ run'.pre = run.pre
    BY <1>2, FlushFields DEF Held, Forward, Phase, Recovered, Targets
  <2> QED
    BY <1>h, <2>1, <2>2, HeldKept
<1>3. CASE FlushBeforeRetirement
  <2>1. UNCHANGED <<host, ledger>> /\ ~RemoveLedger
    BY <1>3 DEF FlushBeforeRetirement, At, Undoing, RemoveLedger
  <2>2. /\ Phase # "commit" /\ Phase' # "commit"
        /\ \A o \in Ops : Held(o) => Held(o)'
        /\ Forward' => Forward /\ run'.pre = run.pre
    BY <1>3, FlushFields DEF Held, Forward, Phase, FlushBeforeRetirement, Targets, SameBooks, At
  <2> QED
    BY <1>h, <2>1, <2>2, HeldKept
<1>4. CASE AllApplied
  <2>1. UNCHANGED <<host, ledger>> /\ ~RemoveLedger
    BY <1>4 DEF AllApplied, At, Undoing, RemoveLedger
  <2>2. /\ Phase # "commit" /\ Phase' # "commit"
        /\ \A o \in Ops : Held(o) => Held(o)'
        /\ Forward' => Forward /\ run'.pre = run.pre
    BY <1>4, FlushFields DEF Held, Forward, Phase, AllApplied, Targets, SameBooks, At
  <2> QED
    BY <1>h, <2>1, <2>2, HeldKept
<1>5. CASE AllUndone
  <2>1. UNCHANGED <<host, ledger>> /\ ~RemoveLedger
    BY <1>5 DEF AllUndone, At, Undoing, RemoveLedger
  <2>2. /\ Phase # "commit" /\ Phase' # "commit"
        /\ \A o \in Ops : Held(o) => Held(o)'
        /\ Forward' => Forward /\ run'.pre = run.pre
    BY <1>5, FlushFields DEF Held, Forward, Phase, AllUndone, Targets, SameBooks, At
  <2> QED
    BY <1>h, <2>1, <2>2, HeldKept
<1>6. CASE AllRestored
  <2>1. UNCHANGED <<host, ledger>> /\ ~RemoveLedger
    BY <1>6 DEF AllRestored, At, Undoing, RemoveLedger
  <2>2. /\ Phase # "commit" /\ Phase' # "commit"
        /\ \A o \in Ops : Held(o) => Held(o)'
        /\ Forward' => Forward /\ run'.pre = run.pre
    BY <1>6, FlushFields DEF Held, Forward, Phase, AllRestored, Targets, SameBooks, At
  <2> QED
    BY <1>h, <2>1, <2>2, HeldKept
<1>7. CASE UninstallFails
  <2>1. UNCHANGED <<host, ledger>> /\ ~RemoveLedger
    BY <1>7 DEF UninstallFails, At, Undoing, RemoveLedger
  <2>2. /\ Phase # "commit" /\ Phase' # "commit"
        /\ \A o \in Ops : Held(o) => Held(o)'
        /\ Forward' => Forward /\ run'.pre = run.pre
    BY <1>7, FlushFields DEF Held, Forward, Phase, UninstallFails, Targets, SameBooks, At
  <2> QED
    BY <1>h, <2>1, <2>2, HeldKept
<1>8. CASE Restart
  <2>1. UNCHANGED <<host, ledger>> /\ ~RemoveLedger
    BY <1>8 DEF Restart, At, Undoing, RemoveLedger
  <2>2. /\ Phase # "commit" /\ Phase' # "commit"
        /\ \A o \in Ops : Held(o) => Held(o)'
        /\ Forward' => Forward /\ run'.pre = run.pre
    BY <1>8, RestartFields DEF Held, Forward, Phase, Restart, SameBooks, TypeInv, IsRun, Targets
  <2> QED
    BY <1>h, <2>1, <2>2, HeldKept
<1>9. CASE Flushed
  <2>1. UNCHANGED <<host, ledger>> /\ ~RemoveLedger
    BY <1>9 DEF Flushed, At, Undoing, RemoveLedger
  <2>2. /\ Phase # "commit" /\ Phase' # "commit"
        /\ \A o \in Ops : Held(o) => Held(o)'
        /\ Forward' => Forward /\ run'.pre = run.pre
    BY <1>9, GotoFields, StageNames DEF Held, Forward, Phase, Flushed, TypeInv, IsRun, Targets, SameBooks
  <2> QED
    BY <1>h, <2>1, <2>2, HeldKept
<1>10. CASE Enter
  <2>1. UNCHANGED <<host, ledger>> /\ ~RemoveLedger /\ run.stage = "enter"
    BY <1>10 DEF Enter, RemoveLedger
  <2>2. Phase # "commit" /\ \A o \in Ops : ~Held(o) /\ OfPackage(o)' = OfPackage(o)
    BY <2>1 DEF Held, Forward, Phase, OfPackage
  <2>3. Phase' # "commit" /\ (Forward' => run'.pre = ledger.pre)
    BY <1>10, EnterFields, IdleFields DEF EnterInstall, EnterUninstall, Forward, Phase
  <2> QED
    BY <1>h, <2>1, <2>2, <2>3, HeldFrame
<1>11. CASE SkipOperation
  <2>1. UNCHANGED <<host, ledger>> /\ ~RemoveLedger /\ run.stage = "apply"
    BY <1>11 DEF SkipOperation, At, RemoveLedger
  <2>2. DOMAIN run.pre \subseteq DOMAIN run'.pre /\ run'.current = run.current /\ run'.stage = "apply"
    BY <1>11, SkipOperationFields DEF Over
  <2>3. /\ Phase # "commit" /\ Phase' # "commit" /\ Forward
        /\ \A o \in Ops : Held(o) => Held(o)'
    BY <2>1, <2>2 DEF Held, Forward, Phase
  <2> QED
    BY <1>h, <2>1, <2>2, <2>3, HeldKept
<1>12. CASE Capture
  <2>1. UNCHANGED <<host, ledger>> /\ ~RemoveLedger /\ run.stage = "apply"
    BY <1>12 DEF Capture, At, RemoveLedger
  <2>2. /\ run'.pre = run.pre /\ DOMAIN run.current \subseteq DOMAIN run'.current
        /\ run'.stage = "change"
    BY <1>12, CaptureFields DEF Over
  <2>3. /\ Phase # "commit" /\ Phase' # "commit" /\ Forward
        /\ \A o \in Ops : Held(o) => Held(o)'
    BY <2>1, <2>2 DEF Held, Forward, Phase
  <2> QED
    BY <1>h, <2>1, <2>2, <2>3, HeldKept
<1>13. CASE ChangeFile
  <2>1. Op \in Ops /\ Changed(Op) /\ UNCHANGED ledger /\ run.stage = "change" /\ ~RemoveLedger
    BY <1>13, OpMember DEF ChangeFile, At, RemoveLedger
  <2>2. Op \in DOMAIN run.current /\ Op \notin DOMAIN ledger.pre \ DOMAIN run.pre
    <3>1. Forward /\ Changing /\ run.at <= Len(Order)
      BY <1>13, <2>1 DEF ChangeFile, At, Forward, Phase, Changing
    <3> QED
      BY <3>1, EarlierStep DEF PositionInv, ForwardBooks
  <2>3. /\ run'.stage = "settle" /\ run'.current = run.current /\ run'.pre = run.pre
        /\ \A o \in Ops : o # Op => host'[o] = host[o]
    BY <2>1, ChangedFields DEF SameBooks, TypeInv
  <2>4. Forward /\ Forward' /\ Phase # "commit" /\ Phase' # "commit" /\ \A o \in Ops : Held(o) => Held(o)'
    BY <2>1, <2>3 DEF Held, Forward, Phase
  <2>5. PICK x \in Ops : x = Op
    BY <2>1
  <2>6. Held(x)'
    BY <2>2, <2>3, <2>4, <2>5 DEF Held
  <2> QED
    BY <1>h, <2>1, <2>2, <2>3, <2>4, <2>5, <2>6, HeldWrites
<1>14. CASE MoveIn
  <2>1. Op \in Ops /\ Changed(Op) /\ UNCHANGED ledger /\ run.stage = "change" /\ ~RemoveLedger
    BY <1>14, OpMember DEF MoveIn, At, RemoveLedger
  <2>2. Op \in DOMAIN run.current /\ Op \notin DOMAIN ledger.pre \ DOMAIN run.pre
    <3>1. Forward /\ Changing /\ run.at <= Len(Order)
      BY <1>14, <2>1 DEF MoveIn, At, Forward, Phase, Changing
    <3> QED
      BY <3>1, EarlierStep DEF PositionInv, ForwardBooks
  <2>3. /\ run'.stage = "settle" /\ run'.current = run.current /\ run'.pre = run.pre
        /\ \A o \in Ops : o # Op => host'[o] = host[o]
    BY <2>1, ChangedFields DEF SameBooks, TypeInv
  <2>4. Forward /\ Forward' /\ Phase # "commit" /\ Phase' # "commit" /\ \A o \in Ops : Held(o) => Held(o)'
    BY <2>1, <2>3 DEF Held, Forward, Phase
  <2>5. PICK x \in Ops : x = Op
    BY <2>1
  <2>6. Held(x)'
    BY <2>2, <2>3, <2>4, <2>5 DEF Held
  <2> QED
    BY <1>h, <2>1, <2>2, <2>3, <2>4, <2>5, <2>6, HeldWrites
<1>15. CASE ChangeRest
  <2>1. Op \in Ops /\ Changed(Op) /\ UNCHANGED ledger /\ run.stage = "change" /\ ~RemoveLedger
    BY <1>15, OpMember DEF ChangeRest, At, RemoveLedger
  <2>2. Op \in DOMAIN run.current /\ Op \notin DOMAIN ledger.pre \ DOMAIN run.pre
    <3>1. Forward /\ Changing /\ run.at <= Len(Order)
      BY <1>15, <2>1 DEF ChangeRest, At, Forward, Phase, Changing
    <3> QED
      BY <3>1, EarlierStep DEF PositionInv, ForwardBooks
  <2>3. /\ run'.stage = "settle" /\ run'.current = run.current /\ run'.pre = run.pre
        /\ \A o \in Ops : o # Op => host'[o] = host[o]
    BY <2>1, ChangedFields DEF SameBooks, TypeInv
  <2>4. Forward /\ Forward' /\ Phase # "commit" /\ Phase' # "commit" /\ \A o \in Ops : Held(o) => Held(o)'
    BY <2>1, <2>3 DEF Held, Forward, Phase
  <2>5. PICK x \in Ops : x = Op
    BY <2>1
  <2>6. Held(x)'
    BY <2>2, <2>3, <2>4, <2>5 DEF Held
  <2> QED
    BY <1>h, <2>1, <2>2, <2>3, <2>4, <2>5, <2>6, HeldWrites
<1>16. CASE SetAside
  <2>1. /\ Op \in Ops /\ host' = [host EXCEPT ![Op] = Stock] /\ UNCHANGED <<ledger, journal, run>>
        /\ run.stage = "change" /\ ~RemoveLedger
    BY <1>16, OpMember DEF SetAside, At, RemoveLedger
  <2>2. Op \in DOMAIN run.current /\ Op \notin DOMAIN ledger.pre \ DOMAIN run.pre
    <3>1. Forward /\ Changing /\ run.at <= Len(Order)
      BY <1>16, <2>1 DEF SetAside, At, Forward, Phase, Changing
    <3> QED
      BY <3>1, EarlierStep DEF PositionInv, ForwardBooks
  <2>3. \A o \in Ops : o # Op => host'[o] = host[o]
    BY <2>1 DEF TypeInv
  <2>4. Phase # "commit" /\ Phase' = Phase /\ \A o \in Ops : Held(o)' = Held(o)
    BY <2>1 DEF Held, Forward, Phase
  <2>5. PICK x \in Ops : x = Op
    BY <2>1
  <2>6. Forward /\ Forward' /\ Held(x)'
    BY <2>1, <2>2, <2>5 DEF Held, Forward, Phase
  <2> QED
    BY <1>h, <2>1, <2>2, <2>3, <2>4, <2>5, <2>6, HeldWrites
<1>17. CASE ChangeHalf
  <2>1. /\ Op \in Ops /\ host' = [host EXCEPT ![Op] = Half] /\ UNCHANGED <<ledger, journal, run>>
        /\ run.stage = "change" /\ ~RemoveLedger
    BY <1>17, OpMember DEF ChangeHalf, At, RemoveLedger
  <2>2. Op \in DOMAIN run.current /\ Op \notin DOMAIN ledger.pre \ DOMAIN run.pre
    <3>1. Forward /\ Changing /\ run.at <= Len(Order)
      BY <1>17, <2>1 DEF ChangeHalf, At, Forward, Phase, Changing
    <3> QED
      BY <3>1, EarlierStep DEF PositionInv, ForwardBooks
  <2>3. \A o \in Ops : o # Op => host'[o] = host[o]
    BY <2>1 DEF TypeInv
  <2>4. Phase # "commit" /\ Phase' = Phase /\ \A o \in Ops : Held(o)' = Held(o)
    BY <2>1 DEF Held, Forward, Phase
  <2>5. PICK x \in Ops : x = Op
    BY <2>1
  <2>6. Forward /\ Forward' /\ Held(x)'
    BY <2>1, <2>2, <2>5 DEF Held, Forward, Phase
  <2> QED
    BY <1>h, <2>1, <2>2, <2>3, <2>4, <2>5, <2>6, HeldWrites
<1>18. CASE Settle
  <2>1. InHand /\ UNCHANGED <<host, ledger>> /\ run.stage = "settle" /\ ~RemoveLedger
    BY <1>18 DEF Settle, At, PositionInv, Changing, InHand, RemoveLedger
  <2>2. DOMAIN run.pre \subseteq DOMAIN run'.pre /\ run'.current = run.current /\ run'.stage = "apply"
    BY <1>18, <2>1, SettleFields DEF Over
  <2>3. /\ Phase # "commit" /\ Phase' # "commit" /\ Forward
        /\ \A o \in Ops : Held(o) => Held(o)'
    BY <2>1, <2>2 DEF Held, Forward, Phase
  <2> QED
    BY <1>h, <2>1, <2>2, <2>3, HeldKept
<1>19. CASE RetireChanged
  <2>1. run.stage = "apply" /\ run.at <= Len(Order) /\ run' = GaveUp /\ UNCHANGED <<host, ledger>> /\ ~RemoveLedger
    BY <1>19 DEF RetireChanged, At, RemoveLedger
  <2>2. Op \in Bundles /\ Op \in DOMAIN run.pre /\ Op \in Ops
    BY <1>19, <2>1, OpMember DEF RetireChanged, Superseded
  <2>p. Clean => host[Op] = run.pre[Op]
    BY <1>19, <2>1, <2>2 DEF RetireChanged, Drifted, CleanInv, CleanBundles, BookPre, BookOut, Bookkeeping,
       Installing, Phase, InstallPhases
  <2>3. PICK x \in Ops : x = Op
    BY <2>2
  <2>4. ~LeftToUs(x)
    <3>1. CASE ~Clean
      BY <2>2, <2>3, <3>1, Sets DEF LeftToUs, Careful, Clean
    <3>2. CASE Clean
      <4>1. host[x] \in Content /\ host[x] = run.pre[x]
        BY <2>3, <3>2, <2>p DEF TypeInv
      <4>2. host[x] \in Package => x \in hist.kept
        BY <2>1, <2>2, <2>3, <3>2, <4>1 DEF CleanInv, CleanBundles, BookPre, Bookkeeping, Installing, Phase, InstallPhases
      <4>3. host[x] # Half
        BY <2>2, <2>3, Sets DEF WholeInv, HostWhole
      <4> QED
        BY <4>2, <4>3 DEF LeftToUs, OfPackage, Given
    <3> QED
      BY <3>1, <3>2
  <2>5. \A o \in Ops : LeftToUs(o)' => LeftToUs(o)
    BY <1>h, <2>1, CarefulStays DEF LeftToUs, OfPackage
  <2>6. /\ run'.current = run.current /\ run'.stage = "apply"
        /\ DOMAIN run'.pre = DOMAIN run.pre \ {x}
    BY <2>1, <2>3, GaveUpFields
  <2>7. Forward /\ Phase # "commit" /\ Phase' # "commit" /\ \A o \in Ops : Held(o) => Held(o)'
    BY <2>1, <2>6 DEF Held, Forward, Phase
  <2> QED
    BY <2>1, <2>4, <2>5, <2>6, <2>7 DEF HeldInv
<1>20. CASE Retired
  <2>1. run.stage = "retired" /\ run.at <= Len(Order) /\ run' = GaveUp /\ UNCHANGED <<host, ledger>> /\ ~RemoveLedger
    BY <1>20 DEF Retired, At, RemoveLedger
  <2>2. Op \in Bundles /\ Op \in DOMAIN run.pre /\ Op \in Ops
    BY <1>20, <2>1, OpMember DEF PositionInv, Retiring
  <2>p. Clean => host[Op] = run.pre[Op]
    BY <2>1 DEF CleanInv, CleanWork
  <2>3. PICK x \in Ops : x = Op
    BY <2>2
  <2>4. ~LeftToUs(x)
    <3>1. CASE ~Clean
      BY <2>2, <2>3, <3>1, Sets DEF LeftToUs, Careful, Clean
    <3>2. CASE Clean
      <4>1. host[x] \in Content /\ host[x] = run.pre[x]
        BY <2>3, <3>2, <2>p DEF TypeInv
      <4>2. host[x] \in Package => x \in hist.kept
        BY <2>1, <2>2, <2>3, <3>2, <4>1 DEF CleanInv, CleanBundles, BookPre, Bookkeeping, Installing, Phase, InstallPhases
      <4>3. host[x] # Half
        BY <2>2, <2>3, Sets DEF WholeInv, HostWhole
      <4> QED
        BY <4>2, <4>3 DEF LeftToUs, OfPackage, Given
    <3> QED
      BY <3>1, <3>2
  <2>5. \A o \in Ops : LeftToUs(o)' => LeftToUs(o)
    BY <1>h, <2>1, CarefulStays DEF LeftToUs, OfPackage
  <2>6. /\ run'.current = run.current /\ run'.stage = "apply"
        /\ DOMAIN run'.pre = DOMAIN run.pre \ {x}
    BY <2>1, <2>3, GaveUpFields
  <2>7. Forward /\ Phase # "commit" /\ Phase' # "commit" /\ \A o \in Ops : Held(o) => Held(o)'
    BY <2>1, <2>6 DEF Held, Forward, Phase
  <2> QED
    BY <2>1, <2>4, <2>5, <2>6, <2>7 DEF HeldInv
<1>21. CASE Retire
  <2>1. UNCHANGED <<host, ledger>> /\ ~RemoveLedger
    BY <1>21 DEF Retire, At, Undoing, RemoveLedger
  <2>2. /\ Phase # "commit" /\ Phase' # "commit"
        /\ \A o \in Ops : Held(o) => Held(o)'
        /\ Forward' => Forward /\ run'.pre = run.pre
    BY <1>21, GotoFields, StageNames DEF Held, Forward, Phase, Retire, At, SameBooks
  <2> QED
    BY <1>h, <2>1, <2>2, HeldKept
<1>22. CASE RestoreRetired
  <2>1. /\ Goto("retired") /\ host' = [host EXCEPT ![Op] = run.pre[Op]] /\ UNCHANGED <<ledger, journal>>
        /\ run.stage = "retire" /\ ~RemoveLedger /\ Op \in Ops /\ run.at <= Len(Order)
    BY <1>22, OpMember DEF RestoreRetired, At, RemoveLedger
  <2>2. Op \in DOMAIN run.pre /\ Op \in DOMAIN ledger.pre
    BY <2>1, EarlierStep DEF PositionInv, Retiring, ForwardBooks, Forward, Phase
  <2>3. run'.stage = "retired" /\ run'.current = run.current /\ run'.pre = run.pre
    BY <2>1, GotoFields, StageNames DEF SameBooks
  <2>4. \A o \in Ops : o # Op => OfPackage(o)' = OfPackage(o)
    BY <2>1 DEF TypeInv, OfPackage
  <2>5. Forward /\ Phase # "commit" /\ Phase' # "commit" /\ \A o \in Ops : Held(o) => Held(o)'
    BY <2>1, <2>3 DEF Held, Forward, Phase
  <2> QED
    BY <1>h, <2>1, <2>2, <2>3, <2>4, <2>5, HeldFrame
<1>23. CASE DiscardReplaced
  <2>1. run.stage = "finish" /\ UNCHANGED <<host, ledger, journal, hist>> /\ ~RemoveLedger
    BY <1>23 DEF DiscardReplaced, RemoveLedger
  <2>s. \A o \in Ops : LeftToUs(o)' => LeftToUs(o)
    BY <1>h, <2>1, CarefulStays DEF LeftToUs, OfPackage
  <2>2. Phase' = "commit" /\ ~Forward' /\ run'.pre = run.pre
    BY <1>23, GotoFields, StageNames DEF DiscardReplaced, SameBooks, Phase, Forward
  <2>3. Phase = "finish" /\ Forward /\ DOMAIN run.current \subseteq DOMAIN run.pre
    BY <2>1 DEF PositionInv, ForwardBooks, Working, Changing, Forward, Phase
  <2>4. \A o \in Ops : LeftToUs(o) => o \in DOMAIN run.pre
    BY <2>3 DEF HeldInv, Held
  <2>5. LeftToUs(Rockchip) /\ ~hist.retired => Rockchip \in DOMAIN ledger.pre \cup DOMAIN journal.pre
    BY <2>3, Sets DEF HeldInv, Held, JournalInv, Tries
  <2> QED
    BY <2>1, <2>2, <2>4, <2>5, <2>s DEF HeldInv
<1>24. CASE Commit
  <2>1. run.stage = "commit" /\ UNCHANGED host /\ ~RemoveLedger /\ ledger'.pre = run.pre
    BY <1>24 DEF Commit, RemoveLedger
  <2>s. \A o \in Ops : LeftToUs(o)' => LeftToUs(o)
    BY <1>h, <2>1, CarefulStays DEF LeftToUs, OfPackage
  <2>2. Phase' = "clear" /\ ~Forward'
    BY <1>24, GotoFields, StageNames DEF Commit, Phase, Forward
  <2>3. \A o \in Ops : LeftToUs(o) => o \in DOMAIN run.pre
    BY <2>1 DEF HeldInv, Phase
  <2> QED
    BY <2>1, <2>2, <2>3, <2>s DEF HeldInv
<1>25. CASE ClearCommitted
  <2>1. UNCHANGED <<host, ledger>> /\ ~RemoveLedger
    BY <1>25 DEF ClearCommitted, At, Undoing, RemoveLedger
  <2>2. /\ Phase # "commit" /\ Phase' # "commit"
        /\ \A o \in Ops : Held(o) => Held(o)'
        /\ Forward' => Forward /\ run'.pre = run.pre
    BY <1>25, IdleFields DEF Held, Forward, Phase, ClearCommitted, Finish
  <2> QED
    BY <1>h, <2>1, <2>2, HeldKept
<1>26. CASE UndoNext
  <2>1. /\ UNCHANGED <<ledger, journal>> /\ ~RemoveLedger /\ run' = [run EXCEPT !.pending = Requested(NextToUndo)]
        /\ RestoreStep(NextToUndo, Preimages[NextToUndo]) /\ run.stage \in {"undo", "recover"}
    BY <1>26 DEF UndoNext, Undoing, RemoveLedger
  <2>2. NextToUndo \in run.todo /\ NextToUndo \in Ops /\ Preimages[NextToUndo] \in Content
    BY <1>26, NextToUndoFacts DEF UndoNext
  <2>3. run'.stage = run.stage /\ run'.todo = run.todo /\ run'.pre = run.pre
    BY <2>1, RequestedFields DEF SameBooks
  <2>4. \A o \in Ops : o # NextToUndo => OfPackage(o)' = OfPackage(o)
    BY <2>1, <2>2, RestoreStepTypes DEF OfPackage
  <2>5. ~Forward' /\ Phase # "commit" /\ Phase' # "commit" /\ \A o \in Ops : Held(o) => Held(o)'
    BY <2>1, <2>3 DEF Held, Forward, Phase
  <2>6. PICK x \in Ops : x = NextToUndo
    BY <2>2
  <2>7. Held(x)' /\ ~Forward
    BY <2>1, <2>2, <2>3, <2>6 DEF Held, Forward, Phase
  <2> QED
    BY <1>h, <2>1, <2>3, <2>4, <2>5, <2>6, <2>7, HeldFrame
<1>27. CASE Undid
  <2>1. UNCHANGED <<host, ledger>> /\ ~RemoveLedger /\ run.stage \in {"undo", "recover"}
    BY <1>27 DEF Undid, Undoing, RemoveLedger
  <2>s. \A o \in Ops : LeftToUs(o)' => LeftToUs(o)
    BY <1>h, <2>1, CarefulStays DEF LeftToUs, OfPackage
  <2> DEFINE o == NextToUndo
             p == Preimages[o]
  <2>2. /\ o \in run.todo /\ o \in Ops /\ o \in DOMAIN Preimages /\ p \in Content
        /\ run.stage = "undo" => Preimages = run.current
        /\ run.stage = "recover" => Preimages = journal.pre
    BY <1>27, NextToUndoFacts DEF Undid
  <2>3. p \in Ours /\ Careful(o) => Anchored(o)
    BY <2>1, <2>2 DEF AnchorInv, Backed, InProgress, Phase
  <2>4. o \in Packaged => p # Half /\ p # Edited /\ host[o] # Half
    BY <2>1, <2>2 DEF WholeInv, BooksWhole, DiskWhole, Whole, HostWhole
  <2>5. Matches(o, p) \/ Missing(o, p)
    BY <1>27 DEF Undid
  <2>6. OfPackage(o) => p \in Ours
    <3>1. CASE o \in Packaged /\ p # Stock
      BY <2>2, <2>4, <3>1, PackageContent DEF Ours
    <3>2. CASE ~(o \in Packaged /\ p # Stock)
      BY <2>5, <3>2 DEF Matches, Missing, OfPackage, Ours
    <3> QED
      BY <3>1, <3>2
  <2>7. LeftToUs(o) => o \in DOMAIN ledger.pre
    BY <2>3, <2>6 DEF LeftToUs, Anchored
  <2>8. run'.stage = run.stage /\ run'.todo = run.todo \ {o}
    BY <1>27, UndidFields
  <2>9. ~Forward' /\ Phase # "commit" /\ Phase' # "commit" /\ \A x \in Ops : Held(x) => Held(x)' \/ x = o
    BY <2>1, <2>8 DEF Held, Forward, Phase
  <2> HIDE DEF o, p
  <2> QED
    BY <2>1, <2>7, <2>9, <2>s DEF HeldInv
<1>28. CASE Undone
  <2>1. run.stage = "undone" /\ UNCHANGED <<host, ledger>> /\ ~RemoveLedger
    BY <1>28 DEF Undone, RemoveLedger
  <2>s. \A o \in Ops : LeftToUs(o)' => LeftToUs(o)
    BY <1>h, <2>1, CarefulStays DEF LeftToUs, OfPackage
  <2>2. \A o \in Ops : LeftToUs(o) => o \in DOMAIN ledger.pre
    BY <2>1 DEF HeldInv, Held, Forward, Phase
  <2>3. ~Forward' /\ (Phase' = "commit" => run'.pre = ledger.pre)
    BY <1>28, UndoneFields, IdleFields DEF Forward, Phase
  <2> QED
    BY <2>1, <2>2, <2>3, <2>s DEF HeldInv
<1>29. CASE Preserve
  <2>1. UNCHANGED <<host, ledger>> /\ ~RemoveLedger
    BY <1>29 DEF Preserve, At, Undoing, RemoveLedger
  <2>2. /\ Phase # "commit" /\ Phase' # "commit"
        /\ \A o \in Ops : Held(o) => Held(o)'
        /\ Forward' => Forward /\ run'.pre = run.pre
    BY <1>29, TodoFields DEF Held, Forward, Phase, Preserve, TypeInv, IsRun
  <2> QED
    BY <1>h, <2>1, <2>2, HeldKept
<1>30. CASE Restore
  <2>1. UNCHANGED <<host, ledger>> /\ ~RemoveLedger
    BY <1>30 DEF Restore, At, Undoing, RemoveLedger
  <2>2. /\ Phase # "commit" /\ Phase' # "commit"
        /\ \A o \in Ops : Held(o) => Held(o)'
        /\ Forward' => Forward /\ run'.pre = run.pre
    BY <1>30, GotoFields, StageNames DEF Held, Forward, Phase, Restore
  <2> QED
    BY <1>h, <2>1, <2>2, HeldKept
<1>31. CASE Reverted
  <2>1. UNCHANGED <<host, ledger>> /\ ~RemoveLedger
    BY <1>31 DEF Reverted, At, Undoing, RemoveLedger
  <2>2. /\ Phase # "commit" /\ Phase' # "commit"
        /\ \A o \in Ops : Held(o) => Held(o)'
        /\ Forward' => Forward /\ run'.pre = run.pre
    BY <1>31, TodoFields, StageNames DEF Held, Forward, Phase, Reverted
  <2> QED
    BY <1>h, <2>1, <2>2, HeldKept
<1>32. CASE Revert
  <2>1. /\ UNCHANGED ledger /\ ~RemoveLedger /\ run' = [run EXCEPT !.pending = Requested(NextToRestore)]
        /\ RestoreStep(NextToRestore, ledger.pre[NextToRestore]) /\ run.stage = "revert"
    BY <1>32 DEF Revert, RemoveLedger
  <2>2. NextToRestore \in Ops /\ NextToRestore \in DOMAIN ledger.pre /\ ledger.pre[NextToRestore] \in Content
    BY <2>1, NextToRestoreFacts DEF ControlInv
  <2>3. run'.stage = "revert"
    BY <2>1, RequestedFields
  <2>4. \A o \in Ops : o # NextToRestore => OfPackage(o)' = OfPackage(o)
    BY <2>1, <2>2, RestoreStepTypes DEF OfPackage
  <2>5. ~Forward' /\ Phase # "commit" /\ Phase' # "commit" /\ \A o \in Ops : ~Held(o)
    BY <2>1, <2>3 DEF Held, Forward, Phase
  <2> QED
    BY <1>h, <2>1, <2>2, <2>4, <2>5, HeldFrame
<1>33. CASE RemoveLedger
  <2>1. hist'.kept = {o \in Ops : OfPackage(o)} /\ UNCHANGED host
    BY <1>33, RemoveFields DEF RemoveLedger, OfPackage
  <2>2. \A o \in Ops : OfPackage(o)' => o \in hist'.kept
    BY <2>1 DEF OfPackage
  <2> QED
    BY <2>2 DEF HeldInv, LeftToUs, Given
<1>34. CASE Raise
  <2>1. UNCHANGED <<host, ledger>> /\ ~RemoveLedger /\ Forward /\ Phase # "commit" /\ Phase # "idle"
    BY <1>34 DEF Raise, Applying, At, RemoveLedger, Forward, Phase
  <2>2. Phase' = "undo" /\ run'.todo = DOMAIN run.current
    BY <1>34, RaiseFields DEF RaiseRun, Phase
  <2>3. ~Forward' /\ \A o \in Ops : Held(o) => Held(o)'
    BY <2>1, <2>2 DEF Held, Forward
  <2> QED
    BY <1>h, <2>1, <2>2, <2>3, HeldKept
<1>35. CASE UndoFails
  <2>1. /\ UNCHANGED <<host, journal>> /\ ~RemoveLedger /\ run' = IdleRun
        /\ ledger'.pre = Over(run.current, ledger.pre) /\ Phase \in {"undo", "undone"}
    BY <1>35 DEF UndoFails, RemoveLedger, Phase
  <2>2. DOMAIN ledger'.pre = DOMAIN run.current \cup DOMAIN ledger.pre
    BY <2>1 DEF Over
  <2>3. Phase' = "idle" /\ ~Forward'
    BY <2>1, IdleFields DEF Phase, Forward
  <2>4. Phase = "undo" => run.stage = "undo"
    BY DEF Phase, TypeInv, IsRun, Targets
  <2>5. \A o \in Ops : Held(o) => o \in DOMAIN run.current
    BY <2>1, <2>4 DEF Held, Forward, ControlInv
  <2>6. \A o \in Ops : OfPackage(o)' = OfPackage(o)
    BY <2>1 DEF OfPackage
  <2> QED
    BY <1>h, <2>1, <2>2, <2>3, <2>5, <2>6, HeldFrame
<1>36. CASE RecoveryFails
  <2>1. /\ UNCHANGED <<host, ledger, journal>> /\ ~RemoveLedger /\ run' = IdleRun
        /\ Phase \in {"recover", "enter"} /\ (Phase = "recover" => run.stage = "recover")
    BY <1>36 DEF RecoveryFails, RemoveLedger, Phase, TypeInv, IsRun, Targets
  <2>2. Phase' = "idle" /\ ~Forward'
    BY <2>1, IdleFields DEF Phase, Forward
  <2>3. \A o \in Ops : Held(o) => Held(o)'
    BY <2>1, <2>2 DEF Held, Forward, ControlInv
  <2> QED
    BY <1>h, <2>1, <2>2, <2>3, HeldKept
<1>37. CASE LastRestartFails
  <2>1. UNCHANGED <<host, ledger>> /\ ~RemoveLedger
    BY <1>37 DEF LastRestartFails, At, Undoing, RemoveLedger
  <2>2. /\ Phase # "commit" /\ Phase' # "commit"
        /\ \A o \in Ops : Held(o) => Held(o)'
        /\ Forward' => Forward /\ run'.pre = run.pre
    BY <1>37, IdleFields DEF Held, Forward, Phase, LastRestartFails, Finish
  <2> QED
    BY <1>h, <2>1, <2>2, HeldKept
<1>38. CASE UninstallFailed
  <2>1. UNCHANGED <<host, ledger>> /\ ~RemoveLedger
    BY <1>38 DEF UninstallFailed, At, Undoing, RemoveLedger
  <2>2. /\ Phase # "commit" /\ Phase' # "commit"
        /\ \A o \in Ops : Held(o) => Held(o)'
        /\ Forward' => Forward /\ run'.pre = run.pre
    BY <1>38, IdleFields DEF Held, Forward, Phase, UninstallFailed, Finish
  <2> QED
    BY <1>h, <2>1, <2>2, HeldKept
<1>39. CASE Kill
  <2>1. UNCHANGED <<host, ledger, journal>> /\ run' = IdleRun /\ ~RemoveLedger
    BY <1>39, KillFields, RemoveFields DEF Kill
  <2>2. Phase' = "idle" /\ ~Forward'
    BY <2>1, IdleFields DEF Phase, Forward
  <2>s. \A o \in Ops : LeftToUs(o)' => LeftToUs(o)
    BY <1>h, <2>1, CarefulStays DEF LeftToUs, OfPackage
  <2>3. \A o \in Ops : LeftToUs(o)' => o = Rockchip /\ ~hist.retired
    BY <1>h, <1>39, KillFields DEF LeftToUs, Careful, HistoryGrows
  <2>4. ASSUME LeftToUs(Rockchip), ~hist.retired PROVE Rockchip \in DOMAIN ledger.pre \cup DOMAIN journal.pre
    <3>1. CASE Phase = "commit"
      BY <2>4, <3>1, Sets DEF HeldInv
    <3>2. CASE Phase # "commit" /\ ~Held(Rockchip)
      BY <2>4, <3>2, Sets DEF HeldInv
    <3>3. CASE Held(Rockchip) /\ Forward
      <4>1. Rockchip \in DOMAIN run.current
        BY <3>3 DEF Held, Forward
      <4>2. Tries \/ Changing \/ Retiring
        BY <3>3 DEF Forward, Phase, Tries, Changing, Retiring, TypeInv, IsRun, Targets
      <4> QED
        BY <2>4, <4>1, <4>2 DEF JournalInv
    <3>4. CASE Held(Rockchip) /\ Phase = "idle"
      BY <3>4 DEF Held, Forward
    <3>5. CASE Held(Rockchip) /\ Phase = "recover"
      <4>1. run.stage = "recover"
        BY <3>5 DEF Phase, TypeInv, IsRun, Targets
      <4> QED
        BY <3>5, <4>1 DEF Held, Forward, ControlInv
    <3>6. CASE Held(Rockchip) /\ Phase = "undo"
      <4>1. run.stage = "undo" /\ Rockchip \in DOMAIN run.current
        BY <3>6 DEF Held, Forward, ControlInv, Phase, TypeInv, IsRun, Targets
      <4>2. run.current # Nothing
        BY <4>1, NothingFacts
      <4> QED
        BY <3>6, <4>1, <4>2 DEF JournalInv
    <3> QED
      BY <3>1, <3>2, <3>3, <3>4, <3>5, <3>6 DEF Held
  <2> QED
    BY <2>1, <2>2, <2>3, <2>4, <2>s DEF HeldInv, Held
<1> QED
  BY <1>1, <1>2, <1>3, <1>4, <1>5, <1>6, <1>7, <1>8, <1>9, <1>10, <1>11, <1>12, <1>13, <1>14, <1>15, <1>16, <1>17, <1>18, <1>19, <1>20, <1>21, <1>22, <1>23, <1>24, <1>25, <1>26, <1>27, <1>28, <1>29, <1>30, <1>31, <1>32, <1>33, <1>34, <1>35, <1>36, <1>37, <1>38, <1>39 DEF Command

LEMMA CleanStays == ASSUME HistoryGrows PROVE Clean' => Clean
  BY DEF HistoryGrows, Clean, NothingFailed

LEMMA NotClean == ASSUME hist'.faults # 0 \/ hist'.kills # 0 PROVE ~Clean'
  BY DEF Clean, NothingFailed

\* A failure that the history counts leaves it different, and not clean.
LEMMA FaultCounts ==
    ASSUME TypeInv, NEW missed,
           \/ hist' = [hist EXCEPT !.faults = @ + 1, !.missed = missed]
           \/ hist' = [hist EXCEPT !.faults = @ + 1]
    PROVE  hist'.faults # 0 /\ ~UNCHANGED hist
<1>1. hist.faults \in Nat
  BY DEF TypeInv, IsHistory
<1>2. hist.faults + 1 # 0 /\ hist.faults + 1 # hist.faults
  BY <1>1
<1>3. hist'.faults = hist.faults + 1
  BY DEF TypeInv, IsHistory
<1> QED
  BY <1>2, <1>3

LEMMA NoFault ==
    ASSUME TypeInv, UNCHANGED hist
    PROVE  /\ hist' # [hist EXCEPT !.faults = @ + 1]
           /\ \A missed : hist' # [hist EXCEPT !.faults = @ + 1, !.missed = missed]
  BY FaultCounts

LEMMA FailedCounts ==
    ASSUME TypeInv, NEW how, hist' = [Failed(how) EXCEPT !.missed = TRUE] PROVE hist'.faults # 0
<1>1. hist.faults \in Nat
  BY DEF TypeInv, IsHistory
<1>2. hist.faults + 1 # 0
  BY <1>1
<1>3. hist'.faults = hist.faults + 1
  BY DEF TypeInv, IsHistory, Failed
<1> QED
  BY <1>2, <1>3

LEMMA NothingToUndo == ASSUME ControlInv, CleanStages, Undoing, run.todo # {} PROVE ~Clean
<1>1. CASE run.stage = "recover"
  <2>1. DOMAIN journal.pre # {}
    BY <1>1 DEF ControlInv
  <2> QED
    BY <1>1, <2>1, NothingFacts DEF CleanStages, Phase
<1> QED
  BY <1>1 DEF Undoing, CleanStages, Phase

LEMMA CleanStagesFrame ==
    ASSUME HistoryGrows, CleanStages,
           Clean => Phase' \notin {"undo", "undone", "failed"},
           Clean => (Phase' \in {"idle", "recover"} => journal'.pre = Nothing)
    PROVE  CleanStages'
  BY CleanStays DEF CleanStages

LEMMA CleanStagesStep ==
    ASSUME BookInv, WholeInv, JournalInv, RecordInv, Begin \/ Command \/ Kill PROVE CleanStages'
<1> USE DEF BookInv, RecordInv, CleanInv
<1>h. HistoryGrows
  BY HistoryStep
<1>1. CASE Begin
  <2>1. Phase = "idle" /\ Phase' = "recover" /\ journal' = journal
    BY <1>1, BeginFields, BeginStage DEF Begin, Phase
  <2> QED
    BY <1>h, <2>1, CleanStagesFrame DEF CleanStages
<1>2. CASE Recovered
  <2>1. Phase' \notin {"idle", "recover", "undo", "undone", "failed"} \/ ~Clean
    BY <1>2, FlushFields DEF Phase, CleanStages, Recovered, Targets
  <2> QED
    BY <1>h, <2>1, CleanStagesFrame
<1>3. CASE FlushBeforeRetirement
  <2>1. Phase' \notin {"idle", "recover", "undo", "undone", "failed"} \/ ~Clean
    BY <1>3, FlushFields DEF Phase, CleanStages, FlushBeforeRetirement, Targets
  <2> QED
    BY <1>h, <2>1, CleanStagesFrame
<1>4. CASE AllApplied
  <2>1. Phase' \notin {"idle", "recover", "undo", "undone", "failed"} \/ ~Clean
    BY <1>4, FlushFields DEF Phase, CleanStages, AllApplied, Targets
  <2> QED
    BY <1>h, <2>1, CleanStagesFrame
<1>5. CASE AllRestored
  <2>1. Phase' \notin {"idle", "recover", "undo", "undone", "failed"} \/ ~Clean
    BY <1>5, FlushFields DEF Phase, CleanStages, AllRestored, Targets
  <2> QED
    BY <1>h, <2>1, CleanStagesFrame
<1>6. CASE AllUndone
  <2>1. Phase' \notin {"idle", "recover", "undo", "undone", "failed"} \/ ~Clean
    BY <1>6, FlushFields DEF Phase, CleanStages, AllUndone, Targets
  <2> QED
    BY <1>h, <2>1, CleanStagesFrame
<1>7. CASE Restart
  <2>1. run.stage = "flush" /\ Phase' = Phase /\ journal' = journal
    BY <1>7, RestartFields, GotoFields, StageNames DEF Restart, Phase, TypeInv, IsRun, Targets
  <2> QED
    BY <1>h, <2>1, CleanStagesFrame DEF CleanStages
<1>8. CASE Flushed
  <2>1. run.stage = "flush" /\ Phase' = Phase /\ journal' = journal
    BY <1>8, RestartFields, GotoFields, StageNames DEF Flushed, Phase, TypeInv, IsRun, Targets
  <2> QED
    BY <1>h, <2>1, CleanStagesFrame DEF CleanStages
<1>9. CASE Enter
  <2>1. run.stage = "enter" /\ journal' = journal /\ journal.pre = Nothing
    BY <1>9 DEF Enter, JournalInv, Phase
  <2>2. Phase' \notin {"undo", "undone", "failed"}
    BY <1>9, EnterFields, IdleFields DEF EnterInstall, EnterUninstall, Phase
  <2> QED
    BY <1>h, <2>1, <2>2, CleanStagesFrame
<1>10. CASE SkipOperation
  <2>1. Phase' \notin {"idle", "recover", "undo", "undone", "failed"} \/ ~Clean
    BY <1>10, SkipOperationFields DEF Phase, CleanStages, SkipOperation
  <2> QED
    BY <1>h, <2>1, CleanStagesFrame
<1>11. CASE Capture
  <2>1. Phase' \notin {"idle", "recover", "undo", "undone", "failed"} \/ ~Clean
    BY <1>11, CaptureFields DEF Phase, CleanStages, Capture
  <2> QED
    BY <1>h, <2>1, CleanStagesFrame
<1>12. CASE ChangeFile
  <2>1. Op \in Ops /\ Changed(Op)
    BY <1>12, OpMember DEF ChangeFile, At
  <2>2. Phase' = "settle"
    BY <2>1, ChangedFields DEF Phase
  <2> QED
    BY <1>h, <2>2, CleanStagesFrame
<1>13. CASE MoveIn
  <2>1. Op \in Ops /\ Changed(Op)
    BY <1>13, OpMember DEF MoveIn, At
  <2>2. Phase' = "settle"
    BY <2>1, ChangedFields DEF Phase
  <2> QED
    BY <1>h, <2>2, CleanStagesFrame
<1>14. CASE ChangeRest
  <2>1. Op \in Ops /\ Changed(Op)
    BY <1>14, OpMember DEF ChangeRest, At
  <2>2. Phase' = "settle"
    BY <2>1, ChangedFields DEF Phase
  <2> QED
    BY <1>h, <2>2, CleanStagesFrame
<1>15. CASE SetAside
  <2>1. Phase' \notin {"idle", "recover", "undo", "undone", "failed"} \/ ~Clean
    BY <1>15, ContentFacts DEF Phase, CleanStages, SetAside, At
  <2> QED
    BY <1>h, <2>1, CleanStagesFrame
<1>16. CASE ChangeHalf
  <2>1. Phase' \notin {"idle", "recover", "undo", "undone", "failed"} \/ ~Clean
    BY <1>16, ContentFacts DEF Phase, CleanStages, ChangeHalf, At
  <2> QED
    BY <1>h, <2>1, CleanStagesFrame
<1>17. CASE Settle
  <2>1. InHand
    BY <1>17 DEF Settle, At, PositionInv, Changing, InHand
  <2>2. Phase' = "apply"
    BY <1>17, <2>1, SettleFields DEF Phase
  <2> QED
    BY <1>h, <2>2, CleanStagesFrame
<1>18. CASE RetireChanged
  <2>1. Phase' \notin {"idle", "recover", "undo", "undone", "failed"} \/ ~Clean
    BY <1>18, GaveUpFields DEF Phase, CleanStages, RetireChanged, At
  <2> QED
    BY <1>h, <2>1, CleanStagesFrame
<1>19. CASE Retired
  <2>1. Phase' \notin {"idle", "recover", "undo", "undone", "failed"} \/ ~Clean
    BY <1>19, GaveUpFields DEF Phase, CleanStages, Retired, At
  <2> QED
    BY <1>h, <2>1, CleanStagesFrame
<1>20. CASE Retire
  <2>1. Phase' \notin {"idle", "recover", "undo", "undone", "failed"} \/ ~Clean
    BY <1>20, GotoFields, StageNames DEF Phase, CleanStages, Retire
  <2> QED
    BY <1>h, <2>1, CleanStagesFrame
<1>21. CASE RestoreRetired
  <2>1. Phase' \notin {"idle", "recover", "undo", "undone", "failed"} \/ ~Clean
    BY <1>21, GotoFields, StageNames DEF Phase, CleanStages, RestoreRetired
  <2> QED
    BY <1>h, <2>1, CleanStagesFrame
<1>22. CASE DiscardReplaced
  <2>1. Phase' \notin {"idle", "recover", "undo", "undone", "failed"} \/ ~Clean
    BY <1>22, GotoFields, StageNames DEF Phase, CleanStages, DiscardReplaced
  <2> QED
    BY <1>h, <2>1, CleanStagesFrame
<1>23. CASE Commit
  <2>1. Phase' \notin {"idle", "recover", "undo", "undone", "failed"} \/ ~Clean
    BY <1>23, GotoFields, StageNames DEF Phase, CleanStages, Commit
  <2> QED
    BY <1>h, <2>1, CleanStagesFrame
<1>24. CASE Restore
  <2>1. Phase' \notin {"idle", "recover", "undo", "undone", "failed"} \/ ~Clean
    BY <1>24, GotoFields, StageNames DEF Phase, CleanStages, Restore
  <2> QED
    BY <1>h, <2>1, CleanStagesFrame
<1>25. CASE ClearCommitted
  <2>1. journal'.pre = Nothing /\ Phase' = "idle"
    BY <1>25, NoJournalType, IdleFields DEF ClearCommitted, Finish, Phase
  <2> QED
    BY <1>h, <2>1, CleanStagesFrame
<1>26. CASE UndoNext
  <2>1. ~Clean
    BY <1>26, NothingToUndo DEF UndoNext
  <2> QED
    BY <1>h, <2>1, CleanStagesFrame
<1>27. CASE Undid
  <2>1. ~Clean
    BY <1>27, NothingToUndo DEF Undid
  <2> QED
    BY <1>h, <2>1, CleanStagesFrame
<1>28. CASE Undone
  <2>1. ~Clean
    BY <1>28 DEF Undone, CleanStages, Phase
  <2> QED
    BY <1>h, <2>1, CleanStagesFrame
<1>29. CASE Preserve
  <2>1. Phase' \notin {"idle", "recover", "undo", "undone", "failed"} \/ ~Clean
    BY <1>29, TodoFields DEF Phase, CleanStages, Preserve, TypeInv, IsRun
  <2> QED
    BY <1>h, <2>1, CleanStagesFrame
<1>30. CASE Reverted
  <2>1. Phase' \notin {"idle", "recover", "undo", "undone", "failed"} \/ ~Clean
    BY <1>30, TodoFields, StageNames DEF Phase, CleanStages, Reverted
  <2> QED
    BY <1>h, <2>1, CleanStagesFrame
<1>31. CASE Revert
  <2>1. run' = [run EXCEPT !.pending = Requested(NextToRestore)] /\ run.stage = "revert"
    BY <1>31 DEF Revert
  <2>2. Phase' = "revert"
    BY <2>1, RequestedFields DEF Phase
  <2> QED
    BY <1>h, <2>2, CleanStagesFrame
<1>32. CASE RemoveLedger
  <2>1. journal' = journal /\ journal.pre = Nothing /\ Phase' = "idle"
    BY <1>32, IdleFields DEF RemoveLedger, JournalInv, Phase
  <2> QED
    BY <1>h, <2>1, CleanStagesFrame
<1>33. CASE Raise
  <2>1. CASE UNCHANGED hist
    <3>1. Contradicted
      BY <1>33, <2>1, NoFault DEF Raise
    <3>2. ~Clean
      BY <3>1, ContentFacts DEF CleanWork, Contradicted, At
    <3> QED
      BY <1>h, <3>2, CleanStagesFrame
  <2>2. CASE ~UNCHANGED hist
    <3>1. hist' = [hist EXCEPT !.faults = @ + 1, !.missed = @ \/ run.stage = "flush"]
      BY <1>33, <2>2 DEF Raise
    <3>2. ~Clean'
      BY <3>1, FaultCounts, NotClean
    <3> QED
      BY <3>2 DEF CleanStages
  <2> QED
    BY <2>1, <2>2
<1>34. CASE UndoFails
  <2>1. ~Clean
    BY <1>34 DEF UndoFails, CleanStages, Phase
  <2> QED
    BY <1>h, <2>1, CleanStagesFrame
<1>35. CASE RecoveryFails
  <2>1. CASE run.stage = "recover" /\ run.todo # {}
    <3>1. journal.pre # Nothing
      BY <2>1, NothingFacts DEF ControlInv
    <3>2. ~Clean
      BY <2>1, <3>1 DEF CleanStages, Phase
    <3> QED
      BY <1>h, <3>2, CleanStagesFrame
  <2>2. CASE run.stage # "recover"
    <3>1. hist' = [Failed("blocked") EXCEPT !.missed = TRUE]
      BY <1>35, <2>2 DEF RecoveryFails
    <3>2. ~Clean'
      BY <3>1, FailedCounts, NotClean
    <3> QED
      BY <3>2 DEF CleanStages
  <2> QED
    BY <1>35, <2>1, <2>2 DEF RecoveryFails
<1>36. CASE UninstallFails
  <2>1. CASE UNCHANGED hist
    <3>1. NextToRestore \in Packaged /\ Refused(NextToRestore, ledger.pre[NextToRestore])
      BY <1>36, <2>1, NoFault DEF UninstallFails
    <3>2. host[NextToRestore] = Edited
      BY <3>1, Sets DEF Refused
    <3>3. ~Clean
      BY <3>1, <3>2 DEF CleanWork
    <3> QED
      BY <1>h, <3>3, CleanStagesFrame
  <2>2. CASE ~UNCHANGED hist
    <3>1. hist' = [hist EXCEPT !.faults = @ + 1]
      BY <1>36, <2>2 DEF UninstallFails
    <3>2. ~Clean'
      BY <3>1, FaultCounts, NotClean
    <3> QED
      BY <3>2 DEF CleanStages
  <2> QED
    BY <2>1, <2>2
<1>37. CASE LastRestartFails
  <2>1. hist' = [Failed("failed") EXCEPT !.missed = TRUE]
    BY <1>37 DEF LastRestartFails
  <2>2. ~Clean'
    BY <2>1, FailedCounts, NotClean
  <2> QED
    BY <2>2 DEF CleanStages
<1>38. CASE UninstallFailed
  <2>1. ~Clean
    BY <1>38 DEF UninstallFailed, CleanStages, Phase
  <2> QED
    BY <1>h, <2>1, CleanStagesFrame
<1>39. CASE Kill
  <2>1. ~Clean'
    BY <1>39, KillFields, NotClean
  <2> QED
    BY <2>1 DEF CleanStages
<1> QED
  BY <1>1, <1>2, <1>3, <1>4, <1>5, <1>6, <1>7, <1>8, <1>9, <1>10, <1>11, <1>12, <1>13, <1>14, <1>15, <1>16, <1>17, <1>18, <1>19, <1>20, <1>21, <1>22, <1>23, <1>24, <1>25, <1>26, <1>27, <1>28, <1>29, <1>30, <1>31, <1>32, <1>33, <1>34, <1>35, <1>36, <1>37, <1>38, <1>39 DEF Command

CleanPlaces == \A o \in Packaged : host[o] # Edited /\ aside[o] # Edited

LEMMA CleanWorkFrame ==
    ASSUME HistoryGrows, CleanWork, run'.stage \notin {"change", "settle", "retired"},
           Clean /\ CleanPlaces => CleanPlaces'
    PROVE  CleanWork'
  BY CleanStays DEF CleanWork, CleanPlaces

LEMMA CleanWorkStep ==
    ASSUME BookInv, WholeInv, RecordInv, Begin \/ Command \/ Kill PROVE CleanWork'
<1> USE DEF BookInv, RecordInv, CleanInv
<1>h. HistoryGrows
  BY HistoryStep
<1>1. CASE Begin
  <2>1. UNCHANGED <<host, aside>>
    BY <1>1 DEF Begin
  <2>2. run'.stage \notin {"change", "settle", "retired"}
    BY <1>1, BeginFields DEF Begin
  <2> QED
    BY <1>h, <2>1, <2>2, CleanWorkFrame DEF CleanPlaces
<1>2. CASE Recovered
  <2>1. UNCHANGED <<host, aside>>
    BY <1>2 DEF Recovered
  <2>2. run'.stage \notin {"change", "settle", "retired"}
    BY <1>2, FlushFields DEF Recovered, Targets
  <2> QED
    BY <1>h, <2>1, <2>2, CleanWorkFrame DEF CleanPlaces
<1>3. CASE FlushBeforeRetirement
  <2>1. UNCHANGED <<host, aside>>
    BY <1>3 DEF FlushBeforeRetirement
  <2>2. run'.stage \notin {"change", "settle", "retired"}
    BY <1>3, FlushFields DEF FlushBeforeRetirement, Targets
  <2> QED
    BY <1>h, <2>1, <2>2, CleanWorkFrame DEF CleanPlaces
<1>4. CASE AllApplied
  <2>1. UNCHANGED <<host, aside>>
    BY <1>4 DEF AllApplied
  <2>2. run'.stage \notin {"change", "settle", "retired"}
    BY <1>4, FlushFields DEF AllApplied, Targets
  <2> QED
    BY <1>h, <2>1, <2>2, CleanWorkFrame DEF CleanPlaces
<1>5. CASE AllUndone
  <2>1. UNCHANGED <<host, aside>>
    BY <1>5 DEF AllUndone
  <2>2. run'.stage \notin {"change", "settle", "retired"}
    BY <1>5, FlushFields DEF AllUndone, Targets
  <2> QED
    BY <1>h, <2>1, <2>2, CleanWorkFrame DEF CleanPlaces
<1>6. CASE AllRestored
  <2>1. UNCHANGED <<host, aside>>
    BY <1>6 DEF AllRestored
  <2>2. run'.stage \notin {"change", "settle", "retired"}
    BY <1>6, FlushFields DEF AllRestored, Targets
  <2> QED
    BY <1>h, <2>1, <2>2, CleanWorkFrame DEF CleanPlaces
<1>7. CASE UninstallFails
  <2>1. UNCHANGED <<host, aside>>
    BY <1>7 DEF UninstallFails
  <2>2. run'.stage \notin {"change", "settle", "retired"}
    BY <1>7, FlushFields DEF UninstallFails, Targets
  <2> QED
    BY <1>h, <2>1, <2>2, CleanWorkFrame DEF CleanPlaces
<1>8. CASE Restart
  <2>1. UNCHANGED <<host, aside>>
    BY <1>8 DEF Restart
  <2>2. run'.stage \notin {"change", "settle", "retired"}
    BY <1>8, RestartFields DEF Restart
  <2> QED
    BY <1>h, <2>1, <2>2, CleanWorkFrame DEF CleanPlaces
<1>9. CASE Flushed
  <2>1. UNCHANGED <<host, aside>>
    BY <1>9 DEF Flushed
  <2>2. run'.stage \notin {"change", "settle", "retired"}
    BY <1>9, GotoFields, StageNames DEF Flushed, TypeInv, IsRun, Targets
  <2> QED
    BY <1>h, <2>1, <2>2, CleanWorkFrame DEF CleanPlaces
<1>10. CASE Enter
  <2>1. UNCHANGED <<host, aside>>
    BY <1>10 DEF Enter
  <2>2. run'.stage \notin {"change", "settle", "retired"}
    BY <1>10, EnterFields, IdleFields DEF EnterInstall, EnterUninstall
  <2> QED
    BY <1>h, <2>1, <2>2, CleanWorkFrame DEF CleanPlaces
<1>11. CASE SkipOperation
  <2>1. UNCHANGED <<host, aside>>
    BY <1>11 DEF SkipOperation
  <2>2. run'.stage \notin {"change", "settle", "retired"}
    BY <1>11, SkipOperationFields DEF SkipOperation
  <2> QED
    BY <1>h, <2>1, <2>2, CleanWorkFrame DEF CleanPlaces
<1>12. CASE Capture
  <2>1. UNCHANGED host /\ Op \in Ops /\ aside' = IF Op \in Packaged THEN [aside EXCEPT ![Op] = Stock] ELSE aside
    BY <1>12, OpMember DEF Capture, At
  <2>2. run'.stage = "change" /\ Op' = Op /\ run'.current = Over(Only(Op, host[Op]), run.current)
    BY <1>12, CaptureFields, EarlierSame DEF SameWork
  <2>3. run'.current[Op] = host[Op]
    BY <2>2 DEF Over, Only
  <2>4. Op \in Packaged => aside'[Op] = Stock
    BY <2>1 DEF TypeInv
  <2>5. Clean /\ CleanPlaces => CleanPlaces'
    BY <2>1, ContentFacts DEF TypeInv, CleanPlaces
  <2> QED
    BY <1>h, <2>1, <2>2, <2>3, <2>4, <2>5, CleanStays DEF CleanWork, CleanPlaces
<1>13. CASE ChangeFile
  <2>1. Op \in Ops /\ Changed(Op) /\ UNCHANGED aside
    BY <1>13, OpMember DEF ChangeFile, At
  <2>2. run'.stage = "settle" /\ Op' = Op /\ run'.release = run.release /\ host' = [host EXCEPT ![Op] = Desired(Op)]
    BY <2>1, ChangedFields, EarlierSame DEF SameWork
  <2>3. host'[Op] = Desired(Op) /\ Desired(Op)' = Desired(Op)
    BY <2>1, <2>2 DEF TypeInv, Desired
  <2>4. Clean /\ CleanPlaces => CleanPlaces'
    BY <2>1, <2>2, DesiredMember, ContentFacts, Sets DEF TypeInv, CleanPlaces
  <2> QED
    BY <1>h, <2>2, <2>3, <2>4, CleanStays DEF CleanWork, CleanPlaces
<1>14. CASE MoveIn
  <2>1. Op \in Ops /\ Changed(Op) /\ UNCHANGED aside
    BY <1>14, OpMember DEF MoveIn, At
  <2>2. run'.stage = "settle" /\ Op' = Op /\ run'.release = run.release /\ host' = [host EXCEPT ![Op] = Desired(Op)]
    BY <2>1, ChangedFields, EarlierSame DEF SameWork
  <2>3. host'[Op] = Desired(Op) /\ Desired(Op)' = Desired(Op)
    BY <2>1, <2>2 DEF TypeInv, Desired
  <2>4. Clean /\ CleanPlaces => CleanPlaces'
    BY <2>1, <2>2, DesiredMember, ContentFacts, Sets DEF TypeInv, CleanPlaces
  <2> QED
    BY <1>h, <2>2, <2>3, <2>4, CleanStays DEF CleanWork, CleanPlaces
<1>15. CASE ChangeRest
  <2>1. Op \in Ops /\ Changed(Op) /\ UNCHANGED aside
    BY <1>15, OpMember DEF ChangeRest, At
  <2>2. run'.stage = "settle" /\ Op' = Op /\ run'.release = run.release /\ host' = [host EXCEPT ![Op] = Desired(Op)]
    BY <2>1, ChangedFields, EarlierSame DEF SameWork
  <2>3. host'[Op] = Desired(Op) /\ Desired(Op)' = Desired(Op)
    BY <2>1, <2>2 DEF TypeInv, Desired
  <2>4. Clean /\ CleanPlaces => CleanPlaces'
    BY <2>1, <2>2, DesiredMember, ContentFacts, Sets DEF TypeInv, CleanPlaces
  <2> QED
    BY <1>h, <2>2, <2>3, <2>4, CleanStays DEF CleanWork, CleanPlaces
<1>16. CASE SetAside
  <2>1. /\ Op \in Packaged /\ UNCHANGED run /\ run.stage = "change"
        /\ aside' = [aside EXCEPT ![Op] = host[Op]] /\ host' = [host EXCEPT ![Op] = Stock]
    BY <1>16 DEF SetAside, At
  <2>2. Op' = Op /\ host'[Op] = Stock /\ Op \notin Guarded
    BY <2>1, EarlierSame, Sets DEF TypeInv
  <2>3. Clean /\ CleanPlaces => CleanPlaces'
    BY <2>1, ContentFacts, Sets DEF TypeInv, CleanPlaces
  <2> QED
    BY <1>h, <2>1, <2>2, <2>3, CleanStays DEF CleanWork, CleanPlaces
<1>17. CASE ChangeHalf
  <2>1. /\ Op \in Plain /\ UNCHANGED <<run, aside>> /\ run.stage = "change" /\ host' = [host EXCEPT ![Op] = Half]
    BY <1>17 DEF ChangeHalf, At
  <2>2. Op' = Op /\ Op \notin Guarded /\ Op \notin Packaged
    BY <2>1, EarlierSame, Sets
  <2>3. Clean /\ CleanPlaces => CleanPlaces'
    BY <2>1, <2>2, Sets DEF TypeInv, CleanPlaces
  <2> QED
    BY <1>h, <2>1, <2>2, <2>3, CleanStays DEF CleanWork, CleanPlaces
<1>18. CASE Settle
  <2>1. InHand /\ UNCHANGED <<host, aside>>
    BY <1>18 DEF Settle, At, PositionInv, Changing, InHand
  <2>2. run'.stage = "apply"
    BY <1>18, <2>1, SettleFields
  <2> QED
    BY <1>h, <2>1, <2>2, CleanWorkFrame DEF CleanPlaces
<1>19. CASE RetireChanged
  <2>1. UNCHANGED <<host, aside>>
    BY <1>19 DEF RetireChanged
  <2>2. run'.stage \notin {"change", "settle", "retired"}
    BY <1>19, GaveUpFields DEF RetireChanged, At
  <2> QED
    BY <1>h, <2>1, <2>2, CleanWorkFrame DEF CleanPlaces
<1>20. CASE Retired
  <2>1. UNCHANGED <<host, aside>>
    BY <1>20 DEF Retired
  <2>2. run'.stage \notin {"change", "settle", "retired"}
    BY <1>20, GaveUpFields DEF Retired, At
  <2> QED
    BY <1>h, <2>1, <2>2, CleanWorkFrame DEF CleanPlaces
<1>21. CASE Retire
  <2>1. UNCHANGED <<host, aside>>
    BY <1>21 DEF Retire
  <2>2. run'.stage \notin {"change", "settle", "retired"}
    BY <1>21, GotoFields, StageNames DEF Retire
  <2> QED
    BY <1>h, <2>1, <2>2, CleanWorkFrame DEF CleanPlaces
<1>22. CASE Commit
  <2>1. UNCHANGED <<host, aside>>
    BY <1>22 DEF Commit
  <2>2. run'.stage \notin {"change", "settle", "retired"}
    BY <1>22, GotoFields, StageNames DEF Commit
  <2> QED
    BY <1>h, <2>1, <2>2, CleanWorkFrame DEF CleanPlaces
<1>23. CASE Restore
  <2>1. UNCHANGED <<host, aside>>
    BY <1>23 DEF Restore
  <2>2. run'.stage \notin {"change", "settle", "retired"}
    BY <1>23, GotoFields, StageNames DEF Restore
  <2> QED
    BY <1>h, <2>1, <2>2, CleanWorkFrame DEF CleanPlaces
<1>24. CASE RestoreRetired
  <2>1. /\ Goto("retired") /\ UNCHANGED aside /\ host' = [host EXCEPT ![Op] = run.pre[Op]]
        /\ Op \in Ops /\ Op \in Bundles
    BY <1>24, OpMember DEF RestoreRetired, At, PositionInv, Retiring
  <2>2. run'.stage = "retired" /\ Op' = Op /\ run'.pre = run.pre
    BY <2>1, GotoFields, StageNames, EarlierSame DEF SameWork, SameBooks
  <2>3. host'[Op] = run.pre[Op] /\ Op \notin Packaged
    BY <2>1, Sets DEF TypeInv
  <2>4. Clean /\ CleanPlaces => CleanPlaces'
    BY <2>1, <2>3, Sets DEF TypeInv, CleanPlaces
  <2> QED
    BY <1>h, <2>2, <2>3, <2>4, CleanStays DEF CleanWork, CleanPlaces
<1>25. CASE DiscardReplaced
  <2>1. UNCHANGED host /\ aside' = [o \in Packaged |-> Stock] /\ run'.stage = "commit"
    BY <1>25, GotoFields, StageNames DEF DiscardReplaced
  <2> QED
    BY <1>h, <2>1, CleanWorkFrame, ContentFacts DEF CleanPlaces
<1>26. CASE ClearCommitted
  <2>1. UNCHANGED <<host, aside>>
    BY <1>26 DEF ClearCommitted
  <2>2. run'.stage \notin {"change", "settle", "retired"}
    BY <1>26, IdleFields DEF ClearCommitted, Finish
  <2> QED
    BY <1>h, <2>1, <2>2, CleanWorkFrame DEF CleanPlaces
<1>27. CASE RemoveLedger
  <2>1. UNCHANGED <<host, aside>>
    BY <1>27 DEF RemoveLedger
  <2>2. run'.stage \notin {"change", "settle", "retired"}
    BY <1>27, IdleFields DEF RemoveLedger, Finish
  <2> QED
    BY <1>h, <2>1, <2>2, CleanWorkFrame DEF CleanPlaces
<1>28. CASE UndoFails
  <2>1. UNCHANGED <<host, aside>>
    BY <1>28 DEF UndoFails
  <2>2. run'.stage \notin {"change", "settle", "retired"}
    BY <1>28, IdleFields DEF UndoFails, Finish
  <2> QED
    BY <1>h, <2>1, <2>2, CleanWorkFrame DEF CleanPlaces
<1>29. CASE RecoveryFails
  <2>1. UNCHANGED <<host, aside>>
    BY <1>29 DEF RecoveryFails
  <2>2. run'.stage \notin {"change", "settle", "retired"}
    BY <1>29, IdleFields DEF RecoveryFails, Finish
  <2> QED
    BY <1>h, <2>1, <2>2, CleanWorkFrame DEF CleanPlaces
<1>30. CASE LastRestartFails
  <2>1. UNCHANGED <<host, aside>>
    BY <1>30 DEF LastRestartFails
  <2>2. run'.stage \notin {"change", "settle", "retired"}
    BY <1>30, IdleFields DEF LastRestartFails, Finish
  <2> QED
    BY <1>h, <2>1, <2>2, CleanWorkFrame DEF CleanPlaces
<1>31. CASE UninstallFailed
  <2>1. UNCHANGED <<host, aside>>
    BY <1>31 DEF UninstallFailed
  <2>2. run'.stage \notin {"change", "settle", "retired"}
    BY <1>31, IdleFields DEF UninstallFailed, Finish
  <2> QED
    BY <1>h, <2>1, <2>2, CleanWorkFrame DEF CleanPlaces
<1>32. CASE Kill
  <2>1. UNCHANGED <<host, aside>>
    BY <1>32 DEF Kill
  <2>2. run'.stage \notin {"change", "settle", "retired"}
    BY <1>32, IdleFields DEF Kill, Finish
  <2> QED
    BY <1>h, <2>1, <2>2, CleanWorkFrame DEF CleanPlaces
<1>33. CASE UndoNext
  <2>1. ~Clean /\ run' = [run EXCEPT !.pending = Requested(NextToUndo)] /\ run.stage \in {"undo", "recover"}
    BY <1>33, NothingToUndo DEF UndoNext, Undoing
  <2>2. run'.stage = run.stage
    BY <2>1, RequestedFields
  <2> QED
    BY <1>h, <2>1, <2>2, CleanWorkFrame
<1>34. CASE Undid
  <2>1. UNCHANGED <<host, aside>>
    BY <1>34 DEF Undid
  <2>2. run'.stage \notin {"change", "settle", "retired"}
    BY <1>34, UndidFields DEF Undid, Undoing
  <2> QED
    BY <1>h, <2>1, <2>2, CleanWorkFrame DEF CleanPlaces
<1>35. CASE Undone
  <2>1. UNCHANGED <<host, aside>>
    BY <1>35 DEF Undone
  <2>2. run'.stage \notin {"change", "settle", "retired"}
    BY <1>35, UndoneFields, IdleFields DEF Undone
  <2> QED
    BY <1>h, <2>1, <2>2, CleanWorkFrame DEF CleanPlaces
<1>36. CASE Preserve
  <2>1. UNCHANGED <<host, aside>>
    BY <1>36 DEF Preserve
  <2>2. run'.stage \notin {"change", "settle", "retired"}
    BY <1>36, TodoFields DEF Preserve, TypeInv, IsRun
  <2> QED
    BY <1>h, <2>1, <2>2, CleanWorkFrame DEF CleanPlaces
<1>37. CASE Reverted
  <2>1. UNCHANGED <<host, aside>>
    BY <1>37 DEF Reverted
  <2>2. run'.stage \notin {"change", "settle", "retired"}
    BY <1>37, TodoFields, StageNames DEF Reverted
  <2> QED
    BY <1>h, <2>1, <2>2, CleanWorkFrame DEF CleanPlaces
<1>38. CASE Revert
  <2>1. /\ run' = [run EXCEPT !.pending = Requested(NextToRestore)] /\ run.stage = "revert"
        /\ RestoreStep(NextToRestore, ledger.pre[NextToRestore])
    BY <1>38 DEF Revert
  <2>2. run'.stage = "revert"
    BY <2>1, RequestedFields
  <2>3. NextToRestore \in Ops /\ ledger.pre[NextToRestore] \in Content
    BY <2>1, NextToRestoreFacts DEF ControlInv
  <2>4. Clean /\ CleanPlaces => CleanPlaces'
    BY <2>1, <2>3, RestoreStepTypes, ContentFacts, Sets DEF CleanPlaces
  <2> QED
    BY <1>h, <2>2, <2>4, CleanWorkFrame
<1>39. CASE Raise
  <2>1. UNCHANGED <<host, aside>>
    BY <1>39 DEF Raise
  <2>2. run'.stage \notin {"change", "settle", "retired"}
    BY <1>39, RaiseFields DEF RaiseRun
  <2> QED
    BY <1>h, <2>1, <2>2, CleanWorkFrame DEF CleanPlaces
<1> QED
  BY <1>1, <1>2, <1>3, <1>4, <1>5, <1>6, <1>7, <1>8, <1>9, <1>10, <1>11, <1>12, <1>13, <1>14, <1>15, <1>16, <1>17, <1>18, <1>19, <1>20, <1>21, <1>22, <1>23, <1>24, <1>25, <1>26, <1>27, <1>28, <1>29, <1>30, <1>31, <1>32, <1>33, <1>34, <1>35, <1>36, <1>37, <1>38, <1>39 DEF Command

LEMMA CleanBundlesFrame ==
    ASSUME HistoryGrows, ~RemoveLedger, CleanBundles, \A o \in Bundles : host'[o] = host[o],
           BookPre' = BookPre, BookOut' = BookOut, run.stage # "settle"
    PROVE  CleanBundles'
  BY CleanStays DEF CleanBundles, HistoryGrows

LEMMA CleanBundlesStep ==
    ASSUME BookInv, WholeInv, JournalInv, RecordInv, Begin \/ Command \/ Kill PROVE CleanBundles'
<1> USE DEF BookInv, RecordInv, CleanInv
<1>h. HistoryGrows
  BY HistoryStep
<1>1. CASE Begin
  <2>1. UNCHANGED <<host, ledger>> /\ ~RemoveLedger /\ run.stage # "settle"
    BY <1>1, BeginStage DEF Begin
  <2>2. BookPre' = BookPre /\ BookOut' = BookOut
    BY <1>1, BeginFields, BeginStage DEF BookPre, BookOut, Bookkeeping, Installing, Phase, InstallPhases, Begin
  <2> QED
    BY <1>h, <2>1, <2>2, CleanBundlesFrame
<1>2. CASE Recovered
  <2>1. UNCHANGED <<host, ledger>> /\ ~RemoveLedger /\ run.stage # "settle"
    BY <1>2 DEF Recovered, At, Undoing, RemoveLedger
  <2>2. BookPre' = BookPre /\ BookOut' = BookOut
    BY <1>2, FlushFields DEF BookPre, BookOut, Bookkeeping, Installing, Phase, InstallPhases, Recovered, Targets, SameBooks, At
  <2> QED
    BY <1>h, <2>1, <2>2, CleanBundlesFrame
<1>3. CASE FlushBeforeRetirement
  <2>1. UNCHANGED <<host, ledger>> /\ ~RemoveLedger /\ run.stage # "settle"
    BY <1>3 DEF FlushBeforeRetirement, At, Undoing, RemoveLedger
  <2>2. BookPre' = BookPre /\ BookOut' = BookOut
    BY <1>3, FlushFields DEF BookPre, BookOut, Bookkeeping, Installing, Phase, InstallPhases, FlushBeforeRetirement, Targets, SameBooks, At
  <2> QED
    BY <1>h, <2>1, <2>2, CleanBundlesFrame
<1>4. CASE AllApplied
  <2>1. UNCHANGED <<host, ledger>> /\ ~RemoveLedger /\ run.stage # "settle"
    BY <1>4 DEF AllApplied, At, Undoing, RemoveLedger
  <2>2. BookPre' = BookPre /\ BookOut' = BookOut
    BY <1>4, FlushFields DEF BookPre, BookOut, Bookkeeping, Installing, Phase, InstallPhases, AllApplied, Targets, SameBooks, At
  <2> QED
    BY <1>h, <2>1, <2>2, CleanBundlesFrame
<1>5. CASE AllUndone
  <2>1. UNCHANGED <<host, ledger>> /\ ~RemoveLedger /\ run.stage # "settle"
    BY <1>5 DEF AllUndone, At, Undoing, RemoveLedger
  <2>2. BookPre' = BookPre /\ BookOut' = BookOut
    BY <1>5, FlushFields DEF BookPre, BookOut, Bookkeeping, Installing, Phase, InstallPhases, AllUndone, Targets, SameBooks, At
  <2> QED
    BY <1>h, <2>1, <2>2, CleanBundlesFrame
<1>6. CASE AllRestored
  <2>1. UNCHANGED <<host, ledger>> /\ ~RemoveLedger /\ run.stage # "settle"
    BY <1>6 DEF AllRestored, At, Undoing, RemoveLedger
  <2>2. BookPre' = BookPre /\ BookOut' = BookOut
    BY <1>6, FlushFields DEF BookPre, BookOut, Bookkeeping, Installing, Phase, InstallPhases, AllRestored, Targets, SameBooks, At
  <2> QED
    BY <1>h, <2>1, <2>2, CleanBundlesFrame
<1>7. CASE UninstallFails
  <2>1. UNCHANGED <<host, ledger>> /\ ~RemoveLedger /\ run.stage # "settle"
    BY <1>7 DEF UninstallFails, At, Undoing, RemoveLedger
  <2>2. BookPre' = BookPre /\ BookOut' = BookOut
    BY <1>7, FlushFields DEF BookPre, BookOut, Bookkeeping, Installing, Phase, InstallPhases, UninstallFails, Targets, SameBooks, At
  <2> QED
    BY <1>h, <2>1, <2>2, CleanBundlesFrame
<1>8. CASE Restart
  <2>1. UNCHANGED <<host, ledger>> /\ ~RemoveLedger /\ run.stage # "settle"
    BY <1>8 DEF Restart, At, Undoing, RemoveLedger
  <2>2. BookPre' = BookPre /\ BookOut' = BookOut
    BY <1>8, RestartFields DEF BookPre, BookOut, Bookkeeping, Installing, Phase, InstallPhases, Restart, SameBooks
  <2> QED
    BY <1>h, <2>1, <2>2, CleanBundlesFrame
<1>9. CASE Flushed
  <2>1. UNCHANGED <<host, ledger>> /\ ~RemoveLedger /\ run.stage # "settle"
    BY <1>9 DEF Flushed, At, Undoing, RemoveLedger
  <2>2. BookPre' = BookPre /\ BookOut' = BookOut
    BY <1>9, GotoFields, StageNames DEF BookPre, BookOut, Bookkeeping, Installing, Phase, InstallPhases, Flushed, TypeInv, IsRun, Targets, SameBooks
  <2> QED
    BY <1>h, <2>1, <2>2, CleanBundlesFrame
<1>10. CASE Enter
  <2>1. UNCHANGED <<host, ledger>> /\ ~RemoveLedger /\ run.stage # "settle"
    BY <1>10 DEF Enter, At, Undoing, RemoveLedger
  <2>2. BookPre' = BookPre /\ BookOut' = BookOut
    BY <1>10, EnterFields, IdleFields DEF BookPre, BookOut, Bookkeeping, Installing, Phase, InstallPhases, EnterInstall, EnterUninstall, Enter
  <2> QED
    BY <1>h, <2>1, <2>2, CleanBundlesFrame
<1>11. CASE SkipOperation
  <2>1. UNCHANGED <<host, ledger, hist>> /\ run.stage = "apply"
    BY <1>11 DEF SkipOperation, At
  <2>2. /\ run'.stage = "apply"
        /\ run'.out = run.out \/ \E c \in SkipOutcome(Op) : run'.out = Over(Only(Op, c), run.out)
        /\ run'.pre = run.pre \/ (Op \in Packaged /\ run'.pre = Over(run.pre, Only(Op, Stock)))
    BY <1>11, SkipOperationFields
  <2>3. BookPre = run.pre /\ BookOut = run.out /\ BookPre' = run'.pre /\ BookOut' = run'.out
    BY <2>1, <2>2 DEF BookPre, BookOut, Bookkeeping, Installing, Phase, InstallPhases
  <2>4. \A o \in Bundles : (o \in DOMAIN run'.pre <=> o \in DOMAIN run.pre) /\ (o \in DOMAIN run.pre => run'.pre[o] = run.pre[o])
    BY <2>2, Sets DEF Over, Only
  <2>5. Clean /\ Op \in Bundles /\ Op \in DOMAIN run.pre => SkipOutcome(Op) = {}
    <3> SUFFICES ASSUME Clean, Op \in Bundles, Op \in DOMAIN run.pre PROVE SkipOutcome(Op) = {}
      OBVIOUS
    <3>1. /\ Op \in Guarded /\ Op \notin Plain /\ Op \notin Packaged /\ Op # Rockchip /\ Op # Site
      BY Sets
    <3>2. host[Op] # Edited
      BY <2>1, <2>3, <3>1 DEF CleanBundles, WholeInv, BooksWhole, Whole, Unedited
    <3>3. Prerequisite(Op)
      BY <3>1 DEF Prerequisite
    <3> QED
      BY <3>1, <3>2, <3>3 DEF SkipOutcome
  <2>6. Clean => \A o \in Bundles \cap DOMAIN run.pre : o \in DOMAIN run.out => o \in DOMAIN run'.out /\ run'.out[o] = run.out[o]
    BY <2>2, <2>5 DEF Over, Only
  <2> QED
    BY <1>h, <2>1, <2>3, <2>4, <2>6, CleanStays DEF CleanBundles
<1>12. CASE Capture
  <2>1. UNCHANGED <<host, ledger>> /\ ~RemoveLedger /\ run.stage # "settle"
    BY <1>12 DEF Capture, At, Undoing, RemoveLedger
  <2>2. BookPre' = BookPre /\ BookOut' = BookOut
    BY <1>12, CaptureFields DEF BookPre, BookOut, Bookkeeping, Installing, Phase, InstallPhases, Capture, At
  <2> QED
    BY <1>h, <2>1, <2>2, CleanBundlesFrame
<1>13. CASE ChangeFile
  <2>1. Op \in Ops /\ Changed(Op) /\ UNCHANGED <<ledger, hist>> /\ run.stage = "change"
    BY <1>13, OpMember DEF ChangeFile, At
  <2>2. run'.stage = "settle" /\ Op' = Op /\ SameBooks /\ host' = [host EXCEPT ![Op] = Desired(Op)]
    BY <2>1, ChangedFields, EarlierSame DEF SameWork
  <2>3. BookPre' = BookPre /\ BookOut' = BookOut
    BY <2>1, <2>2 DEF BookPre, BookOut, Bookkeeping, Installing, Phase, InstallPhases, SameBooks
  <2>4. \A o \in Bundles : o # Op => host'[o] = host[o]
    BY <2>1, <2>2, Sets DEF TypeInv
  <2> QED
    BY <1>h, <2>1, <2>2, <2>3, <2>4, CleanStays DEF CleanBundles
<1>14. CASE MoveIn
  <2>1. Op \in Ops /\ Changed(Op) /\ UNCHANGED <<ledger, hist>> /\ run.stage = "change"
    BY <1>14, OpMember DEF MoveIn, At
  <2>2. run'.stage = "settle" /\ Op' = Op /\ SameBooks /\ host' = [host EXCEPT ![Op] = Desired(Op)]
    BY <2>1, ChangedFields, EarlierSame DEF SameWork
  <2>3. BookPre' = BookPre /\ BookOut' = BookOut
    BY <2>1, <2>2 DEF BookPre, BookOut, Bookkeeping, Installing, Phase, InstallPhases, SameBooks
  <2>4. \A o \in Bundles : o # Op => host'[o] = host[o]
    BY <2>1, <2>2, Sets DEF TypeInv
  <2> QED
    BY <1>h, <2>1, <2>2, <2>3, <2>4, CleanStays DEF CleanBundles
<1>15. CASE ChangeRest
  <2>1. Op \in Ops /\ Changed(Op) /\ UNCHANGED <<ledger, hist>> /\ run.stage = "change"
    BY <1>15, OpMember DEF ChangeRest, At
  <2>2. run'.stage = "settle" /\ Op' = Op /\ SameBooks /\ host' = [host EXCEPT ![Op] = Desired(Op)]
    BY <2>1, ChangedFields, EarlierSame DEF SameWork
  <2>3. BookPre' = BookPre /\ BookOut' = BookOut
    BY <2>1, <2>2 DEF BookPre, BookOut, Bookkeeping, Installing, Phase, InstallPhases, SameBooks
  <2>4. \A o \in Bundles : o # Op => host'[o] = host[o]
    BY <2>1, <2>2, Sets DEF TypeInv
  <2> QED
    BY <1>h, <2>1, <2>2, <2>3, <2>4, CleanStays DEF CleanBundles
<1>16. CASE SetAside
  <2>1. UNCHANGED <<ledger, run>> /\ run.stage = "change" /\ ~RemoveLedger /\ Op \in Packaged
    BY <1>16 DEF SetAside, At, RemoveLedger
  <2>2. \A o \in Bundles : host'[o] = host[o]
    BY <1>16, <2>1, Sets DEF SetAside, TypeInv
  <2>3. BookPre' = BookPre /\ BookOut' = BookOut
    BY <2>1 DEF BookPre, BookOut, Bookkeeping, Installing, Phase, InstallPhases
  <2> QED
    BY <1>h, <2>1, <2>2, <2>3, CleanBundlesFrame
<1>17. CASE ChangeHalf
  <2>1. UNCHANGED <<ledger, run>> /\ run.stage = "change" /\ ~RemoveLedger /\ Op \in Plain
    BY <1>17 DEF ChangeHalf, At, RemoveLedger
  <2>2. \A o \in Bundles : host'[o] = host[o]
    BY <1>17, <2>1, Sets DEF ChangeHalf, TypeInv
  <2>3. BookPre' = BookPre /\ BookOut' = BookOut
    BY <2>1 DEF BookPre, BookOut, Bookkeeping, Installing, Phase, InstallPhases
  <2> QED
    BY <1>h, <2>1, <2>2, <2>3, CleanBundlesFrame
<1>18. CASE Settle
  <2>1. InHand /\ UNCHANGED <<host, ledger, hist>> /\ run.stage = "settle" /\ run.at <= Len(Order) /\ Changing
    BY <1>18 DEF Settle, At, PositionInv, Changing, InHand
  <2>2. /\ run'.stage = "apply" /\ run'.pre = Over(run.pre, Only(Op, Kept(Op)))
        /\ run'.out = Over(Only(Op, Desired(Op)), run.out)
    BY <1>18, <2>1, SettleFields
  <2>3. BookPre = run.pre /\ BookOut = run.out /\ BookPre' = run'.pre /\ BookOut' = run'.out
    BY <2>1, <2>2 DEF BookPre, BookOut, Bookkeeping, Installing, Phase, InstallPhases
  <2>4. Clean => host[Op] = Desired(Op)
    BY <2>1 DEF CleanWork
  <2>5. Clean /\ Op \in Bundles /\ Op \notin DOMAIN run.pre /\ Kept(Op) \in Package => Op \in hist.kept
    <3> SUFFICES ASSUME Clean, Op \in Bundles, Op \notin DOMAIN run.pre, Kept(Op) \in Package PROVE Op \in hist.kept
      OBVIOUS
    <3>1. Kept(Op) = run.current[Op] /\ Op \notin Packaged
      BY Sets DEF Kept
    <3>2. Op \notin DOMAIN ledger.pre
      BY <2>1, EarlierStep DEF PositionInv, ForwardBooks, Forward, Phase
    <3>3. Backed(run.current) /\ Careful(Op)
      BY <2>1 DEF AnchorInv, InProgress, Forward, Phase, Careful, Clean
    <3>4. Anchored(Op)
      BY <2>1, <3>1, <3>3 DEF Backed, InHand, Ours
    <3> QED
      BY <3>2, <3>4 DEF Anchored, Given, Clean, NothingFailed
  <2>6. \A o \in DOMAIN run'.pre : run'.pre[o] = IF o \in DOMAIN run.pre THEN run.pre[o] ELSE Kept(Op)
    BY <2>2 DEF Over, Only
  <2>7. \A o \in DOMAIN run'.pre : o \in DOMAIN run.pre \/ o = Op
    BY <2>2 DEF Over, Only
  <2>8. /\ Op \in DOMAIN run'.out /\ run'.out[Op] = Desired(Op)
        /\ \A o \in DOMAIN run.out : o # Op => o \in DOMAIN run'.out /\ run'.out[o] = run.out[o]
    BY <2>2 DEF Over, Only
  <2>9. Clean => \A o \in Bundles \cap DOMAIN run'.pre :
          /\ host[o] = run'.pre[o] \/ (o \in DOMAIN run'.out /\ host[o] = run'.out[o])
          /\ run'.pre[o] \in Package => o \in hist.kept
    BY <2>1, <2>3, <2>4, <2>5, <2>6, <2>7, <2>8 DEF CleanBundles
  <2> QED
    BY <1>h, <2>1, <2>3, <2>9, CleanStays DEF CleanBundles
<1>19. CASE RetireChanged
  <2>1. run.stage = "apply" /\ run.at <= Len(Order) /\ run' = GaveUp /\ UNCHANGED <<host, ledger, hist>>
    BY <1>19 DEF RetireChanged, At
  <2>2. /\ run'.stage = "apply" /\ run'.out = Over(Only(Op, Unknown), run.out)
        /\ run'.pre = [o \in DOMAIN run.pre \ {Op} |-> run.pre[o]]
    BY <2>1, GaveUpFields
  <2>3. BookPre = run.pre /\ BookOut = run.out /\ BookPre' = run'.pre /\ BookOut' = run'.out
    BY <2>1, <2>2 DEF BookPre, BookOut, Bookkeeping, Installing, Phase, InstallPhases
  <2>4. \A o \in DOMAIN run'.pre : o # Op /\ o \in DOMAIN run.pre /\ run'.pre[o] = run.pre[o]
    BY <2>2
  <2>5. \A o \in DOMAIN run.out : o # Op => o \in DOMAIN run'.out /\ run'.out[o] = run.out[o]
    BY <2>2 DEF Over, Only
  <2> QED
    BY <1>h, <2>1, <2>3, <2>4, <2>5, CleanStays DEF CleanBundles
<1>20. CASE Retired
  <2>1. run.stage = "retired" /\ run.at <= Len(Order) /\ run' = GaveUp /\ UNCHANGED <<host, ledger, hist>>
    BY <1>20 DEF Retired, At
  <2>2. /\ run'.stage = "apply" /\ run'.out = Over(Only(Op, Unknown), run.out)
        /\ run'.pre = [o \in DOMAIN run.pre \ {Op} |-> run.pre[o]]
    BY <2>1, GaveUpFields
  <2>3. BookPre = run.pre /\ BookOut = run.out /\ BookPre' = run'.pre /\ BookOut' = run'.out
    BY <2>1, <2>2 DEF BookPre, BookOut, Bookkeeping, Installing, Phase, InstallPhases
  <2>4. \A o \in DOMAIN run'.pre : o # Op /\ o \in DOMAIN run.pre /\ run'.pre[o] = run.pre[o]
    BY <2>2
  <2>5. \A o \in DOMAIN run.out : o # Op => o \in DOMAIN run'.out /\ run'.out[o] = run.out[o]
    BY <2>2 DEF Over, Only
  <2> QED
    BY <1>h, <2>1, <2>3, <2>4, <2>5, CleanStays DEF CleanBundles
<1>21. CASE Retire
  <2>1. UNCHANGED <<host, ledger>> /\ ~RemoveLedger /\ run.stage # "settle"
    BY <1>21 DEF Retire, At, Undoing, RemoveLedger
  <2>2. BookPre' = BookPre /\ BookOut' = BookOut
    BY <1>21, GotoFields, StageNames DEF BookPre, BookOut, Bookkeeping, Installing, Phase, InstallPhases, Retire, At, SameBooks
  <2> QED
    BY <1>h, <2>1, <2>2, CleanBundlesFrame
<1>22. CASE DiscardReplaced
  <2>1. UNCHANGED <<host, ledger>> /\ ~RemoveLedger /\ run.stage # "settle"
    BY <1>22 DEF DiscardReplaced, At, Undoing, RemoveLedger
  <2>2. BookPre' = BookPre /\ BookOut' = BookOut
    BY <1>22, GotoFields, StageNames DEF BookPre, BookOut, Bookkeeping, Installing, Phase, InstallPhases, DiscardReplaced, At, SameBooks
  <2> QED
    BY <1>h, <2>1, <2>2, CleanBundlesFrame
<1>23. CASE Restore
  <2>1. UNCHANGED <<host, ledger>> /\ ~RemoveLedger /\ run.stage # "settle"
    BY <1>23 DEF Restore, At, Undoing, RemoveLedger
  <2>2. BookPre' = BookPre /\ BookOut' = BookOut
    BY <1>23, GotoFields, StageNames DEF BookPre, BookOut, Bookkeeping, Installing, Phase, InstallPhases, Restore, At, SameBooks
  <2> QED
    BY <1>h, <2>1, <2>2, CleanBundlesFrame
<1>24. CASE RestoreRetired
  <2>1. /\ Goto("retired") /\ UNCHANGED <<ledger, hist>> /\ host' = [host EXCEPT ![Op] = run.pre[Op]]
        /\ Op \in Ops /\ run.stage = "retire"
    BY <1>24, OpMember DEF RestoreRetired, At
  <2>2. run'.stage = "retired" /\ SameBooks
    BY <2>1, GotoFields, StageNames
  <2>3. BookPre' = BookPre /\ BookOut' = BookOut /\ BookPre = run.pre
    BY <2>1, <2>2 DEF BookPre, BookOut, Bookkeeping, Installing, Phase, InstallPhases, SameBooks
  <2>4. host'[Op] = run.pre[Op] /\ \A o \in Bundles : o # Op => host'[o] = host[o]
    BY <2>1, Sets DEF TypeInv
  <2> QED
    BY <1>h, <2>1, <2>3, <2>4, CleanStays DEF CleanBundles
<1>25. CASE Commit
  <2>1. UNCHANGED host /\ ~RemoveLedger /\ run.stage = "commit" /\ ledger'.pre = run.pre /\ ledger'.out = run.out
    BY <1>25 DEF Commit, RemoveLedger
  <2>2. run'.stage = "clear"
    BY <1>25, GotoFields, StageNames DEF Commit
  <2>3. BookPre' = BookPre /\ BookOut' = BookOut
    BY <2>1, <2>2 DEF BookPre, BookOut, Bookkeeping, Installing, Phase, InstallPhases
  <2> QED
    BY <1>h, <2>1, <2>3, CleanBundlesFrame
<1>26. CASE ClearCommitted
  <2>1. UNCHANGED <<host, ledger>> /\ ~RemoveLedger /\ run.stage # "settle"
    BY <1>26 DEF ClearCommitted, At, Undoing, RemoveLedger
  <2>2. BookPre' = BookPre /\ BookOut' = BookOut
    BY <1>26, IdleFields DEF BookPre, BookOut, Bookkeeping, Installing, Phase, InstallPhases, ClearCommitted, Finish
  <2> QED
    BY <1>h, <2>1, <2>2, CleanBundlesFrame
<1>27. CASE LastRestartFails
  <2>1. UNCHANGED <<host, ledger>> /\ ~RemoveLedger /\ run.stage # "settle"
    BY <1>27 DEF LastRestartFails, At, Undoing, RemoveLedger
  <2>2. BookPre' = BookPre /\ BookOut' = BookOut
    BY <1>27, IdleFields DEF BookPre, BookOut, Bookkeeping, Installing, Phase, InstallPhases, LastRestartFails, Finish
  <2> QED
    BY <1>h, <2>1, <2>2, CleanBundlesFrame
<1>28. CASE UninstallFailed
  <2>1. UNCHANGED <<host, ledger>> /\ ~RemoveLedger /\ run.stage # "settle"
    BY <1>28 DEF UninstallFailed, At, Undoing, RemoveLedger
  <2>2. BookPre' = BookPre /\ BookOut' = BookOut
    BY <1>28, IdleFields DEF BookPre, BookOut, Bookkeeping, Installing, Phase, InstallPhases, UninstallFailed, Finish
  <2> QED
    BY <1>h, <2>1, <2>2, CleanBundlesFrame
<1>29. CASE RecoveryFails
  <2>1. UNCHANGED <<host, ledger>> /\ ~RemoveLedger /\ run.stage # "settle"
    BY <1>29 DEF RecoveryFails, At, Undoing, RemoveLedger
  <2>2. BookPre' = BookPre /\ BookOut' = BookOut
    BY <1>29, IdleFields DEF BookPre, BookOut, Bookkeeping, Installing, Phase, InstallPhases, RecoveryFails
  <2> QED
    BY <1>h, <2>1, <2>2, CleanBundlesFrame
<1>30. CASE UndoNext
  <2>1. ~Clean
    BY <1>30, NothingToUndo DEF UndoNext, CleanStages, Phase
  <2> QED
    BY <1>h, <2>1, CleanStays DEF CleanBundles
<1>31. CASE Undid
  <2>1. ~Clean
    BY <1>31, NothingToUndo DEF Undid, CleanStages, Phase
  <2> QED
    BY <1>h, <2>1, CleanStays DEF CleanBundles
<1>32. CASE Undone
  <2>1. ~Clean
    BY <1>32, NothingToUndo DEF Undone, CleanStages, Phase
  <2> QED
    BY <1>h, <2>1, CleanStays DEF CleanBundles
<1>33. CASE UndoFails
  <2>1. ~Clean
    BY <1>33, NothingToUndo DEF UndoFails, CleanStages, Phase
  <2> QED
    BY <1>h, <2>1, CleanStays DEF CleanBundles
<1>34. CASE Preserve
  <2>1. UNCHANGED <<host, ledger>> /\ ~RemoveLedger /\ run.stage # "settle"
    BY <1>34 DEF Preserve, At, Undoing, RemoveLedger
  <2>2. BookPre' = BookPre /\ BookOut' = BookOut
    BY <1>34, TodoFields DEF BookPre, BookOut, Bookkeeping, Installing, Phase, InstallPhases, Preserve, TypeInv, IsRun, SameBooks
  <2> QED
    BY <1>h, <2>1, <2>2, CleanBundlesFrame
<1>35. CASE Reverted
  <2>1. UNCHANGED <<host, ledger>> /\ ~RemoveLedger /\ run.stage # "settle"
    BY <1>35 DEF Reverted, At, Undoing, RemoveLedger
  <2>2. BookPre' = BookPre /\ BookOut' = BookOut
    BY <1>35, TodoFields, StageNames DEF BookPre, BookOut, Bookkeeping, Installing, Phase, InstallPhases, Reverted, SameBooks
  <2> QED
    BY <1>h, <2>1, <2>2, CleanBundlesFrame
<1>36. CASE Revert
  <2>1. /\ run' = [run EXCEPT !.pending = Requested(NextToRestore)] /\ run.stage = "revert"
        /\ RestoreStep(NextToRestore, ledger.pre[NextToRestore]) /\ UNCHANGED <<ledger, hist>>
    BY <1>36 DEF Revert
  <2>2. NextToRestore \in Ops /\ NextToRestore \in DOMAIN ledger.pre /\ ledger.pre[NextToRestore] \in Content
    BY <2>1, NextToRestoreFacts DEF ControlInv
  <2>3. BookPre' = BookPre /\ BookOut' = BookOut /\ BookPre = ledger.pre
    BY <2>1, RequestedFields DEF BookPre, BookOut, Bookkeeping, Installing, Phase, InstallPhases
  <2>4. \A o \in Bundles : o # NextToRestore => host'[o] = host[o]
    BY <2>1, <2>2, RestoreStepTypes, Sets
  <2>5. NextToRestore \in Bundles => host'[NextToRestore] = ledger.pre[NextToRestore]
    BY <2>1, <2>2, RestoreStepTypes, Sets
  <2> QED
    BY <1>h, <2>1, <2>3, <2>4, <2>5, CleanStays DEF CleanBundles
<1>37. CASE RemoveLedger
  <2>1. DOMAIN BookPre' = {}
    BY <1>37, IdleFields, NothingFacts DEF RemoveLedger, NoLedger, BookPre, BookOut, Bookkeeping, Installing, Phase, InstallPhases
  <2> QED
    BY <2>1 DEF CleanBundles
<1>38. CASE Raise
  <2>1. Phase' = "undo"
    BY <1>38, RaiseFields DEF RaiseRun, Phase
  <2>2. ~Clean'
    BY <1>38, <2>1, CleanStagesStep DEF CleanStages, Command
  <2> QED
    BY <2>2 DEF CleanBundles
<1>39. CASE Kill
  <2>1. ~Clean'
    BY <1>39, KillFields, NotClean
  <2> QED
    BY <2>1 DEF CleanBundles
<1> QED
  BY <1>1, <1>2, <1>3, <1>4, <1>5, <1>6, <1>7, <1>8, <1>9, <1>10, <1>11, <1>12, <1>13, <1>14, <1>15, <1>16, <1>17, <1>18, <1>19, <1>20, <1>21, <1>22, <1>23, <1>24, <1>25, <1>26, <1>27, <1>28, <1>29, <1>30, <1>31, <1>32, <1>33, <1>34, <1>35, <1>36, <1>37, <1>38, <1>39 DEF Command

-----------------------------------------------------------------------------
(* Edits, and the theorems.                                                 *)

LEMMA JournalSame ==
    ASSUME JournalInv, UNCHANGED <<run, ledger, journal>>, hist'.retired = hist.retired PROVE JournalInv'
  BY DEF JournalInv, Phase, Changing, Tries, Retiring, Uninstalling, Op

LEMMA RecordSame ==
    ASSUME RecordInv, UNCHANGED <<host, aside, run, ledger, journal, hist>> PROVE RecordInv'
<1>1. AnchorInv'
  BY DEF RecordInv, AnchorInv, InProgress, Forward, Phase, Backed, Careful, Anchored, Given, NothingFailed
<1>2. HeldInv'
  BY DEF RecordInv, HeldInv, LeftToUs, Careful, OfPackage, Given, Held, Forward, Phase, NothingFailed
<1>3. CleanStages' /\ CleanWork'
  BY DEF RecordInv, CleanInv, CleanStages, CleanWork, Clean, NothingFailed, Phase, Op, Desired
<1>4. CleanBundles'
  BY DEF RecordInv, CleanInv, CleanBundles, Clean, NothingFailed, BookPre, BookOut, Bookkeeping, Installing, Phase, Op
<1> QED
  BY <1>1, <1>2, <1>3, <1>4 DEF RecordInv, CleanInv

LEMMA RecordEdit == ASSUME BookInv, RecordInv, NEW x \in Ops, Edit(x) PROVE RecordInv'
<1> USE DEF BookInv
<1>1. /\ UNCHANGED <<aside, run, ledger, journal>>
      /\ \A o \in Ops : o # x => host'[o] = host[o]
  BY DEF Edit, TypeInv
<1>2. /\ hist'.edited = hist.edited \cup {x} /\ hist'.kept = hist.kept
      /\ hist'.kills = hist.kills /\ hist'.faults = hist.faults /\ hist'.retired = hist.retired
  BY EditFields DEF SameEffects
<1>3. ~Clean' /\ \A o : (Careful(o)' => Careful(o)) /\ (Given(o) => Given(o)') /\ Given(x)'
  BY <1>2 DEF Clean, NothingFailed, Careful, Given
<1>4. AnchorInv'
  BY <1>1, <1>3 DEF RecordInv, AnchorInv, InProgress, Forward, Phase, Backed, Anchored
<1>5. \A o \in Ops : (LeftToUs(o)' => LeftToUs(o)) /\ Held(o)' = Held(o)
  BY <1>1, <1>3 DEF LeftToUs, OfPackage, Held, Forward, Phase
<1>6. HeldInv'
  BY <1>1, <1>2, <1>5 DEF RecordInv, HeldInv, Forward, Phase
<1> QED
  BY <1>3, <1>4, <1>6 DEF RecordInv, CleanInv, CleanStages, CleanWork, CleanBundles

LEMMA RecordStep ==
    ASSUME BookInv, WholeInv, JournalInv, RecordInv, [Next]_vars PROVE JournalInv' /\ RecordInv'
<1>1. CASE Begin \/ Command \/ Kill
  BY <1>1, JournalStep, AnchorStep, HeldStep, CleanStagesStep, CleanWorkStep, CleanBundlesStep
     DEF RecordInv, CleanInv
<1>2. CASE \E o \in Ops : Edit(o)
  <2>1. PICK o \in Ops : Edit(o)
    BY <1>2
  <2>2. UNCHANGED <<run, ledger, journal>> /\ hist'.retired = hist.retired
    BY <2>1, EditFields DEF Edit, BookInv, SameEffects
  <2> QED
    BY <2>1, <2>2, JournalSame, RecordEdit
<1>3. CASE UNCHANGED vars
  BY <1>3, JournalSame, RecordSame DEF vars
<1> QED
  BY <1>1, <1>2, <1>3 DEF Next

LEMMA RecordInit == ASSUME Init PROVE WholeInv /\ JournalInv /\ RecordInv
<1>1. /\ run.stage = "idle" /\ DOMAIN run.current = {} /\ DOMAIN run.pre = {}
      /\ DOMAIN ledger.pre = {} /\ journal.pre = Nothing
  BY NothingFacts, NoJournalType, IdleStage DEF Init, IdleRun, NoLedger
<1>2. WholeInv
  <2>1. BooksWhole /\ DiskWhole
    BY WholeNothing DEF Init, IdleRun, NoLedger, NoJournal, BooksWhole, DiskWhole
  <2>2. HostWhole
    BY ContentFacts, Sets DEF Init, HostWhole
  <2> QED
    BY <2>1, <2>2 DEF WholeInv
<1>3. JournalInv
  BY <1>1, NothingFacts DEF JournalInv, Phase, Changing, Tries, Retiring, Uninstalling, UninstallPhases
<1>4. AnchorInv /\ HeldInv
  <2>1. \A o \in Ops : ~OfPackage(o)
    BY ContentFacts DEF Init, OfPackage
  <2> QED
    BY <1>1, <2>1, NothingFacts DEF AnchorInv, InProgress, Forward, Phase, Backed, HeldInv, LeftToUs
<1>5. CleanStages /\ CleanWork
  BY <1>1, ContentFacts, Sets DEF Init, CleanStages, CleanWork, Phase
<1>6. CleanBundles
  BY <1>1 DEF CleanBundles, BookPre, Bookkeeping
<1> QED
  BY <1>2, <1>3, <1>4, <1>5, <1>6 DEF RecordInv, CleanInv

LEMMA EveryRecord == Spec => [](BookInv /\ WholeInv /\ JournalInv /\ RecordInv)
<1>1. BookInv /\ WholeInv /\ JournalInv /\ RecordInv /\ [Next]_vars => WholeInv' /\ JournalInv' /\ RecordInv'
  BY WholeStep, RecordStep
<1> QED
  BY <1>1, RecordInit, HostTypes, PTL DEF Spec

\* What is on record of an operation that holds the work of the package.
LEMMA RecordSuffices ==
    ASSUME BookInv, RecordInv, NEW o \in Ops, LeftToUs(o)
    PROVE  Recorded(o)
<1>1. CASE Phase = "commit"
  <2>1. run.kind = "install" /\ o \in DOMAIN run.pre
    BY <1>1 DEF RecordInv, HeldInv, BookInv, ControlInv, Installing, InstallPhases
  <2> QED
    BY <2>1 DEF Recorded
<1>2. CASE Phase # "commit" /\ o \in DOMAIN ledger.pre
  BY <1>2 DEF Recorded
<1>3. CASE Phase # "commit" /\ Held(o)
  <2>1. CASE Phase = "idle"
    BY <1>3, <2>1 DEF Held, Forward, Recorded
  <2>2. CASE Phase = "recover"
    <3>1. run.stage = "recover"
      BY <2>2 DEF Phase, BookInv, TypeInv, IsRun, Targets
    <3> QED
      BY <1>3, <2>2, <3>1 DEF Held, Forward, BookInv, ControlInv, Recorded
  <2>3. CASE Phase = "undo"
    <3>1. run.stage = "undo" /\ run.kind = "install"
      BY <2>3 DEF Phase, BookInv, TypeInv, IsRun, Targets, ControlInv, Installing, InstallPhases
    <3> QED
      BY <1>3, <2>3, <3>1 DEF Held, Forward, BookInv, ControlInv, Recorded
  <2>4. CASE Forward
    <3>1. run.kind = "install"
      BY <2>4 DEF Forward, BookInv, ControlInv, Installing, InstallPhases
    <3> QED
      BY <1>3, <2>4, <3>1 DEF Held, Forward, Recorded
  <2> QED
    BY <1>3, <2>1, <2>2, <2>3, <2>4 DEF Held
<1> QED
  BY <1>1, <1>2, <1>3 DEF RecordInv, HeldInv

\* As long as no command is killed, every change of the package can be undone: a rollback
\* that fails, a lost restart and a failed uninstall leave what puts it back on record.
THEOREM ChangesCanBeUndone == Spec => []Undoable
<1>1. BookInv /\ RecordInv => Undoable
  <2> SUFFICES ASSUME BookInv, RecordInv, hist.kills = 0, NEW o \in Ops, OfPackage(o),
                      o \in Bundles => NothingFailed, o \notin hist.kept \cup hist.edited
               PROVE  Recorded(o)
    BY DEF Undoable
  <2>1. LeftToUs(o)
    BY DEF LeftToUs, Careful, Given
  <2> QED
    BY <2>1, RecordSuffices
<1> QED
  BY <1>1, EveryRecord, PTL

\* A kill at any moment leaves the Rockchip transaction in the ledger or in the journal.
THEOREM RockchipSurvivesKills == Spec => []RockchipRecorded
<1>1. BookInv /\ RecordInv => RockchipRecorded
  <2> SUFFICES ASSUME BookInv, RecordInv, OfPackage(Rockchip), ~hist.retired,
                      Rockchip \notin hist.kept \cup hist.edited
               PROVE  Recorded(Rockchip)
    BY DEF RockchipRecorded
  <2>1. LeftToUs(Rockchip)
    BY DEF LeftToUs, Careful, Given
  <2> QED
    BY <2>1, RecordSuffices, Sets
<1> QED
  BY <1>1, EveryRecord, PTL

-----------------------------------------------------------------------------
(* A rollback.  What the command has not captured is as it was when the     *)
(* install began, and what it has captured is what was there then, in the   *)
(* captured preimage or in the directory that was set aside.                *)

Untouched == Ops \ (hist.edited \cup Bundles)
AsBefore == \A o \in Untouched : host[o] = hist.before[o]
RolledBack == Phase = "undone" \/ (Phase \in {"commit", "clear"} /\ run.then = "undone")

SetAsideWhole(o) ==
    o \in Packaged /\ run.current[o] # Stock =>
        \/ aside[o] = Stock /\ host[o] = run.current[o]
        \/ aside[o] = run.current[o] /\ host[o] \in {Stock} \cup Package

CapturedWhole ==
    \A o \in Untouched :
        /\ o \notin DOMAIN run.current => host[o] = hist.before[o]
        /\ o \in DOMAIN run.current =>
            /\ run.current[o] = hist.before[o] /\ SetAsideWhole(o)
            /\ Phase = "undo" /\ o \notin run.todo => host[o] = hist.before[o]

RollbackInv ==
    /\ InProgress => CapturedWhole
    /\ RolledBack => AsBefore
    /\ run.then = "undone" => RolledBack
    /\ hist.ended = "undone" => run.kind = "none" /\ AsBefore

LEMMA Running == ASSUME ControlInv, Command \/ Kill PROVE run.kind # "none"
<1>1. run = IdleRun => run.stage = "idle"
  BY IdleStage
<1>2. ASSUME Command, run.stage = "idle" PROVE FALSE
  BY <1>2 DEF Command, Recovered, Restart, Flushed, Enter, SkipOperation, Capture, ChangeFile, SetAside, MoveIn, ChangeHalf, ChangeRest, Settle, FlushBeforeRetirement, RetireChanged, Retire, RestoreRetired, Retired, AllApplied, DiscardReplaced, Commit, ClearCommitted, UndoNext, Undid, AllUndone, Undone, Preserve, Restore, Revert, Reverted, AllRestored, RemoveLedger, Raise, UndoFails, RecoveryFails, UninstallFails, LastRestartFails, UninstallFailed, At, Undoing, Applying
<1> QED
  BY <1>1, <1>2 DEF ControlInv, Kill

LEMMA EndsUndone ==
    ASSUME BookInv, RollbackInv, Begin \/ Command \/ Kill, hist'.ended = "undone"
    PROVE  ClearCommitted /\ RolledBack
<1>1. ~Begin
  BY BeginFields DEF BookInv
<1>2. hist.ended # "undone"
  BY <1>1, Running DEF RollbackInv, BookInv
<1>3. ClearCommitted /\ run.then = "undone"
  BY <1>2, HistoryStep DEF HistoryGrows, BookInv
<1> QED
  BY <1>3 DEF ClearCommitted, RolledBack, Phase

LEMMA RollbackFrame ==
    ASSUME BookInv, RollbackInv, HistoryGrows, ~Enter, ~ClearCommitted, Begin \/ Command \/ Kill,
           InProgress' => CapturedWhole',
           RolledBack' => RolledBack,
           run'.then = "undone" => RolledBack',
           RolledBack => \A o \in Untouched : host'[o] = host[o]
    PROVE  RollbackInv'
<1>1. Untouched' = Untouched /\ hist'.before = hist.before
  BY DEF HistoryGrows, Untouched
<1>2. hist'.ended # "undone"
  BY EndsUndone
<1> QED
  BY <1>1, <1>2 DEF RollbackInv, AsBefore

\* The same for an action that leaves the host and the books alone.
LEMMA RollbackKept ==
    ASSUME BookInv, RollbackInv, HistoryGrows, ~Enter, ~ClearCommitted, Begin \/ Command \/ Kill,
           UNCHANGED host,
           InProgress' => InProgress /\ run'.current = run.current /\ UNCHANGED aside,
           Phase' = "undo" => \/ Phase = "undo" /\ run'.todo = run.todo
                              \/ run'.todo = DOMAIN run.current,
           RolledBack' => RolledBack,
           run'.then = "undone" => RolledBack'
    PROVE  RollbackInv'
<1>1. Untouched' = Untouched /\ hist'.before = hist.before
  BY DEF HistoryGrows, Untouched
<1>2. InProgress' => CapturedWhole'
  <2> SUFFICES ASSUME InProgress' PROVE CapturedWhole'
    OBVIOUS
  <2>1. CapturedWhole /\ run'.current = run.current /\ UNCHANGED <<host, aside>>
    BY DEF RollbackInv
  <2>2. \A o : SetAsideWhole(o)' = SetAsideWhole(o)
    BY <2>1 DEF SetAsideWhole
  <2> QED
    BY <1>1, <2>1, <2>2 DEF CapturedWhole
<1> QED
  BY <1>2, RollbackFrame

\* The same for an action of an install that changes the operation x.
LEMMA RollbackWrites ==
    ASSUME BookInv, RollbackInv, HistoryGrows, ~Enter, ~ClearCommitted, Begin \/ Command \/ Kill,
           InProgress, InProgress', NEW x \in Ops,
           \A o \in Ops : o # x => host'[o] = host[o],
           \A o \in Packaged : o # x => aside'[o] = aside[o],
           run'.current = run.current, run'.then = run.then,
           x \in DOMAIN run.current \/ x \in Bundles,
           Phase' = "undo" => Phase = "undo" /\ run'.todo = run.todo /\ x \in run.todo,
           x \in Untouched => SetAsideWhole(x)'
    PROVE  RollbackInv'
<1>1. Untouched' = Untouched /\ hist'.before = hist.before
  BY DEF HistoryGrows, Untouched
<1>2. CapturedWhole'
  <2>1. CapturedWhole
    BY DEF RollbackInv
  <2>2. \A o \in Untouched : o # x => SetAsideWhole(o)' = SetAsideWhole(o)
    BY DEF SetAsideWhole, Untouched
  <2>3. \A o \in Untouched : o # x => host'[o] = host[o]
    BY DEF Untouched
  <2>4. x \in Untouched => x \in DOMAIN run.current
    BY DEF Untouched
  <2> QED
    BY <1>1, <2>1, <2>2, <2>3, <2>4 DEF CapturedWhole
<1>3. ~RolledBack /\ ~RolledBack'
  BY DEF RolledBack, InProgress, Forward
<1> QED
  BY <1>2, <1>3, RollbackFrame DEF RollbackInv

\* An undone operation is as captured.
LEMMA RestoredWhole ==
    ASSUME TypeInv, WholeInv, NEW x \in DOMAIN run.current, run.current[x] \in Content,
           Matches(x, run.current[x]) \/ Missing(x, run.current[x]), SetAsideWhole(x)
    PROVE  host[x] = run.current[x]
<1>1. CASE x \in Packaged /\ run.current[x] # Stock
  <2>1. run.current[x] \in Package
    BY <1>1, PackageContent DEF WholeInv, BooksWhole, Whole
  <2> QED
    BY <1>1, <2>1, ContentFacts DEF Matches, Missing, SetAsideWhole
<1>2. CASE ~(x \in Packaged /\ run.current[x] # Stock)
  BY <1>2 DEF Matches, Missing
<1> QED
  BY <1>1, <1>2

LEMMA RollbackStep ==
    ASSUME BookInv, WholeInv, RollbackInv, Begin \/ Command \/ Kill PROVE RollbackInv'
<1> USE DEF BookInv
<1>h. HistoryGrows
  BY HistoryStep
<1>1. CASE Begin
  <2>1. UNCHANGED host /\ ~Enter /\ ~ClearCommitted
    BY <1>1, BeginStage DEF Begin, Enter, ClearCommitted
  <2>2. /\ InProgress' => InProgress /\ run'.current = run.current /\ UNCHANGED aside
        /\ Phase' = "undo" => Phase = "undo" /\ run'.todo = run.todo
        /\ RolledBack' => RolledBack
        /\ run'.then = "undone" => RolledBack'
    BY <1>1, BeginFields, BeginStage DEF InProgress, Forward, Phase, RolledBack, RollbackInv, Begin
  <2> QED
    BY <1>h, <1>1, <2>1, <2>2, RollbackKept DEF Command
<1>2. CASE Recovered
  <2>1. UNCHANGED host /\ ~Enter /\ ~ClearCommitted
    BY <1>2 DEF Recovered, At, Undoing, Enter, ClearCommitted
  <2>2. /\ InProgress' => InProgress /\ run'.current = run.current /\ UNCHANGED aside
        /\ Phase' = "undo" => Phase = "undo" /\ run'.todo = run.todo
        /\ RolledBack' => RolledBack
        /\ run'.then = "undone" => RolledBack'
    BY <1>2, FlushFields DEF InProgress, Forward, Phase, RolledBack, RollbackInv, Recovered, Targets, SameBooks, At
  <2> QED
    BY <1>h, <1>2, <2>1, <2>2, RollbackKept DEF Command
<1>3. CASE FlushBeforeRetirement
  <2>1. UNCHANGED host /\ ~Enter /\ ~ClearCommitted
    BY <1>3 DEF FlushBeforeRetirement, At, Undoing, Enter, ClearCommitted
  <2>2. /\ InProgress' => InProgress /\ run'.current = run.current /\ UNCHANGED aside
        /\ Phase' = "undo" => Phase = "undo" /\ run'.todo = run.todo
        /\ RolledBack' => RolledBack
        /\ run'.then = "undone" => RolledBack'
    BY <1>3, FlushFields DEF InProgress, Forward, Phase, RolledBack, RollbackInv, FlushBeforeRetirement, Targets, SameBooks, At
  <2> QED
    BY <1>h, <1>3, <2>1, <2>2, RollbackKept DEF Command
<1>4. CASE AllApplied
  <2>1. UNCHANGED host /\ ~Enter /\ ~ClearCommitted
    BY <1>4 DEF AllApplied, At, Undoing, Enter, ClearCommitted
  <2>2. /\ InProgress' => InProgress /\ run'.current = run.current /\ UNCHANGED aside
        /\ Phase' = "undo" => Phase = "undo" /\ run'.todo = run.todo
        /\ RolledBack' => RolledBack
        /\ run'.then = "undone" => RolledBack'
    BY <1>4, FlushFields DEF InProgress, Forward, Phase, RolledBack, RollbackInv, AllApplied, Targets, SameBooks, At
  <2> QED
    BY <1>h, <1>4, <2>1, <2>2, RollbackKept DEF Command
<1>5. CASE AllRestored
  <2>1. UNCHANGED host /\ ~Enter /\ ~ClearCommitted
    BY <1>5 DEF AllRestored, At, Undoing, Enter, ClearCommitted
  <2>2. /\ InProgress' => InProgress /\ run'.current = run.current /\ UNCHANGED aside
        /\ Phase' = "undo" => Phase = "undo" /\ run'.todo = run.todo
        /\ RolledBack' => RolledBack
        /\ run'.then = "undone" => RolledBack'
    BY <1>5, FlushFields DEF InProgress, Forward, Phase, RolledBack, RollbackInv, AllRestored, Targets, SameBooks, At
  <2> QED
    BY <1>h, <1>5, <2>1, <2>2, RollbackKept DEF Command
<1>6. CASE UninstallFails
  <2>1. UNCHANGED host /\ ~Enter /\ ~ClearCommitted
    BY <1>6 DEF UninstallFails, At, Undoing, Enter, ClearCommitted
  <2>2. /\ InProgress' => InProgress /\ run'.current = run.current /\ UNCHANGED aside
        /\ Phase' = "undo" => Phase = "undo" /\ run'.todo = run.todo
        /\ RolledBack' => RolledBack
        /\ run'.then = "undone" => RolledBack'
    BY <1>6, FlushFields DEF InProgress, Forward, Phase, RolledBack, RollbackInv, UninstallFails, Targets, SameBooks, At
  <2> QED
    BY <1>h, <1>6, <2>1, <2>2, RollbackKept DEF Command
<1>7. CASE AllUndone
  <2>1. UNCHANGED host /\ run.stage = "undo" /\ run.todo = {} /\ ~Enter /\ ~ClearCommitted
    BY <1>7 DEF AllUndone, Enter, ClearCommitted
  <2>2. Phase' = "undone" /\ ~InProgress' /\ RolledBack'
    BY <1>7, FlushFields DEF AllUndone, Targets, InProgress, Forward, Phase, RolledBack
  <2>3. InProgress /\ ~RolledBack /\ Phase = "undo"
    BY <2>1 DEF InProgress, Forward, Phase, RolledBack
  <2>4. AsBefore
    BY <2>1, <2>3 DEF RollbackInv, CapturedWhole, AsBefore
  <2>5. hist'.ended # "undone" /\ Untouched' = Untouched /\ hist'.before = hist.before
    BY <1>7, <1>h, <2>1, EndsUndone DEF HistoryGrows, Untouched, Command
  <2> QED
    BY <2>1, <2>2, <2>4, <2>5 DEF RollbackInv, AsBefore
<1>8. CASE Restart
  <2>1. UNCHANGED host /\ ~Enter /\ ~ClearCommitted
    BY <1>8 DEF Restart, At, Undoing, Enter, ClearCommitted
  <2>2. /\ InProgress' => InProgress /\ run'.current = run.current /\ UNCHANGED aside
        /\ Phase' = "undo" => Phase = "undo" /\ run'.todo = run.todo
        /\ RolledBack' => RolledBack
        /\ run'.then = "undone" => RolledBack'
    BY <1>8, RestartFields DEF InProgress, Forward, Phase, RolledBack, RollbackInv, Restart, SameBooks
  <2> QED
    BY <1>h, <1>8, <2>1, <2>2, RollbackKept DEF Command
<1>9. CASE Flushed
  <2>1. UNCHANGED host /\ ~Enter /\ ~ClearCommitted
    BY <1>9 DEF Flushed, At, Undoing, Enter, ClearCommitted
  <2>2. /\ InProgress' => InProgress /\ run'.current = run.current /\ UNCHANGED aside
        /\ Phase' = "undo" => Phase = "undo" /\ run'.todo = run.todo
        /\ RolledBack' => RolledBack
        /\ run'.then = "undone" => RolledBack'
    BY <1>9, GotoFields, StageNames DEF InProgress, Forward, Phase, RolledBack, RollbackInv, Flushed, TypeInv, IsRun, Targets, SameBooks
  <2> QED
    BY <1>h, <1>9, <2>1, <2>2, RollbackKept DEF Command
<1>10. CASE Enter
  <2>1. UNCHANGED host /\ run.stage = "enter" /\ ~ClearCommitted /\ ~RolledBack
    BY <1>10 DEF Enter, ClearCommitted, InProgress, Forward, Phase, RolledBack
  <2>2. run.current = Nothing
    BY <2>1 DEF ControlInv, Installing, Phase, InstallPhases
  <2>3. hist'.ended # "undone" /\ Untouched' = Untouched
    BY <1>10, <1>h, <2>1, EndsUndone DEF HistoryGrows, Untouched, Command
  <2>4. run.then # "undone"
    BY <2>1 DEF RollbackInv
  <2>5. CASE run.kind = "install" /\ EnterInstall
    <3>1. hist'.before = host /\ DOMAIN run'.current = {} /\ Phase' = "apply" /\ run'.then = run.then
      BY <1>10, <2>2, <2>5, BeforeFields, EnterFields, IdleFields, NothingFacts DEF EnterInstall, Phase
    <3>2. CapturedWhole' /\ ~RolledBack'
      BY <2>1, <3>1 DEF CapturedWhole, RolledBack, Untouched, HistoryGrows, TypeInv
    <3> QED
      BY <2>3, <2>4, <3>1, <3>2 DEF RollbackInv
  <2>6. CASE ~(run.kind = "install" /\ EnterInstall)
    <3>1. ~InProgress' /\ ~RolledBack' /\ run'.then # "undone"
      BY <1>10, <2>4, <2>6, EnterFields, IdleFields DEF EnterUninstall, InProgress, Forward, Phase, RolledBack
    <3> QED
      BY <2>3, <3>1 DEF RollbackInv
  <2> QED
    BY <2>5, <2>6
<1>11. CASE SkipOperation
  <2>1. UNCHANGED host /\ ~Enter /\ ~ClearCommitted
    BY <1>11 DEF SkipOperation, At, Undoing, Enter, ClearCommitted
  <2>2. /\ InProgress' => InProgress /\ run'.current = run.current /\ UNCHANGED aside
        /\ Phase' = "undo" => Phase = "undo" /\ run'.todo = run.todo
        /\ RolledBack' => RolledBack
        /\ run'.then = "undone" => RolledBack'
    BY <1>11, SkipOperationFields DEF InProgress, Forward, Phase, RolledBack, RollbackInv, SkipOperation, At
  <2> QED
    BY <1>h, <1>11, <2>1, <2>2, RollbackKept DEF Command
<1>12. CASE Capture
  <2>1. /\ UNCHANGED host /\ run.stage = "apply" /\ Op \in Ops /\ ~Enter /\ ~ClearCommitted
        /\ aside' = IF Op \in Packaged THEN [aside EXCEPT ![Op] = Stock] ELSE aside
    BY <1>12, OpMember DEF Capture, At, Enter, ClearCommitted
  <2>2. /\ run'.stage = "change" /\ run'.then = run.then
        /\ run'.current = Over(Only(Op, host[Op]), run.current)
    BY <1>12, CaptureFields
  <2>3. Op \notin DOMAIN run.current
    <3>1. DOMAIN run.current \subseteq Earlier /\ run.at <= Len(Order)
      BY <1>12, <2>1 DEF Capture, At, PositionInv, ForwardBooks, Forward, Phase, Working, Changing
    <3> QED
      BY <3>1, EarlierStep
  <2>4. InProgress /\ ~RolledBack /\ ~RolledBack' /\ Phase' # "undo" /\ Phase = "apply"
    BY <2>1, <2>2 DEF InProgress, Forward, Phase, RolledBack
  <2>5. Untouched' = Untouched /\ hist'.before = hist.before
    BY <1>h, <2>1 DEF HistoryGrows, Untouched
  <2>6. CapturedWhole
    BY <2>4 DEF RollbackInv
  <2>7. /\ \A o : o \in DOMAIN run'.current <=> (o \in DOMAIN run.current \/ o = Op)
        /\ \A o \in DOMAIN run'.current : run'.current[o] = IF o = Op THEN host[Op] ELSE run.current[o]
    BY <2>2 DEF Over, Only
  <2>8. \A o \in Packaged : aside'[o] = IF o = Op THEN Stock ELSE aside[o]
    BY <2>1 DEF TypeInv
  <2>9. ASSUME NEW o \in Untouched, o \in DOMAIN run'.current
        PROVE  run'.current[o] = hist.before[o] /\ SetAsideWhole(o)'
    <3>1. CASE o = Op
      BY <2>1, <2>3, <2>6, <2>7, <2>8, <2>9, <3>1 DEF CapturedWhole, SetAsideWhole
    <3>2. CASE o # Op
      BY <2>1, <2>6, <2>7, <2>8, <2>9, <3>2 DEF CapturedWhole, SetAsideWhole
    <3> QED
      BY <3>1, <3>2
  <2>10. CapturedWhole'
    BY <2>1, <2>4, <2>5, <2>6, <2>7, <2>9 DEF CapturedWhole
  <2> QED
    BY <1>h, <1>12, <2>1, <2>2, <2>4, <2>10, RollbackFrame DEF RollbackInv, Command
<1>13. CASE ChangeFile
  <2>1. /\ Op \in Ops /\ Changed(Op) /\ UNCHANGED aside /\ run.stage = "change" /\ ~Enter /\ ~ClearCommitted
        /\ Op \in DOMAIN run.current
    BY <1>13, OpMember DEF ChangeFile, At, Enter, ClearCommitted, PositionInv, Changing
  <2>2. /\ run'.stage = "settle" /\ run'.current = run.current /\ run'.then = run.then
        /\ host' = [host EXCEPT ![Op] = Desired(Op)]
    BY <2>1, ChangedFields DEF SameBooks
  <2>3. InProgress /\ InProgress' /\ Phase' # "undo" /\ Phase # "undo"
    BY <2>1, <2>2 DEF InProgress, Forward, Phase
  <2>4. PICK x \in Ops : x = Op
    BY <2>1
  <2>5. host'[x] \in Package /\ \A o \in Ops : o # x => host'[o] = host[o]
    BY <2>2, <2>4, DesiredMember DEF TypeInv
  <2>6. x \notin Packaged
    BY <1>13, <2>4, Sets DEF ChangeFile
  <2> QED
    BY <1>h, <1>13, <2>1, <2>2, <2>3, <2>4, <2>5, <2>6, RollbackWrites DEF Command, SetAsideWhole
<1>14. CASE MoveIn
  <2>1. /\ Op \in Ops /\ Changed(Op) /\ UNCHANGED aside /\ run.stage = "change" /\ ~Enter /\ ~ClearCommitted
        /\ Op \in DOMAIN run.current
    BY <1>14, OpMember DEF MoveIn, At, Enter, ClearCommitted, PositionInv, Changing
  <2>2. /\ run'.stage = "settle" /\ run'.current = run.current /\ run'.then = run.then
        /\ host' = [host EXCEPT ![Op] = Desired(Op)]
    BY <2>1, ChangedFields DEF SameBooks
  <2>3. InProgress /\ InProgress' /\ Phase' # "undo" /\ Phase # "undo"
    BY <2>1, <2>2 DEF InProgress, Forward, Phase
  <2>4. PICK x \in Ops : x = Op
    BY <2>1
  <2>5. host'[x] \in Package /\ \A o \in Ops : o # x => host'[o] = host[o]
    BY <2>2, <2>4, DesiredMember DEF TypeInv
  <2>6. x \in Untouched => SetAsideWhole(x)'
    <3>1. x \in Untouched => SetAsideWhole(x)
      BY <2>1, <2>3, <2>4 DEF RollbackInv, CapturedWhole
    <3> QED
      BY <1>14, <2>1, <2>2, <2>4, <2>5, <3>1 DEF MoveIn, SetAsideWhole
  <2> QED
    BY <1>h, <1>14, <2>1, <2>2, <2>3, <2>4, <2>5, <2>6, RollbackWrites DEF Command, SetAsideWhole
<1>15. CASE ChangeRest
  <2>1. /\ Op \in Ops /\ Changed(Op) /\ UNCHANGED aside /\ run.stage = "change" /\ ~Enter /\ ~ClearCommitted
        /\ Op \in DOMAIN run.current
    BY <1>15, OpMember DEF ChangeRest, At, Enter, ClearCommitted, PositionInv, Changing
  <2>2. /\ run'.stage = "settle" /\ run'.current = run.current /\ run'.then = run.then
        /\ host' = [host EXCEPT ![Op] = Desired(Op)]
    BY <2>1, ChangedFields DEF SameBooks
  <2>3. InProgress /\ InProgress' /\ Phase' # "undo" /\ Phase # "undo"
    BY <2>1, <2>2 DEF InProgress, Forward, Phase
  <2>4. PICK x \in Ops : x = Op
    BY <2>1
  <2>5. host'[x] \in Package /\ \A o \in Ops : o # x => host'[o] = host[o]
    BY <2>2, <2>4, DesiredMember DEF TypeInv
  <2>6. x \notin Packaged
    BY <1>15, <2>4, Sets DEF ChangeRest
  <2> QED
    BY <1>h, <1>15, <2>1, <2>2, <2>3, <2>4, <2>5, <2>6, RollbackWrites DEF Command, SetAsideWhole
<1>16. CASE SetAside
  <2>1. /\ Op \in Ops /\ host' = [host EXCEPT ![Op] = Stock] /\ UNCHANGED run
        /\ run.stage = "change" /\ ~Enter /\ ~ClearCommitted /\ Op \in DOMAIN run.current
    BY <1>16, OpMember DEF SetAside, At, Enter, ClearCommitted, PositionInv, Changing
  <2>2. InProgress /\ InProgress' /\ Phase' # "undo" /\ Phase # "undo"
    BY <2>1 DEF InProgress, Forward, Phase
  <2>3. PICK x \in Ops : x = Op
    BY <2>1
  <2>4. /\ host'[x] = Stock /\ \A o \in Ops : o # x => host'[o] = host[o]
        /\ \A o \in Packaged : o # x => aside'[o] = aside[o]
    BY <1>16, <2>1, <2>3 DEF SetAside, TypeInv
  <2>5. x \in Untouched => SetAsideWhole(x)'
    <3>1. x \in Untouched => SetAsideWhole(x)
      BY <2>1, <2>2, <2>3 DEF RollbackInv, CapturedWhole
    <3>2. aside[x] = Stock /\ aside'[x] = host[x]
      BY <1>16, <2>3 DEF SetAside, TypeInv
    <3> QED
      BY <2>1, <2>4, <3>1, <3>2 DEF SetAsideWhole
  <2> QED
    BY <1>h, <1>16, <2>1, <2>2, <2>3, <2>4, <2>5, RollbackWrites DEF Command, SetAsideWhole
<1>17. CASE ChangeHalf
  <2>1. /\ Op \in Ops /\ host' = [host EXCEPT ![Op] = Half] /\ UNCHANGED run
        /\ run.stage = "change" /\ ~Enter /\ ~ClearCommitted /\ Op \in DOMAIN run.current
    BY <1>17, OpMember DEF ChangeHalf, At, Enter, ClearCommitted, PositionInv, Changing
  <2>2. InProgress /\ InProgress' /\ Phase' # "undo" /\ Phase # "undo"
    BY <2>1 DEF InProgress, Forward, Phase
  <2>3. PICK x \in Ops : x = Op
    BY <2>1
  <2>4. /\ host'[x] = Half /\ \A o \in Ops : o # x => host'[o] = host[o]
        /\ \A o \in Packaged : o # x => aside'[o] = aside[o]
    BY <1>17, <2>1, <2>3 DEF ChangeHalf, TypeInv
  <2>5. x \notin Packaged
    BY <1>17, <2>3, Sets DEF ChangeHalf
  <2> QED
    BY <1>h, <1>17, <2>1, <2>2, <2>3, <2>4, <2>5, RollbackWrites DEF Command, SetAsideWhole
<1>18. CASE Settle
  <2>1. InHand /\ UNCHANGED <<host, aside>> /\ run.stage = "settle" /\ ~Enter /\ ~ClearCommitted
    BY <1>18 DEF Settle, At, PositionInv, Changing, InHand, Enter, ClearCommitted
  <2>2. run'.stage = "apply" /\ run'.current = run.current /\ run'.then = run.then
    BY <1>18, <2>1, SettleFields
  <2>3. InProgress /\ Phase' # "undo" /\ ~RolledBack' /\ run'.then # "undone"
    BY <2>1, <2>2 DEF InProgress, Forward, Phase, RolledBack, RollbackInv
  <2> QED
    BY <1>h, <1>18, <2>1, <2>2, <2>3, RollbackKept DEF Command
<1>19. CASE RetireChanged
  <2>1. UNCHANGED host /\ ~Enter /\ ~ClearCommitted
    BY <1>19 DEF RetireChanged, At, Undoing, Enter, ClearCommitted
  <2>2. /\ InProgress' => InProgress /\ run'.current = run.current /\ UNCHANGED aside
        /\ Phase' = "undo" => Phase = "undo" /\ run'.todo = run.todo
        /\ RolledBack' => RolledBack
        /\ run'.then = "undone" => RolledBack'
    BY <1>19, GaveUpFields DEF InProgress, Forward, Phase, RolledBack, RollbackInv, RetireChanged, At
  <2> QED
    BY <1>h, <1>19, <2>1, <2>2, RollbackKept DEF Command
<1>20. CASE Retired
  <2>1. UNCHANGED host /\ ~Enter /\ ~ClearCommitted
    BY <1>20 DEF Retired, At, Undoing, Enter, ClearCommitted
  <2>2. /\ InProgress' => InProgress /\ run'.current = run.current /\ UNCHANGED aside
        /\ Phase' = "undo" => Phase = "undo" /\ run'.todo = run.todo
        /\ RolledBack' => RolledBack
        /\ run'.then = "undone" => RolledBack'
    BY <1>20, GaveUpFields DEF InProgress, Forward, Phase, RolledBack, RollbackInv, Retired, At
  <2> QED
    BY <1>h, <1>20, <2>1, <2>2, RollbackKept DEF Command
<1>21. CASE Retire
  <2>1. UNCHANGED host /\ ~Enter /\ ~ClearCommitted
    BY <1>21 DEF Retire, At, Undoing, Enter, ClearCommitted
  <2>2. /\ InProgress' => InProgress /\ run'.current = run.current /\ UNCHANGED aside
        /\ Phase' = "undo" => Phase = "undo" /\ run'.todo = run.todo
        /\ RolledBack' => RolledBack
        /\ run'.then = "undone" => RolledBack'
    BY <1>21, GotoFields, StageNames DEF InProgress, Forward, Phase, RolledBack, RollbackInv, Retire, At, SameBooks
  <2> QED
    BY <1>h, <1>21, <2>1, <2>2, RollbackKept DEF Command
<1>22. CASE DiscardReplaced
  <2>1. UNCHANGED host /\ ~Enter /\ ~ClearCommitted
    BY <1>22 DEF DiscardReplaced, At, Undoing, Enter, ClearCommitted
  <2>2. /\ InProgress' => InProgress /\ run'.current = run.current /\ UNCHANGED aside
        /\ Phase' = "undo" => Phase = "undo" /\ run'.todo = run.todo
        /\ RolledBack' => RolledBack
        /\ run'.then = "undone" => RolledBack'
    BY <1>22, GotoFields, StageNames DEF InProgress, Forward, Phase, RolledBack, RollbackInv, DiscardReplaced, At, SameBooks
  <2> QED
    BY <1>h, <1>22, <2>1, <2>2, RollbackKept DEF Command
<1>23. CASE Commit
  <2>1. UNCHANGED host /\ ~Enter /\ ~ClearCommitted
    BY <1>23 DEF Commit, At, Undoing, Enter, ClearCommitted
  <2>2. /\ InProgress' => InProgress /\ run'.current = run.current /\ UNCHANGED aside
        /\ Phase' = "undo" => Phase = "undo" /\ run'.todo = run.todo
        /\ RolledBack' => RolledBack
        /\ run'.then = "undone" => RolledBack'
    BY <1>23, GotoFields, StageNames DEF InProgress, Forward, Phase, RolledBack, RollbackInv, Commit, At, SameBooks
  <2> QED
    BY <1>h, <1>23, <2>1, <2>2, RollbackKept DEF Command
<1>24. CASE Restore
  <2>1. UNCHANGED host /\ ~Enter /\ ~ClearCommitted
    BY <1>24 DEF Restore, At, Undoing, Enter, ClearCommitted
  <2>2. /\ InProgress' => InProgress /\ run'.current = run.current /\ UNCHANGED aside
        /\ Phase' = "undo" => Phase = "undo" /\ run'.todo = run.todo
        /\ RolledBack' => RolledBack
        /\ run'.then = "undone" => RolledBack'
    BY <1>24, GotoFields, StageNames DEF InProgress, Forward, Phase, RolledBack, RollbackInv, Restore, At, SameBooks
  <2> QED
    BY <1>h, <1>24, <2>1, <2>2, RollbackKept DEF Command
<1>25. CASE RestoreRetired
  <2>1. /\ Goto("retired") /\ UNCHANGED aside /\ host' = [host EXCEPT ![Op] = run.pre[Op]]
        /\ Op \in Ops /\ Op \in Bundles /\ run.stage = "retire" /\ ~Enter /\ ~ClearCommitted
    BY <1>25, OpMember DEF RestoreRetired, At, PositionInv, Retiring, Enter, ClearCommitted
  <2>2. run'.stage = "retired" /\ run'.current = run.current /\ run'.then = run.then
    BY <2>1, GotoFields, StageNames DEF SameBooks
  <2>3. InProgress /\ InProgress' /\ Phase' # "undo"
    BY <2>1, <2>2 DEF InProgress, Forward, Phase, RolledBack
  <2>4. PICK x \in Ops : x = Op
    BY <2>1
  <2>5. x \notin Packaged /\ x \in Bundles /\ \A o \in Ops : o # x => host'[o] = host[o]
    BY <2>1, <2>4, Sets DEF TypeInv
  <2> QED
    BY <1>h, <1>25, <2>1, <2>2, <2>3, <2>5, RollbackWrites DEF Command, SetAsideWhole
<1>26. CASE ClearCommitted
  <2>1. UNCHANGED host /\ run.stage = "clear" /\ ~Enter /\ run' = IdleRun
    BY <1>26 DEF ClearCommitted, Enter, Finish
  <2>2. ~InProgress' /\ ~RolledBack' /\ run'.then # "undone" /\ run'.kind = "none"
    BY <2>1, IdleFields DEF InProgress, Forward, Phase, RolledBack
  <2>3. hist'.ended = "undone" => AsBefore
    BY <1>26, EndsUndone DEF RollbackInv, Command
  <2>4. Untouched' = Untouched /\ hist'.before = hist.before
    BY <1>h, <2>1 DEF HistoryGrows, Untouched
  <2> QED
    BY <2>1, <2>2, <2>3, <2>4 DEF RollbackInv, AsBefore
<1>27. CASE UndoNext
  <2>1. /\ run' = [run EXCEPT !.pending = Requested(NextToUndo)] /\ run.stage \in {"undo", "recover"}
        /\ RestoreStep(NextToUndo, Preimages[NextToUndo]) /\ ~Enter /\ ~ClearCommitted
        /\ ~Matches(NextToUndo, Preimages[NextToUndo])
    BY <1>27 DEF UndoNext, Undoing, Enter, ClearCommitted
  <2>2. /\ NextToUndo \in run.todo /\ NextToUndo \in Ops /\ Preimages[NextToUndo] \in Content
        /\ run.stage = "undo" => NextToUndo \in DOMAIN run.current /\ Preimages = run.current
    BY <1>27, NextToUndoFacts DEF UndoNext, ControlInv
  <2>3. run'.stage = run.stage /\ run'.todo = run.todo /\ run'.current = run.current /\ run'.then = run.then
    BY <2>1, RequestedFields DEF SameBooks
  <2>4. CASE run.stage = "recover"
    BY <1>h, <1>27, <2>1, <2>3, <2>4, RollbackFrame DEF RollbackInv, InProgress, Forward, Phase, RolledBack, Command
  <2>5. CASE run.stage = "undo"
    <3>1. InProgress /\ InProgress' /\ Phase = "undo"
      BY <2>3, <2>5 DEF InProgress, Phase
    <3>2. PICK x \in Ops : x = NextToUndo
      BY <2>2
    <3>3. /\ \A o \in Ops : o # x => host'[o] = host[o]
          /\ \A o \in Packaged : o # x => aside'[o] = aside[o]
      BY <2>1, <2>2, <3>2, RestoreStepTypes
    <3>4. x \in Untouched => SetAsideWhole(x)'
      <4> SUFFICES ASSUME x \in Untouched, x \in Packaged, run.current[x] # Stock PROVE SetAsideWhole(x)'
        BY <2>3 DEF SetAsideWhole
      <4>1. SetAsideWhole(x)
        BY <2>2, <2>5, <3>1, <3>2 DEF RollbackInv, CapturedWhole
      <4>2. /\ host'[x] = IF host[x] # Stock THEN Stock ELSE aside[x]
            /\ aside'[x] = IF host[x] = Stock THEN Stock ELSE aside[x]
        BY <2>1, <2>2, <2>5, <3>2, RestoreStepTypes
      <4>3. run.current[x] \in Package
        BY <2>2, <2>5, <3>2, PackageContent DEF WholeInv, BooksWhole, Whole
      <4>4. ~(aside[x] = Stock /\ host[x] \in Package)
        BY <2>1, <2>2, <2>5, <3>2 DEF Matches
      <4> QED
        BY <2>3, <4>1, <4>2, <4>3, <4>4, ContentFacts DEF SetAsideWhole
    <3> QED
      BY <1>h, <1>27, <2>1, <2>2, <2>3, <2>5, <3>1, <3>2, <3>3, <3>4, RollbackWrites DEF Command
  <2> QED
    BY <2>1, <2>4, <2>5
<1>28. CASE Undid
  <2>1. UNCHANGED <<host, aside>> /\ run.stage \in {"undo", "recover"} /\ ~Enter /\ ~ClearCommitted
    BY <1>28 DEF Undid, Undoing, Enter, ClearCommitted
  <2>2. /\ run'.stage = run.stage /\ run'.todo = run.todo \ {NextToUndo} /\ run'.current = run.current
        /\ run'.then = run.then
    BY <1>28, UndidFields DEF SameBooks
  <2>3. CASE run.stage = "recover"
    BY <1>h, <1>28, <2>1, <2>2, <2>3, RollbackFrame DEF RollbackInv, InProgress, Forward, Phase, RolledBack, Command
  <2>4. CASE run.stage = "undo"
    <3>1. InProgress /\ InProgress' /\ ~RolledBack /\ ~RolledBack' /\ CapturedWhole /\ Phase = "undo"
      BY <2>2, <2>4 DEF InProgress, Forward, Phase, RolledBack, RollbackInv
    <3>2. PICK x \in Ops : x = NextToUndo
      BY <1>28, NextToUndoFacts DEF Undid
    <3>3. /\ x \in DOMAIN run.current /\ run.current[x] \in Content
          /\ Matches(x, run.current[x]) \/ Missing(x, run.current[x])
      BY <1>28, <2>4, <3>2, NextToUndoFacts DEF Undid
    <3>4. x \in Untouched => host[x] = hist.before[x]
      BY <3>1, <3>3, RestoredWhole DEF CapturedWhole
    <3>5. Untouched' = Untouched /\ hist'.before = hist.before
      BY <1>h, <2>1 DEF HistoryGrows, Untouched
    <3>6. CapturedWhole'
      <4>1. \A o : SetAsideWhole(o)' = SetAsideWhole(o)
        BY <2>1, <2>2 DEF SetAsideWhole
      <4> QED
        BY <2>1, <2>2, <3>1, <3>2, <3>4, <3>5, <4>1 DEF CapturedWhole
    <3> QED
      BY <1>h, <1>28, <2>1, <2>2, <3>1, <3>6, RollbackFrame DEF RollbackInv, Command
  <2> QED
    BY <2>1, <2>3, <2>4
<1>29. CASE Undone
  <2>1. UNCHANGED host /\ ~Enter /\ ~ClearCommitted
    BY <1>29 DEF Undone, At, Undoing, Enter, ClearCommitted
  <2>2. /\ InProgress' => InProgress /\ run'.current = run.current /\ UNCHANGED aside
        /\ Phase' = "undo" => Phase = "undo" /\ run'.todo = run.todo
        /\ RolledBack' => RolledBack
        /\ run'.then = "undone" => RolledBack'
    BY <1>29, UndoneFields, IdleFields DEF InProgress, Forward, Phase, RolledBack, RollbackInv, Undone
  <2> QED
    BY <1>h, <1>29, <2>1, <2>2, RollbackKept DEF Command
<1>30. CASE Preserve
  <2>1. UNCHANGED host /\ ~Enter /\ ~ClearCommitted
    BY <1>30 DEF Preserve, At, Undoing, Enter, ClearCommitted
  <2>2. /\ InProgress' => InProgress /\ run'.current = run.current /\ UNCHANGED aside
        /\ Phase' = "undo" => Phase = "undo" /\ run'.todo = run.todo
        /\ RolledBack' => RolledBack
        /\ run'.then = "undone" => RolledBack'
    BY <1>30, TodoFields DEF InProgress, Forward, Phase, RolledBack, RollbackInv, Preserve, TypeInv, IsRun
  <2> QED
    BY <1>h, <1>30, <2>1, <2>2, RollbackKept DEF Command
<1>31. CASE Reverted
  <2>1. UNCHANGED host /\ ~Enter /\ ~ClearCommitted
    BY <1>31 DEF Reverted, At, Undoing, Enter, ClearCommitted
  <2>2. /\ InProgress' => InProgress /\ run'.current = run.current /\ UNCHANGED aside
        /\ Phase' = "undo" => Phase = "undo" /\ run'.todo = run.todo
        /\ RolledBack' => RolledBack
        /\ run'.then = "undone" => RolledBack'
    BY <1>31, TodoFields, StageNames DEF InProgress, Forward, Phase, RolledBack, RollbackInv, Reverted
  <2> QED
    BY <1>h, <1>31, <2>1, <2>2, RollbackKept DEF Command
<1>32. CASE Revert
  <2>1. /\ run' = [run EXCEPT !.pending = Requested(NextToRestore)] /\ run.stage = "revert"
        /\ ~Enter /\ ~ClearCommitted
    BY <1>32 DEF Revert, Enter, ClearCommitted
  <2>2. run'.stage = "revert" /\ run'.then = run.then
    BY <2>1, RequestedFields
  <2>3. ~InProgress' /\ ~RolledBack /\ ~RolledBack' /\ run'.then # "undone"
    BY <2>1, <2>2 DEF InProgress, Forward, Phase, RolledBack, RollbackInv
  <2> QED
    BY <1>h, <1>32, <2>1, <2>3, RollbackFrame DEF Command
<1>33. CASE Raise
  <2>1. UNCHANGED <<host, aside>> /\ ~Enter /\ ~ClearCommitted /\ InProgress /\ ~RolledBack
    BY <1>33 DEF Raise, Applying, At, Enter, ClearCommitted, InProgress, Forward, Phase, RolledBack
  <2>2. /\ Phase' = "undo" /\ run'.todo = DOMAIN run.current /\ run'.current = run.current
        /\ run'.then = run.then
    BY <1>33, RaiseFields DEF RaiseRun, SameBooks, Phase
  <2>3. ~RolledBack' /\ run'.then # "undone"
    BY <2>1, <2>2 DEF RolledBack, RollbackInv
  <2> QED
    BY <1>h, <1>33, <2>1, <2>2, <2>3, RollbackKept DEF Command
<1>34. CASE RemoveLedger
  <2>1. UNCHANGED host /\ run' = IdleRun /\ ~Enter /\ ~ClearCommitted
    BY <1>34 DEF RemoveLedger, Finish, Enter, ClearCommitted, Undoing
  <2>2. ~InProgress' /\ Phase' # "undo" /\ ~RolledBack' /\ run'.then # "undone"
    BY <2>1, IdleFields DEF InProgress, Forward, Phase, RolledBack
  <2> QED
    BY <1>h, <1>34, <2>1, <2>2, RollbackKept DEF Command
<1>35. CASE UndoFails
  <2>1. UNCHANGED host /\ run' = IdleRun /\ ~Enter /\ ~ClearCommitted
    BY <1>35 DEF UndoFails, Finish, Enter, ClearCommitted, Undoing
  <2>2. ~InProgress' /\ Phase' # "undo" /\ ~RolledBack' /\ run'.then # "undone"
    BY <2>1, IdleFields DEF InProgress, Forward, Phase, RolledBack
  <2> QED
    BY <1>h, <1>35, <2>1, <2>2, RollbackKept DEF Command
<1>36. CASE RecoveryFails
  <2>1. UNCHANGED host /\ run' = IdleRun /\ ~Enter /\ ~ClearCommitted
    BY <1>36 DEF RecoveryFails, Finish, Enter, ClearCommitted, Undoing
  <2>2. ~InProgress' /\ Phase' # "undo" /\ ~RolledBack' /\ run'.then # "undone"
    BY <2>1, IdleFields DEF InProgress, Forward, Phase, RolledBack
  <2> QED
    BY <1>h, <1>36, <2>1, <2>2, RollbackKept DEF Command
<1>37. CASE LastRestartFails
  <2>1. UNCHANGED host /\ run' = IdleRun /\ ~Enter /\ ~ClearCommitted
    BY <1>37 DEF LastRestartFails, Finish, Enter, ClearCommitted, Undoing
  <2>2. ~InProgress' /\ Phase' # "undo" /\ ~RolledBack' /\ run'.then # "undone"
    BY <2>1, IdleFields DEF InProgress, Forward, Phase, RolledBack
  <2> QED
    BY <1>h, <1>37, <2>1, <2>2, RollbackKept DEF Command
<1>38. CASE UninstallFailed
  <2>1. UNCHANGED host /\ run' = IdleRun /\ ~Enter /\ ~ClearCommitted
    BY <1>38 DEF UninstallFailed, Finish, Enter, ClearCommitted, Undoing
  <2>2. ~InProgress' /\ Phase' # "undo" /\ ~RolledBack' /\ run'.then # "undone"
    BY <2>1, IdleFields DEF InProgress, Forward, Phase, RolledBack
  <2> QED
    BY <1>h, <1>38, <2>1, <2>2, RollbackKept DEF Command
<1>39. CASE Kill
  <2>1. UNCHANGED host /\ run' = IdleRun
    BY <1>39 DEF Kill
  <2>2. ~InProgress' /\ ~RolledBack' /\ run'.then # "undone"
    BY <2>1, IdleFields DEF InProgress, Forward, Phase, RolledBack
  <2>3. hist'.ended # "undone"
    BY <1>39, KillFields
  <2> QED
    BY <2>2, <2>3 DEF RollbackInv
<1> QED
  BY <1>1, <1>2, <1>3, <1>4, <1>5, <1>6, <1>7, <1>8, <1>9, <1>10, <1>11, <1>12, <1>13, <1>14, <1>15, <1>16, <1>17, <1>18, <1>19, <1>20, <1>21, <1>22, <1>23, <1>24, <1>25, <1>26, <1>27, <1>28, <1>29, <1>30, <1>31, <1>32, <1>33, <1>34, <1>35, <1>36, <1>37, <1>38, <1>39 DEF Command

LEMMA RollbackEdit == ASSUME BookInv, RollbackInv, NEW x \in Ops, Edit(x) PROVE RollbackInv'
<1>1. /\ UNCHANGED <<aside, run, ledger, journal>>
      /\ \A o \in Ops : o # x => host'[o] = host[o]
  BY DEF Edit, BookInv, TypeInv
<1>2. hist'.edited = hist.edited \cup {x} /\ hist'.before = hist.before /\ hist'.ended = hist.ended
  BY EditFields DEF BookInv, SameEffects
<1>3. \A o \in Untouched' : o \in Untouched /\ host'[o] = host[o] /\ SetAsideWhole(o)' = SetAsideWhole(o)
  BY <1>1, <1>2 DEF Untouched, SetAsideWhole
<1> QED
  BY <1>1, <1>2, <1>3 DEF RollbackInv, CapturedWhole, AsBefore, InProgress, Forward, RolledBack, Phase

LEMMA RollbackSame == ASSUME RollbackInv, UNCHANGED vars PROVE RollbackInv'
<1>1. Untouched' = Untouched /\ \A o : SetAsideWhole(o)' = SetAsideWhole(o)
  BY DEF vars, Untouched, SetAsideWhole
<1> QED
  BY <1>1 DEF vars, RollbackInv, CapturedWhole, AsBefore, InProgress, Forward, RolledBack, Phase

LEMMA RollbackAlways == Spec => [](BookInv /\ WholeInv /\ RollbackInv)
<1>1. Init => RollbackInv
  <2> SUFFICES ASSUME Init PROVE RollbackInv
    OBVIOUS
  <2>1. run.stage = "idle" /\ run.then = "idle"
    BY IdleStage DEF Init, IdleRun
  <2>2. hist.ended = "none"
    BY DEF Init
  <2> QED
    BY <2>1, <2>2 DEF RollbackInv, InProgress, Forward, RolledBack, Phase
<1>2. BookInv /\ WholeInv /\ RollbackInv /\ [Next]_vars => WholeInv' /\ RollbackInv'
  BY WholeStep, RollbackStep, RollbackEdit, RollbackSame DEF Next
<1>3. Init => WholeInv
  BY RecordInit
<1> QED
  BY <1>1, <1>2, <1>3, HostTypes, PTL DEF Spec

\* An install that failed and was rolled back leaves the host as it found it, but for
\* retired bundle files and for what somebody else changed.
THEOREM RollbackRestores == Spec => []RollbackWhole
<1>1. RollbackInv => RollbackWhole
  BY DEF RollbackInv, RollbackWhole, AsBefore, Untouched
<1> QED
  BY <1>1, RollbackAlways, PTL

-----------------------------------------------------------------------------
(* Services.  Each runs what is on the disk, or is due for a restart, or its *)
(* file is between two renames, or is still to be undone.                   *)

Quiet == {"idle", "flush", "enter", "finish", "undone", "commit", "clear", "remove", "failed"}

RestartsInv ==
    /\ run.stage \in Quiet => run.pending = {}
    /\ run.stage # "flush" => run.queue = {}

Fresh(o) == loaded[o] = host[o] \/ o \in run.pending \cup run.queue

LoadedInv ==
    hist.kills = 0 /\ ~hist.missed =>
        \A o \in Restarting \ hist.edited :
            \/ Fresh(o)
            \/ /\ run.stage = "change" /\ o = Op
               /\ o \in Packaged => run.current[o] # Stock /\ aside[o] # Stock
            \/ /\ run.stage = "undo" /\ o \in run.todo
               /\ o \in Packaged => ~Matches(o, run.current[o])

LEMMA RestartsStep == ASSUME BookInv, RestartsInv, Begin \/ Command \/ Kill PROVE RestartsInv'
<1> USE DEF BookInv
<1>1. CASE ClearCommitted
  BY <1>1, IdleFields DEF RestartsInv, Quiet, ClearCommitted, Finish
<1>2. CASE RemoveLedger
  BY <1>2, IdleFields DEF RestartsInv, Quiet, RemoveLedger, Finish
<1>3. CASE UndoFails
  BY <1>3, IdleFields DEF RestartsInv, Quiet, UndoFails, Finish
<1>4. CASE RecoveryFails
  BY <1>4, IdleFields DEF RestartsInv, Quiet, RecoveryFails, Finish
<1>5. CASE LastRestartFails
  BY <1>5, IdleFields DEF RestartsInv, Quiet, LastRestartFails, Finish
<1>6. CASE UninstallFailed
  BY <1>6, IdleFields DEF RestartsInv, Quiet, UninstallFailed, Finish
<1>7. CASE Kill
  BY <1>7, IdleFields DEF RestartsInv, Quiet, Kill, Finish
<1>8. CASE Begin
  BY <1>8, BeginFields DEF RestartsInv, Quiet, Begin
<1>9. CASE Recovered
  BY <1>9, FlushFields DEF RestartsInv, Quiet, Recovered, Targets
<1>10. CASE FlushBeforeRetirement
  BY <1>10, FlushFields DEF RestartsInv, Quiet, FlushBeforeRetirement, Targets
<1>11. CASE AllApplied
  BY <1>11, FlushFields DEF RestartsInv, Quiet, AllApplied, Targets
<1>12. CASE AllRestored
  BY <1>12, FlushFields DEF RestartsInv, Quiet, AllRestored, Targets
<1>13. CASE AllUndone
  BY <1>13, FlushFields DEF RestartsInv, Quiet, AllUndone, Targets
<1>14. CASE UninstallFails
  BY <1>14, FlushFields DEF RestartsInv, Quiet, UninstallFails, Targets
<1>15. CASE Restart
  BY <1>15, RestartFields DEF RestartsInv, Quiet, Restart
<1>16. CASE Flushed
  BY <1>16, GotoFields, StageNames DEF RestartsInv, Quiet, Flushed, TypeInv, IsRun, Targets, SameRestarts
<1>17. CASE Enter
  BY <1>17, EnterFields, IdleFields DEF RestartsInv, Quiet, Enter, EnterInstall, EnterUninstall, SameRestarts
<1>18. CASE SkipOperation
  BY <1>18, SkipOperationFields DEF RestartsInv, Quiet, SkipOperation, At, SameRestarts
<1>19. CASE Capture
  BY <1>19, CaptureFields DEF RestartsInv, Quiet, Capture, At, SameRestarts
<1>20. CASE ChangeFile
  <2>1. Op \in Ops /\ Changed(Op) /\ run.stage = "change"
    BY <1>20, OpMember DEF ChangeFile, At
  <2> QED
    BY <2>1, ChangedFields DEF RestartsInv, Quiet
<1>21. CASE MoveIn
  <2>1. Op \in Ops /\ Changed(Op) /\ run.stage = "change"
    BY <1>21, OpMember DEF MoveIn, At
  <2> QED
    BY <2>1, ChangedFields DEF RestartsInv, Quiet
<1>22. CASE ChangeRest
  <2>1. Op \in Ops /\ Changed(Op) /\ run.stage = "change"
    BY <1>22, OpMember DEF ChangeRest, At
  <2> QED
    BY <2>1, ChangedFields DEF RestartsInv, Quiet
<1>23. CASE SetAside
  BY <1>23 DEF SetAside, RestartsInv
<1>24. CASE ChangeHalf
  BY <1>24 DEF ChangeHalf, RestartsInv
<1>25. CASE Settle
  <2>1. InHand /\ run.stage = "settle"
    BY <1>25 DEF Settle, At, PositionInv, Changing, InHand
  <2> QED
    BY <1>25, <2>1, SettleFields DEF RestartsInv, Quiet, SameRestarts
<1>26. CASE RetireChanged
  BY <1>26, GaveUpFields DEF RestartsInv, Quiet, RetireChanged, At, SameRestarts
<1>27. CASE Retired
  BY <1>27, GaveUpFields DEF RestartsInv, Quiet, Retired, At, SameRestarts
<1>28. CASE Retire
  BY <1>28, GotoFields, StageNames DEF RestartsInv, Quiet, Retire, At, SameRestarts
<1>29. CASE RestoreRetired
  BY <1>29, GotoFields, StageNames DEF RestartsInv, Quiet, RestoreRetired, At, SameRestarts
<1>30. CASE DiscardReplaced
  BY <1>30, GotoFields, StageNames DEF RestartsInv, Quiet, DiscardReplaced, At, SameRestarts
<1>31. CASE Commit
  BY <1>31, GotoFields, StageNames DEF RestartsInv, Quiet, Commit, At, SameRestarts
<1>32. CASE Restore
  BY <1>32, GotoFields, StageNames DEF RestartsInv, Quiet, Restore, At, SameRestarts
<1>33. CASE UndoNext
  <2>1. run' = [run EXCEPT !.pending = Requested(NextToUndo)] /\ run.stage \in {"undo", "recover", "revert"}
    BY <1>33 DEF UndoNext, Undoing
  <2> QED
    BY <2>1, RequestedFields DEF RestartsInv, Quiet
<1>34. CASE Revert
  <2>1. run' = [run EXCEPT !.pending = Requested(NextToRestore)] /\ run.stage \in {"undo", "recover", "revert"}
    BY <1>34 DEF Revert, Undoing
  <2> QED
    BY <2>1, RequestedFields DEF RestartsInv, Quiet
<1>35. CASE Undid
  BY <1>35, UndidFields DEF RestartsInv, Quiet, Undid, Undoing
<1>36. CASE Undone
  BY <1>36, UndoneFields, IdleFields DEF RestartsInv, Quiet, Undone, SameRestarts
<1>37. CASE Preserve
  BY <1>37, TodoFields DEF RestartsInv, Quiet, Preserve, TypeInv, IsRun, SameRestarts
<1>38. CASE Reverted
  BY <1>38, TodoFields, StageNames DEF RestartsInv, Quiet, Reverted, SameRestarts
<1>39. CASE Raise
  BY <1>39, RaiseFields DEF RestartsInv, Quiet, RaiseRun
<1> QED
  BY <1>1, <1>2, <1>3, <1>4, <1>5, <1>6, <1>7, <1>8, <1>9, <1>10, <1>11, <1>12, <1>13, <1>14, <1>15, <1>16, <1>17, <1>18, <1>19, <1>20, <1>21, <1>22, <1>23, <1>24, <1>25, <1>26, <1>27, <1>28, <1>29, <1>30, <1>31, <1>32, <1>33, <1>34, <1>35, <1>36, <1>37, <1>38, <1>39 DEF Command

LEMMA LoadedFrame ==
    ASSUME HistoryGrows, LoadedInv, UNCHANGED <<host, loaded>>,
           run.pending \cup run.queue \subseteq run'.pending \cup run'.queue,
           run.stage \notin {"change", "undo"}
    PROVE  LoadedInv'
<1>1. \A o : Fresh(o) => Fresh(o)'
  BY DEF Fresh
<1> QED
  BY <1>1 DEF LoadedInv, HistoryGrows

\* The same for an action that changes the operation x, and asks for its restart.
LEMMA LoadedWrites ==
    ASSUME HistoryGrows, LoadedInv, UNCHANGED loaded, NEW x \in Ops,
           \A o \in Restarting : o # x => host'[o] = host[o],
           run.pending \cup run.queue \subseteq run'.pending \cup run'.queue,
           x \in Restarting => x \in run'.pending \cup run'.queue,
           run.stage = "change" => x = Op,
           run.stage = "undo" =>
               /\ run'.stage = "undo" /\ run'.current = run.current
               /\ run'.todo = run.todo \/ run'.todo = run.todo \ {x}
               /\ \A o \in Packaged : o # x => host'[o] = host[o] /\ aside'[o] = aside[o]
    PROVE  LoadedInv'
<1>1. \A o \in Restarting : (Fresh(o) \/ o = x) => Fresh(o)'
  BY DEF Fresh
<1>2. run.stage = "undo" => \A o \in Packaged : o # x => Matches(o, run.current[o])' = Matches(o, run.current[o])
  BY DEF Matches
<1> QED
  BY <1>1, <1>2 DEF LoadedInv, HistoryGrows

LEMMA LoadedStep ==
    ASSUME BookInv, WholeInv, RollbackInv, RestartsInv, LoadedInv, Begin \/ Command \/ Kill PROVE LoadedInv'
<1> USE DEF BookInv
<1>h. HistoryGrows
  BY HistoryStep
<1>1. CASE Begin
  <2>1. UNCHANGED <<host, loaded>>
    BY <1>1 DEF Begin
  <2>2. run.stage \notin {"change", "undo"} /\ run.pending \cup run.queue \subseteq run'.pending \cup run'.queue
    BY <1>1, BeginFields, BeginStage DEF Begin, RestartsInv, Quiet
  <2> QED
    BY <1>h, <2>1, <2>2, LoadedFrame
<1>2. CASE Recovered
  <2>1. UNCHANGED <<host, loaded>>
    BY <1>2 DEF Recovered
  <2>2. run.stage \notin {"change", "undo"} /\ run.pending \cup run.queue \subseteq run'.pending \cup run'.queue
    BY <1>2, FlushFields DEF Recovered, At, Targets, RestartsInv, Quiet
  <2> QED
    BY <1>h, <2>1, <2>2, LoadedFrame
<1>3. CASE FlushBeforeRetirement
  <2>1. UNCHANGED <<host, loaded>>
    BY <1>3 DEF FlushBeforeRetirement
  <2>2. run.stage \notin {"change", "undo"} /\ run.pending \cup run.queue \subseteq run'.pending \cup run'.queue
    BY <1>3, FlushFields DEF FlushBeforeRetirement, At, Targets, RestartsInv, Quiet
  <2> QED
    BY <1>h, <2>1, <2>2, LoadedFrame
<1>4. CASE AllApplied
  <2>1. UNCHANGED <<host, loaded>>
    BY <1>4 DEF AllApplied
  <2>2. run.stage \notin {"change", "undo"} /\ run.pending \cup run.queue \subseteq run'.pending \cup run'.queue
    BY <1>4, FlushFields DEF AllApplied, At, Targets, RestartsInv, Quiet
  <2> QED
    BY <1>h, <2>1, <2>2, LoadedFrame
<1>5. CASE AllRestored
  <2>1. UNCHANGED <<host, loaded>>
    BY <1>5 DEF AllRestored
  <2>2. run.stage \notin {"change", "undo"} /\ run.pending \cup run.queue \subseteq run'.pending \cup run'.queue
    BY <1>5, FlushFields DEF AllRestored, At, Targets, RestartsInv, Quiet
  <2> QED
    BY <1>h, <2>1, <2>2, LoadedFrame
<1>6. CASE UninstallFails
  <2>1. UNCHANGED <<host, loaded>>
    BY <1>6 DEF UninstallFails
  <2>2. run.stage \notin {"change", "undo"} /\ run.pending \cup run.queue \subseteq run'.pending \cup run'.queue
    BY <1>6, FlushFields DEF UninstallFails, At, Targets, RestartsInv, Quiet
  <2> QED
    BY <1>h, <2>1, <2>2, LoadedFrame
<1>7. CASE AllUndone
  <2>1. UNCHANGED <<host, loaded>> /\ run.stage = "undo" /\ run.todo = {}
    BY <1>7 DEF AllUndone
  <2>2. run'.queue = run.pending /\ run.queue = {}
    BY <1>7, FlushFields DEF AllUndone, Targets, RestartsInv
  <2> QED
    BY <1>h, <2>1, <2>2 DEF LoadedInv, HistoryGrows, Fresh
<1>8. CASE Restart
  <2> DEFINE o == LastOf(Order, run.queue)
  <2>1. UNCHANGED host /\ run.stage = "flush"
    BY <1>8 DEF Restart
  <2>2. /\ o \in Restarting /\ loaded' = [loaded EXCEPT ![o] = host[o]]
        /\ run'.queue = run.queue \ {o} /\ run'.pending = run.pending
    BY <1>8, RestartFields DEF TypeInv, IsRun
  <2> HIDE DEF o
  <2>3. \A x \in Restarting : Fresh(x) => Fresh(x)'
    BY <2>1, <2>2 DEF Fresh, TypeInv
  <2> QED
    BY <1>h, <2>1, <2>3 DEF LoadedInv, HistoryGrows
<1>9. CASE Flushed
  <2>1. UNCHANGED <<host, loaded>>
    BY <1>9 DEF Flushed
  <2>2. run.stage \notin {"change", "undo"} /\ run.pending \cup run.queue \subseteq run'.pending \cup run'.queue
    BY <1>9, GotoFields, StageNames DEF Flushed, TypeInv, IsRun, Targets, SameRestarts, RestartsInv, Quiet
  <2> QED
    BY <1>h, <2>1, <2>2, LoadedFrame
<1>10. CASE Enter
  <2>1. UNCHANGED <<host, loaded>>
    BY <1>10 DEF Enter
  <2>2. run.stage \notin {"change", "undo"} /\ run.pending \cup run.queue \subseteq run'.pending \cup run'.queue
    BY <1>10, EnterFields, IdleFields DEF Enter, EnterInstall, EnterUninstall, SameRestarts, RestartsInv, Quiet
  <2> QED
    BY <1>h, <2>1, <2>2, LoadedFrame
<1>11. CASE SkipOperation
  <2>1. UNCHANGED <<host, loaded>>
    BY <1>11 DEF SkipOperation
  <2>2. run.stage \notin {"change", "undo"} /\ run.pending \cup run.queue \subseteq run'.pending \cup run'.queue
    BY <1>11, SkipOperationFields DEF SkipOperation, At, SameRestarts, RestartsInv, Quiet
  <2> QED
    BY <1>h, <2>1, <2>2, LoadedFrame
<1>12. CASE Capture
  <2>1. UNCHANGED <<host, loaded>>
    BY <1>12 DEF Capture
  <2>2. run.stage \notin {"change", "undo"} /\ run.pending \cup run.queue \subseteq run'.pending \cup run'.queue
    BY <1>12, CaptureFields DEF Capture, At, SameRestarts, RestartsInv, Quiet
  <2> QED
    BY <1>h, <2>1, <2>2, LoadedFrame
<1>13. CASE ChangeFile
  <2>1. Op \in Ops /\ Changed(Op) /\ UNCHANGED loaded /\ run.stage = "change"
    BY <1>13, OpMember DEF ChangeFile, At
  <2>2. /\ run'.pending = Requested(Op) /\ run'.queue = run.queue
        /\ host' = [host EXCEPT ![Op] = Desired(Op)]
    BY <2>1, ChangedFields
  <2>3. PICK x \in Ops : x = Op
    BY <2>1
  <2>4. /\ run.pending \cup run.queue \subseteq run'.pending \cup run'.queue
        /\ x \in Restarting => x \in run'.pending
        /\ \A o \in Restarting : o # x => host'[o] = host[o]
    BY <2>2, <2>3, Sets DEF Requested, TypeInv
  <2> QED
    BY <1>h, <2>1, <2>3, <2>4, LoadedWrites
<1>14. CASE MoveIn
  <2>1. Op \in Ops /\ Changed(Op) /\ UNCHANGED loaded /\ run.stage = "change"
    BY <1>14, OpMember DEF MoveIn, At
  <2>2. /\ run'.pending = Requested(Op) /\ run'.queue = run.queue
        /\ host' = [host EXCEPT ![Op] = Desired(Op)]
    BY <2>1, ChangedFields
  <2>3. PICK x \in Ops : x = Op
    BY <2>1
  <2>4. /\ run.pending \cup run.queue \subseteq run'.pending \cup run'.queue
        /\ x \in Restarting => x \in run'.pending
        /\ \A o \in Restarting : o # x => host'[o] = host[o]
    BY <2>2, <2>3, Sets DEF Requested, TypeInv
  <2> QED
    BY <1>h, <2>1, <2>3, <2>4, LoadedWrites
<1>15. CASE ChangeRest
  <2>1. Op \in Ops /\ Changed(Op) /\ UNCHANGED loaded /\ run.stage = "change"
    BY <1>15, OpMember DEF ChangeRest, At
  <2>2. /\ run'.pending = Requested(Op) /\ run'.queue = run.queue
        /\ host' = [host EXCEPT ![Op] = Desired(Op)]
    BY <2>1, ChangedFields
  <2>3. PICK x \in Ops : x = Op
    BY <2>1
  <2>4. /\ run.pending \cup run.queue \subseteq run'.pending \cup run'.queue
        /\ x \in Restarting => x \in run'.pending
        /\ \A o \in Restarting : o # x => host'[o] = host[o]
    BY <2>2, <2>3, Sets DEF Requested, TypeInv
  <2> QED
    BY <1>h, <2>1, <2>3, <2>4, LoadedWrites
<1>16. CASE SetAside
  <2>1. /\ Op \in Packaged /\ Op \in Ops /\ UNCHANGED <<loaded, run>> /\ run.stage = "change"
        /\ run.current[Op] # Stock /\ aside[Op] = Stock
        /\ aside' = [aside EXCEPT ![Op] = host[Op]] /\ host' = [host EXCEPT ![Op] = Stock]
    BY <1>16, OpMember DEF SetAside, At
  <2>2. Op' = Op
    BY <2>1, EarlierSame
  <2>3. PICK x \in Ops : x = Op
    BY <2>1
  <2>4. /\ \A o \in Restarting : o # x => host'[o] = host[o]
        /\ aside'[x] = host[x] /\ host'[x] = Stock
    BY <2>1, <2>3, Sets DEF TypeInv
  <2>5. \A o \in Restarting : o # x => Fresh(o)' = Fresh(o)
    BY <2>1, <2>4 DEF Fresh
  <2>6. CASE host[x] = Stock
    <3>1. Fresh(x)' = Fresh(x)
      BY <2>1, <2>4, <2>6 DEF Fresh
    <3> QED
      BY <1>h, <2>1, <2>2, <2>3, <2>5, <3>1 DEF LoadedInv, HistoryGrows
  <2>7. CASE host[x] # Stock
    BY <1>h, <2>1, <2>2, <2>3, <2>4, <2>5, <2>7 DEF LoadedInv, HistoryGrows
  <2> QED
    BY <2>6, <2>7
<1>17. CASE ChangeHalf
  <2>1. /\ Op \in Plain /\ UNCHANGED <<loaded, run>> /\ run.stage = "change" /\ host' = [host EXCEPT ![Op] = Half]
    BY <1>17 DEF ChangeHalf, At
  <2>2. Op' = Op /\ Op \notin Packaged
    BY <2>1, EarlierSame, Sets
  <2>3. \A o \in Restarting : o # Op => host'[o] = host[o]
    BY <2>1, Sets DEF TypeInv
  <2>4. \A o \in Restarting : o # Op => Fresh(o)' = Fresh(o)
    BY <2>1, <2>3 DEF Fresh
  <2> QED
    BY <1>h, <2>1, <2>2, <2>4 DEF LoadedInv, HistoryGrows
<1>18. CASE Settle
  <2>1. InHand /\ UNCHANGED <<host, loaded>> /\ run.stage = "settle"
    BY <1>18 DEF Settle, At, PositionInv, Changing, InHand
  <2>2. run'.pending = run.pending /\ run'.queue = run.queue
    BY <1>18, <2>1, SettleFields DEF SameRestarts
  <2> QED
    BY <1>h, <2>1, <2>2, LoadedFrame
<1>19. CASE RetireChanged
  <2>1. UNCHANGED <<host, loaded>>
    BY <1>19 DEF RetireChanged
  <2>2. run.stage \notin {"change", "undo"} /\ run.pending \cup run.queue \subseteq run'.pending \cup run'.queue
    BY <1>19, GaveUpFields DEF RetireChanged, At, SameRestarts, RestartsInv, Quiet
  <2> QED
    BY <1>h, <2>1, <2>2, LoadedFrame
<1>20. CASE Retired
  <2>1. UNCHANGED <<host, loaded>>
    BY <1>20 DEF Retired
  <2>2. run.stage \notin {"change", "undo"} /\ run.pending \cup run.queue \subseteq run'.pending \cup run'.queue
    BY <1>20, GaveUpFields DEF Retired, At, SameRestarts, RestartsInv, Quiet
  <2> QED
    BY <1>h, <2>1, <2>2, LoadedFrame
<1>21. CASE Retire
  <2>1. UNCHANGED <<host, loaded>>
    BY <1>21 DEF Retire
  <2>2. run.stage \notin {"change", "undo"} /\ run.pending \cup run.queue \subseteq run'.pending \cup run'.queue
    BY <1>21, GotoFields, StageNames DEF Retire, At, SameRestarts, RestartsInv, Quiet
  <2> QED
    BY <1>h, <2>1, <2>2, LoadedFrame
<1>22. CASE DiscardReplaced
  <2>1. UNCHANGED <<host, loaded>>
    BY <1>22 DEF DiscardReplaced
  <2>2. run.stage \notin {"change", "undo"} /\ run.pending \cup run.queue \subseteq run'.pending \cup run'.queue
    BY <1>22, GotoFields, StageNames DEF DiscardReplaced, At, SameRestarts, RestartsInv, Quiet
  <2> QED
    BY <1>h, <2>1, <2>2, LoadedFrame
<1>23. CASE Commit
  <2>1. UNCHANGED <<host, loaded>>
    BY <1>23 DEF Commit
  <2>2. run.stage \notin {"change", "undo"} /\ run.pending \cup run.queue \subseteq run'.pending \cup run'.queue
    BY <1>23, GotoFields, StageNames DEF Commit, At, SameRestarts, RestartsInv, Quiet
  <2> QED
    BY <1>h, <2>1, <2>2, LoadedFrame
<1>24. CASE Restore
  <2>1. UNCHANGED <<host, loaded>>
    BY <1>24 DEF Restore
  <2>2. run.stage \notin {"change", "undo"} /\ run.pending \cup run.queue \subseteq run'.pending \cup run'.queue
    BY <1>24, GotoFields, StageNames DEF Restore, At, SameRestarts, RestartsInv, Quiet
  <2> QED
    BY <1>h, <2>1, <2>2, LoadedFrame
<1>25. CASE RestoreRetired
  <2>1. /\ Goto("retired") /\ UNCHANGED loaded /\ host' = [host EXCEPT ![Op] = run.pre[Op]]
        /\ Op \in Ops /\ Op \in Bundles /\ run.stage = "retire"
    BY <1>25, OpMember DEF RestoreRetired, At, PositionInv, Retiring
  <2>2. run'.pending = run.pending /\ run'.queue = run.queue
    BY <2>1, GotoFields, StageNames DEF SameRestarts
  <2>3. \A o \in Restarting : host'[o] = host[o]
    BY <2>1, Sets DEF TypeInv
  <2>4. \A o \in Restarting : Fresh(o)' = Fresh(o)
    BY <2>1, <2>2, <2>3 DEF Fresh
  <2> QED
    BY <1>h, <2>1, <2>4 DEF LoadedInv, HistoryGrows
<1>26. CASE ClearCommitted
  <2>1. UNCHANGED <<host, loaded>>
    BY <1>26 DEF ClearCommitted
  <2>2. run.stage \notin {"change", "undo"} /\ run.pending \cup run.queue \subseteq run'.pending \cup run'.queue
    BY <1>26, IdleFields DEF ClearCommitted, Finish, RestartsInv, Quiet
  <2> QED
    BY <1>h, <2>1, <2>2, LoadedFrame
<1>27. CASE RemoveLedger
  <2>1. UNCHANGED <<host, loaded>>
    BY <1>27 DEF RemoveLedger
  <2>2. run.stage \notin {"change", "undo"} /\ run.pending \cup run.queue \subseteq run'.pending \cup run'.queue
    BY <1>27, IdleFields DEF RemoveLedger, Finish, RestartsInv, Quiet
  <2> QED
    BY <1>h, <2>1, <2>2, LoadedFrame
<1>28. CASE UninstallFailed
  <2>1. UNCHANGED <<host, loaded>>
    BY <1>28 DEF UninstallFailed
  <2>2. run.stage \notin {"change", "undo"} /\ run.pending \cup run.queue \subseteq run'.pending \cup run'.queue
    BY <1>28, IdleFields DEF UninstallFailed, Finish, RestartsInv, Quiet
  <2> QED
    BY <1>h, <2>1, <2>2, LoadedFrame
<1>29. CASE UndoFails
  <2>1. hist'.missed
    BY <1>29, BlockedFields, EndingNames DEF UndoFails, BlockedHistory
  <2> QED
    BY <2>1 DEF LoadedInv
<1>30. CASE RecoveryFails
  <2>1. hist'.missed
    BY <1>30, BlockedFields, EndingNames DEF RecoveryFails, BlockedHistory
  <2> QED
    BY <2>1 DEF LoadedInv
<1>31. CASE LastRestartFails
  <2>1. hist'.missed
    BY <1>31, BlockedFields, EndingNames DEF LastRestartFails, BlockedHistory
  <2> QED
    BY <2>1 DEF LoadedInv
<1>32. CASE Kill
  <2>1. hist'.kills # 0
    BY <1>32, KillFields
  <2> QED
    BY <2>1 DEF LoadedInv
<1>33. CASE UndoNext
  <2>1. /\ run' = [run EXCEPT !.pending = Requested(NextToUndo)] /\ run.stage \in {"undo", "recover"}
        /\ RestoreStep(NextToUndo, Preimages[NextToUndo]) /\ UNCHANGED loaded
    BY <1>33 DEF UndoNext, Undoing
  <2>2. NextToUndo \in Ops /\ Preimages[NextToUndo] \in Content
    BY <1>33, NextToUndoFacts DEF UndoNext
  <2>3. /\ run'.stage = run.stage /\ run'.todo = run.todo /\ run'.current = run.current
        /\ run'.pending = Requested(NextToUndo) /\ run'.queue = run.queue
    BY <2>1, RequestedFields DEF SameBooks
  <2>4. PICK x \in Ops : x = NextToUndo
    BY <2>2
  <2>5. /\ \A o \in Ops : o # x => host'[o] = host[o]
        /\ \A o \in Packaged : o # x => aside'[o] = aside[o]
    BY <2>1, <2>2, <2>4, RestoreStepTypes
  <2>6. /\ run.pending \cup run.queue \subseteq run'.pending \cup run'.queue
        /\ x \in Restarting => x \in run'.pending
    BY <2>3, <2>4 DEF Requested
  <2> QED
    BY <1>h, <2>1, <2>3, <2>4, <2>5, <2>6, LoadedWrites, Sets
<1>34. CASE Undid
  <2>1. UNCHANGED <<host, aside, loaded>> /\ run.stage \in {"undo", "recover"}
    BY <1>34 DEF Undid, Undoing
  <2>2. /\ run'.stage = run.stage /\ run'.todo = run.todo \ {NextToUndo} /\ run'.current = run.current
        /\ run'.queue = run.queue
        /\ run'.pending = IF run.stage = "undo" /\ NextToUndo \notin Packaged THEN Requested(NextToUndo) ELSE run.pending
    BY <1>34, UndidFields DEF SameBooks
  <2>3. PICK x \in Ops : x = NextToUndo
    BY <1>34, NextToUndoFacts DEF Undid
  <2>4. run.pending \cup run.queue \subseteq run'.pending \cup run'.queue
    BY <2>2, <2>3 DEF Requested
  <2>5. CASE run.stage = "recover"
    BY <1>h, <2>1, <2>4, <2>5, LoadedFrame
  <2>6. CASE run.stage = "undo" /\ x \notin Packaged
    <3>1. x \in Restarting => x \in run'.pending
      BY <2>2, <2>3, <2>6 DEF Requested
    <3> QED
      BY <1>h, <2>1, <2>2, <2>3, <2>4, <2>6, <3>1, LoadedWrites
  <2>7. CASE run.stage = "undo" /\ x \in Packaged
    <3>1. /\ x \in DOMAIN run.current /\ run.current[x] \in Content
          /\ Matches(x, run.current[x]) \/ Missing(x, run.current[x])
      BY <1>34, <2>3, <2>7, NextToUndoFacts DEF Undid
    <3>2. x \in Restarting \ hist.edited => Matches(x, run.current[x])
      <4> SUFFICES ASSUME x \in Restarting \ hist.edited PROVE Matches(x, run.current[x])
        OBVIOUS
      <4>1. x \in Untouched /\ InProgress
        BY <2>7, Sets DEF Untouched, InProgress, Phase
      <4>2. SetAsideWhole(x)
        BY <3>1, <4>1 DEF RollbackInv, CapturedWhole
      <4>3. run.current[x] # Stock => run.current[x] \in Package
        BY <2>7, <3>1, PackageContent DEF WholeInv, BooksWhole, Whole
      <4> QED
        BY <2>7, <3>1, <4>2, <4>3, ContentFacts DEF SetAsideWhole, Missing, Matches
    <3>3. \A o : (Fresh(o) => Fresh(o)') /\ Matches(o, run.current[o])' = Matches(o, run.current[o])
      BY <2>1, <2>2, <2>4 DEF Fresh, Matches
    <3> QED
      BY <1>h, <2>1, <2>2, <2>3, <2>7, <3>2, <3>3 DEF LoadedInv, HistoryGrows
  <2> QED
    BY <2>1, <2>5, <2>6, <2>7
<1>35. CASE Undone
  <2>1. UNCHANGED <<host, loaded>>
    BY <1>35 DEF Undone
  <2>2. run.stage \notin {"change", "undo"} /\ run.pending \cup run.queue \subseteq run'.pending \cup run'.queue
    BY <1>35, UndoneFields, IdleFields DEF Undone, SameRestarts, RestartsInv, Quiet
  <2> QED
    BY <1>h, <2>1, <2>2, LoadedFrame
<1>36. CASE Preserve
  <2>1. UNCHANGED <<host, loaded>>
    BY <1>36 DEF Preserve
  <2>2. run.stage \notin {"change", "undo"} /\ run.pending \cup run.queue \subseteq run'.pending \cup run'.queue
    BY <1>36, TodoFields DEF Preserve, TypeInv, IsRun, SameRestarts, RestartsInv, Quiet
  <2> QED
    BY <1>h, <2>1, <2>2, LoadedFrame
<1>37. CASE Reverted
  <2>1. UNCHANGED <<host, loaded>>
    BY <1>37 DEF Reverted
  <2>2. run.stage \notin {"change", "undo"} /\ run.pending \cup run.queue \subseteq run'.pending \cup run'.queue
    BY <1>37, TodoFields, StageNames DEF Reverted, SameRestarts, RestartsInv, Quiet
  <2> QED
    BY <1>h, <2>1, <2>2, LoadedFrame
<1>38. CASE Revert
  <2>1. /\ run' = [run EXCEPT !.pending = Requested(NextToRestore)] /\ run.stage = "revert"
        /\ RestoreStep(NextToRestore, ledger.pre[NextToRestore]) /\ UNCHANGED loaded
    BY <1>38 DEF Revert
  <2>2. NextToRestore \in Ops /\ ledger.pre[NextToRestore] \in Content
    BY <2>1, NextToRestoreFacts DEF ControlInv
  <2>3. run'.pending = Requested(NextToRestore) /\ run'.queue = run.queue
    BY <2>1, RequestedFields
  <2>4. PICK x \in Ops : x = NextToRestore
    BY <2>2
  <2>5. \A o \in Ops : o # x => host'[o] = host[o]
    BY <2>1, <2>2, <2>4, RestoreStepTypes
  <2>6. /\ run.pending \cup run.queue \subseteq run'.pending \cup run'.queue
        /\ x \in Restarting => x \in run'.pending
    BY <2>3, <2>4 DEF Requested
  <2> QED
    BY <1>h, <2>1, <2>4, <2>5, <2>6, LoadedWrites, Sets
<1>39. CASE Raise
  <2>1. UNCHANGED <<host, aside, loaded>>
    BY <1>39 DEF Raise
  <2>2. /\ run'.stage = "undo" /\ run'.todo = DOMAIN run.current /\ run'.current = run.current
        /\ run'.pending = run.pending /\ run'.queue = {}
    BY <1>39, RaiseFields DEF RaiseRun, SameBooks
  <2>3. CASE run.stage = "flush"
    <3>1. hist' = [hist EXCEPT !.faults = @ + 1, !.missed = TRUE]
      BY <1>39, <2>3 DEF Raise, Contradicted, At, TypeInv, IsHistory
    <3>2. hist'.missed
      BY <3>1, FaultFields
    <3> QED
      BY <3>2 DEF LoadedInv
  <2>4. CASE run.stage # "flush"
    <3>1. \A o : (Fresh(o) => Fresh(o)') /\ Matches(o, run.current[o])' = Matches(o, run.current[o])
      BY <2>1, <2>2, <2>4 DEF Fresh, Matches, RestartsInv
    <3>2. run.stage # "undo"
      BY <1>39 DEF Raise, Applying
    <3>3. run.stage = "change" => Op \in DOMAIN run.current
      BY DEF PositionInv, Changing
    <3>4. run.stage = "change" /\ (Op \in Packaged => run.current[Op] # Stock /\ aside[Op] # Stock)
              => (Op \in Packaged => ~Matches(Op, run.current[Op]))
      BY DEF Matches
    <3> QED
      BY <1>h, <2>2, <3>1, <3>2, <3>3, <3>4 DEF LoadedInv, HistoryGrows
  <2> QED
    BY <2>3, <2>4
<1> QED
  BY <1>1, <1>2, <1>3, <1>4, <1>5, <1>6, <1>7, <1>8, <1>9, <1>10, <1>11, <1>12, <1>13, <1>14, <1>15, <1>16, <1>17, <1>18, <1>19, <1>20, <1>21, <1>22, <1>23, <1>24, <1>25, <1>26, <1>27, <1>28, <1>29, <1>30, <1>31, <1>32, <1>33, <1>34, <1>35, <1>36, <1>37, <1>38, <1>39 DEF Command

LEMMA LoadedEdit == ASSUME BookInv, LoadedInv, NEW x \in Ops, Edit(x) PROVE LoadedInv'
<1>1. /\ UNCHANGED <<aside, run, loaded>>
      /\ \A o \in Ops : o # x => host'[o] = host[o]
  BY DEF Edit, BookInv, TypeInv
<1>2. /\ hist'.edited = hist.edited \cup {x} /\ hist'.kills = hist.kills /\ hist'.missed = hist.missed
  BY EditFields DEF BookInv, SameEffects
<1>3. Op' = Op /\ \A o \in Ops : o # x => Fresh(o)' = Fresh(o) /\ Matches(o, run.current[o])' = Matches(o, run.current[o])
  BY <1>1, EarlierSame DEF Fresh, Matches
<1> QED
  BY <1>1, <1>2, <1>3, Sets DEF LoadedInv

LEMMA LoadedSame == ASSUME LoadedInv, UNCHANGED vars PROVE LoadedInv'
<1>1. Op' = Op /\ \A o : Fresh(o)' = Fresh(o) /\ Matches(o, run.current[o])' = Matches(o, run.current[o])
  BY EarlierSame DEF vars, Fresh, Matches
<1> QED
  BY <1>1 DEF LoadedInv, vars

\* When a command ends well, the services run what is on the disk, after a rollback and an
\* interrupted one too, unless an earlier restart was lost with a kill or a failed one.
THEOREM ServicesAreFresh == Spec => []ServicesLoad
<1>1. Init => RestartsInv /\ LoadedInv
  <2> SUFFICES ASSUME Init PROVE RestartsInv /\ LoadedInv
    OBVIOUS
  <2>1. run.stage = "idle" /\ run.pending = {} /\ run.queue = {}
    BY IdleStage DEF Init, IdleRun
  <2>2. \A o \in Restarting : loaded[o] = host[o]
    BY Sets DEF Init
  <2> QED
    BY <2>1, <2>2 DEF RestartsInv, LoadedInv, Fresh
<1>2. BookInv /\ WholeInv /\ RollbackInv /\ RestartsInv /\ LoadedInv /\ [Next]_vars => RestartsInv' /\ LoadedInv'
  <2> SUFFICES ASSUME BookInv, WholeInv, RollbackInv, RestartsInv, LoadedInv, [Next]_vars
               PROVE  RestartsInv' /\ LoadedInv'
    OBVIOUS
  <2>1. CASE Begin \/ Command \/ Kill
    BY <2>1, RestartsStep, LoadedStep
  <2>2. CASE \E o \in Ops : Edit(o)
    BY <2>2, LoadedEdit DEF Edit, RestartsInv
  <2>3. CASE UNCHANGED vars
    BY <2>3, LoadedSame DEF RestartsInv, vars
  <2> QED
    BY <2>1, <2>2, <2>3 DEF Next
<1>3. BookInv /\ RestartsInv /\ LoadedInv => ServicesLoad
  <2> SUFFICES ASSUME BookInv, RestartsInv, LoadedInv, run.kind = "none", hist.kills = 0, ~hist.missed,
                      NEW o \in Restarting \ hist.edited
               PROVE  loaded[o] = host[o]
    BY DEF ServicesLoad
  <2>1. run.stage = "idle"
    BY IdleStage DEF BookInv, ControlInv
  <2> QED
    BY <2>1 DEF LoadedInv, Fresh, RestartsInv, Quiet
<1> QED
  BY <1>1, <1>2, <1>3, RollbackAlways, PTL DEF Spec

-----------------------------------------------------------------------------
(* nginx and the build it serves.  Nothing is said once somebody edits one   *)
(* of the two: the code then leaves the other as it is.                      *)

Handled == {Site, Build} \cap hist.edited # {}
Switched == host[Site] \in Package
There == host[Build] \in Package

\* The build is between its two renames, or on its way back from them.
Moving ==
    /\ Build \in DOMAIN journal.pre /\ journal.pre[Build] \in Package
    /\ aside[Build] \in Package
    /\ \/ run.stage = "idle"
       \/ run.stage = "change" /\ Op = Build
       \/ Undoing /\ Build \in run.todo

\* Putting these preimages back neither switches nginx to the build anew, nor
\* takes the build away from an nginx that stays switched.
Agreeable(f) ==
    /\ Site \in DOMAIN f /\ f[Site] \in Package => Switched
    /\ Build \in DOMAIN f /\ f[Build] \notin Package /\ Switched => Site \in DOMAIN f /\ f[Site] \notin Package

\* Once the site is undone, it is as it was.
SwitchedBack ==
    Undoing /\ Site \in DOMAIN Preimages \ run.todo /\ Switched => Preimages[Site] \in Package

\* A release that is recorded of the site is a release, or nothing known.
Nameable(out) == Site \in DOMAIN out => out[Site] \in Package \cup {Unknown}
OutcomeInv == Nameable(run.out) /\ Nameable(ledger.out)

RevertInv ==
    run.stage = "revert" =>
        /\ NextToRestore \in DOMAIN journal.pre
        /\ journal.pre[NextToRestore] = ledger.pre[NextToRestore]

ServedInv ==
    \/ Handled
    \/ /\ host[Build] # Edited /\ aside[Build] # Edited
       /\ Switched => There \/ Moving
       /\ run.stage = "change" /\ Op = Site => host[Build] = run.release
       /\ Agreeable(journal.pre) /\ Agreeable(run.current)
       /\ SwitchedBack
       /\ run.stage = "revert" /\ NextToRestore = Build => ~Switched

LEMMA SiteFacts ==
    /\ Site \in Ops /\ Build \in Ops /\ Site # Build /\ Rockchip \notin {Site, Build}
    /\ Site \notin Packaged /\ Site \notin Plain /\ Build \notin Guarded /\ Build \notin Plain
    /\ Site \notin Bundles /\ Build \notin Bundles
  BY Sets

LEMMA SiteIsUndoneFirst ==
    ASSUME NEW order \in {Order, Sorted}, NEW S \in SUBSET Ops, Site \in S
    PROVE  LastOf(order, S) # Build
<1> DEFINE I == {i \in DOMAIN order : order[i] \in S}
<1>1. Len(order) \in Nat /\ I \in SUBSET (1 .. Len(order)) /\ DOMAIN order = 1 .. Len(order)
  BY OrderFacts, SortedFacts
<1>2. PICK j \in DOMAIN order : order[j] = Site
  BY SiteFacts, OrderFacts, SortedFacts
<1>3. j \in I
  BY <1>2
<1>4. Max(I) \in I /\ Max(I) >= j
  <2> HIDE DEF I
  <2> QED
    BY <1>1, <1>3, LargestExists
<1>5. order[Max(I)] # Build
  <2> SUFFICES ASSUME order[Max(I)] = Build PROVE FALSE
    OBVIOUS
  <2>1. Max(I) < j
    BY <1>2, <1>4, BuildComesFirst
  <2>2. Max(I) \in Nat /\ j \in Nat
    BY <1>1, <1>2, <1>4
  <2> QED
    BY <1>4, <2>1, <2>2
<1> QED
  BY <1>5 DEF LastOf

LEMMA BuildContent ==
    ASSUME TypeInv, WholeInv
    PROVE  /\ host[Build] # Edited => host[Build] \in Package \cup {Stock}
           /\ aside[Build] # Edited => aside[Build] \in Package \cup {Stock}
           /\ \A f \in {journal.pre, run.current, ledger.pre} :
                  Build \in DOMAIN f => f[Build] \in Package \cup {Stock}
<1>1. host[Build] \in Content /\ aside[Build] \in Content /\ host[Build] # Half /\ aside[Build] # Half
  BY SiteFacts, Sets DEF TypeInv, WholeInv, HostWhole
<1>2. ASSUME NEW f \in {journal.pre, run.current, ledger.pre}, Build \in DOMAIN f
      PROVE  f[Build] \in Content \ {Edited, Half}
  BY <1>2, PartialFacts, Sets DEF TypeInv, IsRun, IsJournal, IsLedger, WholeInv, BooksWhole, DiskWhole, Whole
<1> QED
  BY <1>1, <1>2, PackageContent

LEMMA OutcomeKept ==
    ASSUME OutcomeInv, run'.out \in {run.out, ledger.out, Nothing}, ledger'.out \in {run.out, ledger.out, Nothing}
    PROVE  OutcomeInv'
  BY NothingFacts DEF OutcomeInv, Nameable

LEMMA OutcomeWritten ==
    ASSUME OutcomeInv, UNCHANGED ledger, NEW o, NEW c, run'.out = Over(Only(o, c), run.out),
           o = Site => c \in Package \cup {Unknown}
    PROVE  OutcomeInv'
<1>1. \A f, g : g = Over(Only(o, c), f) /\ Nameable(f) => Nameable(g)
  <2> SUFFICES ASSUME NEW f, NEW g, g = Over(Only(o, c), f), Nameable(f), Site \in DOMAIN g
               PROVE  g[Site] \in Package \cup {Unknown}
    BY DEF Nameable
  <2>1. /\ DOMAIN g = DOMAIN f \cup {o} /\ g[o] = c
        /\ \A x \in DOMAIN f : x # o => g[x] = f[x]
    BY DEF Over, Only
  <2> QED
    BY <2>1 DEF Nameable
<1> QED
  BY <1>1 DEF OutcomeInv, Nameable

LEMMA OutcomeStep == ASSUME BookInv, OutcomeInv, Begin \/ Command \/ Kill PROVE OutcomeInv'
<1> USE DEF BookInv
<1>1. CASE Commit
  <2>1. ledger'.out = run.out /\ run'.out = run.out
    BY <1>1, GotoFields, StageNames DEF Commit, SameBooks
  <2> QED
    BY <2>1, OutcomeKept
<1>2. CASE UndoFails
  <2>1. ledger'.out = run.out /\ run'.out = Nothing
    BY <1>2, IdleFields DEF UndoFails
  <2> QED
    BY <2>1, OutcomeKept
<1>3. CASE RemoveLedger
  <2>1. ledger'.out = Nothing /\ run'.out = Nothing
    BY <1>3, IdleFields DEF RemoveLedger, NoLedger
  <2> QED
    BY <2>1, OutcomeKept
<1>4. CASE SkipOperation
  <2>1. UNCHANGED ledger
    BY <1>4 DEF SkipOperation
  <2>2. CASE run'.out = run.out
    BY <2>1, <2>2, OutcomeKept
  <2>3. ASSUME NEW c \in SkipOutcome(Op), run'.out = Over(Only(Op, c), run.out) PROVE OutcomeInv'
    <3>1. ASSUME Op = Site PROVE c \in Package \cup {Unknown}
      <4>1. ~NeedsApply(Site) /\ ~Superseded(Site)
        BY <1>4, <3>1, SiteFacts DEF SkipOperation, Superseded
      <4>2. SkipOutcome(Site) # {} /\ SkipOutcome(Site) # {Unknown} => SkipOutcome(Site) = {host[Site]} /\ host[Site] = Desired(Site)
        BY <4>1, Sets, SiteFacts DEF SkipOutcome, NeedsApply
      <4> QED
        BY <2>3, <3>1, <4>2, DesiredMember
    <3> QED
      BY <2>1, <2>3, <3>1, OutcomeWritten
  <2> QED
    BY <1>4, <2>2, <2>3, SkipOperationFields
<1>5. CASE Settle
  <2>1. InHand
    BY <1>5 DEF Settle, At, PositionInv, Changing, InHand
  <2>2. UNCHANGED ledger /\ run'.out = Over(Only(Op, Desired(Op)), run.out)
    BY <1>5, <2>1, SettleFields DEF Settle
  <2> QED
    BY <2>2, DesiredMember, OutcomeWritten
<1>6. CASE RetireChanged \/ Retired
  <2>1. UNCHANGED ledger /\ run'.out = Over(Only(Op, Unknown), run.out)
    BY <1>6, GaveUpFields DEF RetireChanged, Retired, At
  <2> QED
    BY <2>1, OutcomeWritten
<1>7. CASE Enter
  <2>1. UNCHANGED ledger /\ run'.out \in {run.out, ledger.out, Nothing}
    BY <1>7, EnterFields, IdleFields DEF Enter, EnterInstall, EnterUninstall, SameBooks
  <2> QED
    BY <2>1, OutcomeKept
<1>8. CASE Begin
  BY <1>8, BeginFields, OutcomeKept DEF Begin
<1>9. CASE Undone
  BY <1>9, UndoneFields, IdleFields, OutcomeKept DEF Undone
<1>10. CASE ClearCommitted \/ RecoveryFails \/ LastRestartFails \/ UninstallFailed \/ Kill
  <2>1. UNCHANGED ledger /\ run' = IdleRun
    BY <1>10 DEF ClearCommitted, RecoveryFails, LastRestartFails, UninstallFailed, Kill, Finish
  <2> QED
    BY <2>1, IdleFields, OutcomeKept
<1>11. CASE Recovered \/ FlushBeforeRetirement \/ AllApplied \/ AllUndone \/ AllRestored \/ UninstallFails
  <2>1. UNCHANGED ledger /\ \E next \in Targets : Flush(next)
    BY <1>11 DEF Recovered, FlushBeforeRetirement, AllApplied, AllUndone, AllRestored, UninstallFails, Targets
  <2> QED
    BY <2>1, FlushFields, OutcomeKept DEF SameBooks
<1>12. CASE Flushed \/ Retire \/ RestoreRetired \/ DiscardReplaced \/ Restore
  <2>1. UNCHANGED ledger /\ \E stage \in Stages : Goto(stage)
    BY <1>12, StageNames DEF Flushed, Retire, RestoreRetired, DiscardReplaced, Restore, TypeInv, IsRun
  <2> QED
    BY <2>1, GotoFields, OutcomeKept DEF SameBooks
<1>13. CASE ChangeFile \/ MoveIn \/ ChangeRest
  <2>1. UNCHANGED ledger /\ Op \in Ops /\ Changed(Op)
    BY <1>13, OpMember DEF ChangeFile, MoveIn, ChangeRest, At
  <2> QED
    BY <2>1, ChangedFields, OutcomeKept DEF SameBooks
<1>14. CASE SetAside \/ ChangeHalf
  BY <1>14, OutcomeKept DEF SetAside, ChangeHalf
<1>15. CASE UndoNext \/ Revert
  <2>1. UNCHANGED ledger /\ \E o : run' = [run EXCEPT !.pending = Requested(o)]
    BY <1>15 DEF UndoNext, Revert
  <2> QED
    BY <2>1, RequestedFields, OutcomeKept DEF SameBooks
<1>16. CASE Restart
  BY <1>16, RestartFields, OutcomeKept DEF Restart, SameBooks
<1>17. CASE Capture
  BY <1>17, CaptureFields, OutcomeKept DEF Capture
<1>18. CASE Undid
  BY <1>18, UndidFields, OutcomeKept DEF Undid, SameBooks
<1>19. CASE Preserve
  BY <1>19, TodoFields, OutcomeKept DEF Preserve, SameBooks, TypeInv, IsRun
<1>20. CASE Reverted
  BY <1>20, TodoFields, StageNames, OutcomeKept DEF Reverted, SameBooks
<1>21. CASE Raise
  BY <1>21, RaiseFields, OutcomeKept DEF Raise, RaiseRun, SameBooks
<1> QED
  BY <1>1, <1>2, <1>3, <1>4, <1>5, <1>6, <1>7, <1>8, <1>9, <1>10, <1>11, <1>12, <1>13, <1>14, <1>15, <1>16, <1>17, <1>18, <1>19, <1>20, <1>21 DEF Command

LEMMA RevertElsewhere == ASSUME run'.stage # "revert" PROVE RevertInv'
  BY DEF RevertInv

LEMMA RevertStep == ASSUME BookInv, RevertInv, Begin \/ Command \/ Kill PROVE RevertInv'
<1> USE DEF BookInv
<1>1. CASE Restore
  <2>1. /\ UNCHANGED ledger /\ Goto("revert") /\ run'.todo = run.todo
        /\ journal' = Journal("restore", Only(NextToRestore, ledger.pre[NextToRestore]))
    BY <1>1, GotoFields, StageNames DEF Restore
  <2>2. NextToRestore' = NextToRestore
    BY <2>1 DEF NextToRestore
  <2> DEFINE o == NextToRestore
             p == ledger.pre[NextToRestore]
  <2>3. journal'.pre = Only(o, p)
    BY <2>1 DEF Journal
  <2>4. o \in DOMAIN Only(o, p) /\ Only(o, p)[o] = p
    BY SingleFacts
  <2> QED
    BY <2>1, <2>2, <2>3, <2>4 DEF RevertInv
<1>2. CASE Revert
  <2>1. UNCHANGED <<ledger, journal>> /\ run'.todo = run.todo /\ run'.stage = run.stage
    BY <1>2, RequestedFields DEF Revert
  <2>2. NextToRestore' = NextToRestore
    BY <2>1 DEF NextToRestore
  <2> QED
    BY <2>1, <2>2 DEF RevertInv
<1>3. CASE Begin
  BY <1>3, BeginFields, RevertElsewhere
<1>4. CASE ClearCommitted \/ RemoveLedger \/ UndoFails \/ RecoveryFails \/ LastRestartFails \/ UninstallFailed \/ Kill
  <2>1. run' = IdleRun
    BY <1>4 DEF ClearCommitted, RemoveLedger, UndoFails, RecoveryFails, LastRestartFails, UninstallFailed, Kill, Finish
  <2> QED
    BY <2>1, IdleFields, RevertElsewhere
<1>5. CASE Recovered \/ FlushBeforeRetirement \/ AllApplied \/ AllUndone \/ AllRestored \/ UninstallFails
  <2>1. \E next \in Targets : Flush(next)
    BY <1>5 DEF Recovered, FlushBeforeRetirement, AllApplied, AllUndone, AllRestored, UninstallFails, Targets
  <2> QED
    BY <2>1, FlushFields, RevertElsewhere
<1>6. CASE Retire \/ RestoreRetired \/ DiscardReplaced \/ Commit
  <2>1. \E stage \in Stages \ {"revert"} : Goto(stage)
    BY <1>6, StageNames DEF Retire, RestoreRetired, DiscardReplaced, Commit
  <2> QED
    BY <2>1, GotoFields, RevertElsewhere
<1>7. CASE Flushed
  <2>1. Goto(run.then) /\ run.then \in Stages \ {"revert"}
    BY <1>7, StageNames DEF Flushed, TypeInv, IsRun, Targets
  <2> QED
    BY <2>1, GotoFields, RevertElsewhere
<1>8. CASE ChangeFile \/ MoveIn \/ ChangeRest
  <2>1. Op \in Ops /\ Changed(Op)
    BY <1>8, OpMember DEF ChangeFile, MoveIn, ChangeRest, At
  <2> QED
    BY <2>1, ChangedFields, RevertElsewhere
<1>9. CASE SetAside \/ ChangeHalf
  BY <1>9, RevertElsewhere DEF SetAside, ChangeHalf, At
<1>10. CASE UndoNext
  <2>1. run' = [run EXCEPT !.pending = Requested(NextToUndo)] /\ run.stage # "revert"
    BY <1>10 DEF UndoNext, Undoing
  <2> QED
    BY <2>1, RequestedFields, RevertElsewhere
<1>11. CASE Enter
  BY <1>11, EnterFields, IdleFields, RevertElsewhere DEF EnterInstall, EnterUninstall
<1>12. CASE Undone
  BY <1>12, UndoneFields, IdleFields, RevertElsewhere
<1>13. CASE Restart
  BY <1>13, RestartFields, RevertElsewhere
<1>14. CASE SkipOperation
  BY <1>14, SkipOperationFields, RevertElsewhere
<1>15. CASE Capture
  BY <1>15, CaptureFields, RevertElsewhere
<1>16. CASE Settle
  <2>1. InHand
    BY <1>16 DEF Settle, At, PositionInv, Changing, InHand
  <2> QED
    BY <1>16, <2>1, SettleFields, RevertElsewhere
<1>17. CASE RetireChanged \/ Retired
  BY <1>17, GaveUpFields, RevertElsewhere DEF RetireChanged, Retired, At
<1>18. CASE Undid
  BY <1>18, UndidFields, RevertElsewhere DEF Undid, Undoing
<1>19. CASE Preserve
  BY <1>19, TodoFields, RevertElsewhere DEF Preserve, TypeInv, IsRun
<1>20. CASE Reverted
  BY <1>20, TodoFields, StageNames, RevertElsewhere DEF Reverted
<1>21. CASE Raise
  BY <1>21, RaiseFields, RevertElsewhere DEF RaiseRun
<1> QED
  BY <1>1, <1>2, <1>3, <1>4, <1>5, <1>6, <1>7, <1>8, <1>9, <1>10, <1>11, <1>12, <1>13, <1>14, <1>15, <1>16, <1>17, <1>18, <1>19, <1>20, <1>21 DEF Command


\* An action that changes neither of the two, nor what is noted of them.
LEMMA ServedFrame ==
    ASSUME ServedInv, hist.edited \subseteq hist'.edited,
           host'[Site] = host[Site], host'[Build] = host[Build], aside'[Build] \in {aside[Build], Stock},
           journal' = journal \/ {Site, Build} \cap DOMAIN journal'.pre = {},
           run'.current = run.current \/ run'.current = Nothing,
           Moving => Moving',
           \/ run'.stage \notin {"change", "undo", "recover", "revert"}
           \/ /\ UNCHANGED <<journal, ledger>> /\ SameWork /\ run'.current = run.current
              /\ run'.stage = run.stage /\ run'.todo = run.todo
    PROVE  ServedInv'
<1> SUFFICES ASSUME ~Handled' PROVE ServedInv'
  BY DEF ServedInv
<1>1. ~Handled
  BY DEF Handled
<1>2. Switched' = Switched /\ There' = There
  BY DEF Switched, There
<1>3. Agreeable(journal.pre)'
  <2>1. CASE journal' = journal
    BY <1>1, <1>2, <2>1 DEF ServedInv, Agreeable
  <2>2. CASE {Site, Build} \cap DOMAIN journal'.pre = {}
    BY <2>2 DEF Agreeable
  <2> QED
    BY <2>1, <2>2
<1>4. Agreeable(run.current)'
  BY <1>1, <1>2, NothingFacts DEF ServedInv, Agreeable
<1>5. CASE run'.stage \notin {"change", "undo", "recover", "revert"}
  BY <1>1, <1>2, <1>3, <1>4, <1>5, ContentFacts DEF ServedInv, SwitchedBack, Undoing, Agreeable
<1>6. CASE /\ UNCHANGED <<journal, ledger>> /\ SameWork /\ run'.current = run.current
           /\ run'.stage = run.stage /\ run'.todo = run.todo
  <2>1. Op' = Op /\ NextToRestore' = NextToRestore /\ Preimages' = Preimages /\ Undoing' = Undoing
    BY <1>6 DEF SameWork, Op, NextToRestore, Preimages, Undoing
  <2>2. SwitchedBack'
    BY <1>1, <1>2, <1>6, <2>1 DEF ServedInv, SwitchedBack
  <2> QED
    BY <1>1, <1>2, <1>3, <1>4, <1>6, <2>1, <2>2, ContentFacts DEF ServedInv, SameWork, Agreeable
<1> QED
  BY <1>5, <1>6

\* Outside of its own change and its undoing, the build is where it belongs.
LEMMA Steady ==
    ASSUME run.stage \notin {"idle", "change", "undo", "recover"} PROVE ~Moving
  BY DEF Moving, Undoing

ServeAll == BookInv /\ WholeInv /\ JournalInv /\ OutcomeInv /\ RevertInv /\ ServedInv

LEMMA ServedSteps == ASSUME ServeAll, Begin \/ Command \/ Kill PROVE ServedInv'
<1> USE DEF ServeAll, BookInv
<1>h. hist'.edited = hist.edited
  BY HistoryStep DEF HistoryGrows
<1>1. CASE Recovered \/ FlushBeforeRetirement \/ AllApplied \/ AllUndone \/ AllRestored \/ UninstallFails
  <2>1. UNCHANGED <<host, aside>> /\ \E next \in Targets : Flush(next)
    BY <1>1 DEF Recovered, FlushBeforeRetirement, AllApplied, AllUndone, AllRestored, UninstallFails, Targets
  <2>2. run'.stage = "flush" /\ run'.current = run.current
    BY <2>1, FlushFields DEF SameBooks
  <2>3. journal' = journal \/ {Site, Build} \cap DOMAIN journal'.pre = {}
    BY <1>1, NoJournalType, NothingFacts DEF Recovered, FlushBeforeRetirement, AllApplied, AllUndone, AllRestored, UninstallFails
  <2>4. ~Moving
    BY <1>1 DEF Moving, Recovered, FlushBeforeRetirement, AllApplied, AllUndone, AllRestored, UninstallFails, At, Undoing
  <2> QED
    BY <1>h, <2>1, <2>2, <2>3, <2>4, ServedFrame
<1>2. CASE RemoveLedger \/ UndoFails \/ RecoveryFails \/ LastRestartFails \/ UninstallFailed \/ Kill
  <2>1. UNCHANGED <<host, aside, journal>> /\ run' = IdleRun
    BY <1>2 DEF RemoveLedger, UndoFails, RecoveryFails, LastRestartFails, UninstallFailed, Kill, Finish
  <2>2. run'.stage = "idle" /\ run'.current = Nothing
    BY <2>1, IdleFields
  <2>3. Moving => Moving'
    BY <2>1, <2>2 DEF Moving
  <2> QED
    BY <1>h, <2>1, <2>2, <2>3, ServedFrame
<1>3. CASE ClearCommitted
  <2>1. UNCHANGED <<host, aside>> /\ run' = IdleRun /\ journal' = NoJournal /\ run.stage = "clear"
    BY <1>3 DEF ClearCommitted, Finish
  <2> QED
    BY <1>h, <2>1, IdleFields, NoJournalType, NothingFacts, Steady, ServedFrame
<1>4. CASE Flushed
  <2>1. UNCHANGED <<host, aside, journal>> /\ Goto(run.then) /\ run.stage = "flush"
        /\ run.then \in Stages \ {"change", "undo", "recover", "revert"}
    BY <1>4, StageNames DEF Flushed, TypeInv, IsRun, Targets
  <2> QED
    BY <1>h, <2>1, GotoFields, Steady, ServedFrame DEF SameBooks
<1>5. CASE Retire
  <2>1. /\ UNCHANGED <<host, aside>> /\ Goto("retire") /\ run.stage = "apply"
        /\ journal'.pre = Only(Op, run.pre[Op]) /\ Op \in Bundles
    BY <1>5 DEF Retire, At, Superseded, Journal
  <2>2. {Site, Build} \cap DOMAIN journal'.pre = {}
    BY <2>1, SiteFacts DEF Only
  <2> QED
    BY <1>h, <2>1, <2>2, GotoFields, StageNames, Steady, ServedFrame DEF SameBooks
<1>6. CASE RestoreRetired
  <2>1. /\ host' = [host EXCEPT ![Op] = run.pre[Op]] /\ Op \in Bundles /\ run.stage = "retire"
        /\ Goto("retired") /\ UNCHANGED <<aside, journal>>
    BY <1>6 DEF RestoreRetired, At, PositionInv, Retiring
  <2>2. host'[Site] = host[Site] /\ host'[Build] = host[Build]
    BY <2>1, SiteFacts DEF TypeInv
  <2> QED
    BY <1>h, <2>1, <2>2, GotoFields, StageNames, Steady, ServedFrame DEF SameBooks
<1>7. CASE DiscardReplaced
  <2>1. UNCHANGED <<host, journal>> /\ aside'[Build] = Stock /\ Goto("commit") /\ run.stage = "finish"
    BY <1>7, Sets DEF DiscardReplaced
  <2> QED
    BY <1>h, <2>1, GotoFields, StageNames, Steady, ServedFrame DEF SameBooks
<1>8. CASE Commit
  <2>1. UNCHANGED <<host, aside, journal>> /\ Goto("clear") /\ run.stage = "commit"
    BY <1>8 DEF Commit
  <2> QED
    BY <1>h, <2>1, GotoFields, StageNames, Steady, ServedFrame DEF SameBooks
<1>9. CASE Restart
  <2>1. UNCHANGED <<host, aside, journal>> /\ run.stage = "flush"
    BY <1>9 DEF Restart
  <2> QED
    BY <1>h, <2>1, <1>9, RestartFields, Steady, ServedFrame DEF SameBooks
<1>10. CASE Enter
  <2>1. UNCHANGED <<host, aside, journal>> /\ run.stage = "enter"
    BY <1>10 DEF Enter
  <2>2. run'.stage \notin {"change", "undo", "recover", "revert"} /\ run'.current \in {run.current, Nothing}
    BY <1>10, EnterFields, IdleFields DEF EnterInstall, EnterUninstall, SameBooks
  <2> QED
    BY <1>h, <2>1, <2>2, Steady, ServedFrame
<1>11. CASE SkipOperation
  <2>1. UNCHANGED <<host, aside, journal>> /\ run.stage = "apply"
    BY <1>11 DEF SkipOperation, At
  <2> QED
    BY <1>h, <2>1, <1>11, SkipOperationFields, Steady, ServedFrame
<1>12. CASE RetireChanged \/ Retired
  <2>1. UNCHANGED <<host, aside>> /\ run.stage \in {"apply", "retired"} /\ run' = GaveUp /\ run.at <= Len(Order)
    BY <1>12 DEF RetireChanged, Retired, At
  <2>2. journal' = journal \/ {Site, Build} \cap DOMAIN journal'.pre = {}
    BY <1>12, NoJournalType, NothingFacts DEF RetireChanged, Retired
  <2> QED
    BY <1>h, <2>1, <2>2, GaveUpFields, Steady, ServedFrame
<1>13. CASE Settle
  <2>1. InHand
    BY <1>13 DEF Settle, At, PositionInv, Changing, InHand
  <2>2. UNCHANGED <<host, aside>> /\ run.stage = "settle" /\ journal' = SettledJournal
    BY <1>13 DEF Settle, At
  <2>3. {Site, Build} \cap DOMAIN journal'.pre = {}
    <3>1. journal'.pre = Nothing \/ \E p : journal'.pre = Only(Rockchip, p)
      BY <2>2 DEF SettledJournal, Journal, NoJournal
    <3> QED
      BY <3>1, NothingFacts, SiteFacts DEF Only
  <2> QED
    BY <1>h, <2>1, <2>2, <2>3, <1>13, SettleFields, Steady, ServedFrame
<1>14. CASE Preserve
  <2>1. UNCHANGED <<host, aside, journal>> /\ run.stage = "restore"
    BY <1>14 DEF Preserve
  <2>2. run'.stage = "restore" /\ run'.current = run.current
    BY <1>14, <2>1, TodoFields, StageNames DEF Preserve, SameBooks
  <2> QED
    BY <1>h, <2>1, <2>2, Steady, ServedFrame
<1>15. CASE Reverted
  <2>1. UNCHANGED <<host, aside>> /\ journal' = NoJournal /\ run.stage = "revert"
    BY <1>15 DEF Reverted
  <2>2. run'.stage = "restore" /\ run'.current = run.current
    BY <1>15, <2>1, TodoFields, StageNames DEF Reverted, SameBooks
  <2> QED
    BY <1>h, <2>1, <2>2, NoJournalType, NothingFacts, Steady, ServedFrame
<1>16. CASE Undone
  <2>1. UNCHANGED <<host, aside>> /\ journal' = NoJournal /\ run.stage = "undone"
    BY <1>16 DEF Undone
  <2>2. run'.stage \in {"commit", "idle"} /\ run'.current \in {run.current, Nothing}
    BY <1>16, <2>1, UndoneFields, IdleFields
  <2> QED
    BY <1>h, <2>1, <2>2, NoJournalType, NothingFacts, Steady, ServedFrame
<1>17. CASE Begin
  <2> SUFFICES ASSUME ~Handled PROVE ServedInv'
    BY <1>h DEF ServedInv, Handled
  <2>1. UNCHANGED <<host, aside, journal>> /\ run.stage = "idle"
    BY <1>17, BeginStage DEF Begin
  <2>2. run'.stage = "recover" /\ run'.todo = DOMAIN journal.pre /\ run'.current = Nothing
    BY <1>17, BeginFields
  <2>3. SwitchedBack' /\ (Moving => Moving') /\ Switched' = Switched /\ There' = There
    BY <2>1, <2>2 DEF SwitchedBack, Moving, Undoing, Preimages, Switched, There
  <2>4. Agreeable(journal.pre)' /\ Agreeable(run.current)'
    BY <2>1, <2>2, <2>3, NothingFacts DEF ServedInv, Agreeable
  <2> QED
    BY <2>1, <2>2, <2>3, <2>4 DEF ServedInv
<1>18. CASE Raise
  <2> SUFFICES ASSUME ~Handled PROVE ServedInv'
    BY <1>h DEF ServedInv, Handled
  <2>1. UNCHANGED <<host, aside>> /\ run.stage \notin {"idle", "undo", "recover"}
    BY <1>18 DEF Raise, Applying
  <2>2. /\ run'.stage = "undo" /\ run'.todo = DOMAIN run.current /\ run'.current = run.current
        /\ IF run.current = Nothing THEN journal' = journal ELSE journal'.pre = run.current
    BY <1>18, RaiseFields DEF RaiseRun, SameBooks
  <2>3. Moving => Moving'
    <3> SUFFICES ASSUME Moving PROVE Moving'
      OBVIOUS
    <3>1. run.stage = "change"
      BY <2>1 DEF Moving, Undoing
    <3>2. journal.pre = run.current
      BY <3>1 DEF JournalInv, Changing
    <3>3. run.current # Nothing
      BY <3>2, NothingFacts DEF Moving
    <3> QED
      BY <2>1, <2>2, <3>2, <3>3 DEF Moving, Undoing
  <2>4. SwitchedBack' /\ Switched' = Switched /\ There' = There
    BY <2>1, <2>2 DEF SwitchedBack, Undoing, Preimages, Switched, There
  <2>5. Agreeable(journal.pre)' /\ Agreeable(run.current)'
    BY <2>1, <2>2, <2>4 DEF ServedInv, Agreeable
  <2> QED
    BY <2>1, <2>2, <2>3, <2>4, <2>5 DEF ServedInv
<1>19. CASE Capture
  <2> SUFFICES ASSUME ~Handled PROVE ServedInv'
    BY <1>h DEF ServedInv, Handled
  <2>1. /\ UNCHANGED host /\ run.stage = "apply" /\ run.at <= Len(Order) /\ NeedsApply(Op)
        /\ aside'[Build] \in {aside[Build], Stock}
    BY <1>19, Sets DEF Capture, At, TypeInv
  <2>2. /\ run'.stage = "change" /\ run'.current = Over(Only(Op, host[Op]), run.current)
        /\ journal'.pre = run'.current /\ run'.at = run.at /\ run'.release = run.release
    BY <1>19, CaptureFields DEF SameWork
  <2>3. Op' = Op /\ Op \in Ops /\ Op \notin DOMAIN run.current
    <3>1. Op \notin Earlier
      BY <2>1, EarlierStep
    <3>2. Working = {} /\ Forward
      BY <2>1 DEF Working, Changing, Forward, Phase
    <3> QED
      BY <2>1, <2>2, <3>1, <3>2, EarlierSame, OpMember DEF PositionInv, ForwardBooks
  <2>4. Switched => There
    BY <2>1, Steady DEF ServedInv
  <2>5. Op = Site => host[Build] = run.release
    BY <2>1, Sets DEF NeedsApply, Prerequisite
  <2>6. Switched' = Switched /\ There' = There /\ SwitchedBack'
    BY <2>1, <2>2 DEF SwitchedBack, Undoing, Switched, There
  <2>7. /\ DOMAIN run'.current = DOMAIN run.current \cup {Op} /\ run'.current[Op] = host[Op]
        /\ \A x \in DOMAIN run.current : run'.current[x] = run.current[x]
    BY <2>2, <2>3 DEF Over, Only
  <2>8. Agreeable(run.current)' /\ Agreeable(journal.pre)'
    <3>1. Agreeable(run.current)
      BY DEF ServedInv
    <3> QED
      BY <2>2, <2>3, <2>4, <2>6, <2>7, <3>1, SiteFacts DEF Agreeable, Switched, There
  <2> QED
    BY <2>1, <2>2, <2>3, <2>4, <2>5, <2>6, <2>8, ContentFacts DEF ServedInv
<1>20. CASE ChangeFile \/ ChangeRest
  <2>1. /\ Op \in Ops \ {Build} /\ Changed(Op) /\ UNCHANGED <<aside, journal>> /\ run.stage = "change"
        /\ Op # Site \/ Op \in Guarded
    BY <1>20, OpMember, SiteFacts DEF ChangeFile, ChangeRest, At
  <2>2. /\ run'.stage = "settle" /\ run'.current = run.current
        /\ host' = [host EXCEPT ![Op] = Desired(Op)]
    BY <2>1, ChangedFields DEF SameBooks
  <2>3. host'[Build] = host[Build] /\ ~Moving
    BY <2>1, <2>2, SiteFacts DEF TypeInv, Moving, Undoing
  <2>4. CASE Op # Site
    <3>1. host'[Site] = host[Site]
      BY <2>2, <2>4, SiteFacts DEF TypeInv
    <3> QED
      BY <1>h, <2>1, <2>2, <2>3, <3>1, ServedFrame
  <2>5. CASE Op = Site
    <3> SUFFICES ASSUME ~Handled PROVE ServedInv'
      BY <1>h DEF ServedInv, Handled
    <3>1. host'[Site] = run.release /\ run.release \in Package
      BY <2>1, <2>2, <2>5, SiteFacts DEF TypeInv, IsRun, Desired
    <3>2. There' /\ Switched'
      BY <2>1, <2>3, <2>5, <3>1 DEF ServedInv, There, Switched
    <3>3. Site \in DOMAIN run.current /\ journal.pre = run.current
      BY <2>1, <2>5 DEF PositionInv, Changing, JournalInv
    <3>4. Agreeable(run.current)' /\ Agreeable(journal.pre)'
      BY <2>1, <2>2, <3>2, <3>3 DEF ServedInv, Agreeable
    <3> QED
      BY <2>1, <2>2, <2>3, <3>2, <3>4 DEF ServedInv, SwitchedBack, Undoing
  <2> QED
    BY <2>4, <2>5
<1>21. CASE MoveIn
  <2>1. /\ Op \in Ops /\ Op \in Packaged /\ Changed(Op) /\ UNCHANGED <<aside, journal>> /\ run.stage = "change"
    BY <1>21, OpMember DEF MoveIn, At
  <2>2. /\ run'.stage = "settle" /\ run'.current = run.current
        /\ host' = [host EXCEPT ![Op] = Desired(Op)]
    BY <2>1, ChangedFields DEF SameBooks
  <2>3. host'[Site] = host[Site]
    BY <2>1, <2>2, SiteFacts DEF TypeInv
  <2>4. CASE Op # Build
    <3>1. host'[Build] = host[Build] /\ ~Moving
      BY <2>1, <2>2, <2>4, SiteFacts DEF TypeInv, Moving, Undoing
    <3> QED
      BY <1>h, <2>1, <2>2, <2>3, <3>1, ServedFrame
  <2>5. CASE Op = Build
    <3> SUFFICES ASSUME ~Handled PROVE ServedInv'
      BY <1>h DEF ServedInv, Handled
    <3>1. There' /\ host'[Build] # Edited
      BY <2>1, <2>2, <2>5, DesiredMember, ContentFacts DEF TypeInv, There
    <3>2. Switched' = Switched
      BY <2>3 DEF Switched
    <3>3. Agreeable(run.current)' /\ Agreeable(journal.pre)'
      BY <2>1, <2>2, <3>2 DEF ServedInv, Agreeable
    <3> QED
      BY <2>1, <2>2, <3>1, <3>3 DEF ServedInv, SwitchedBack, Undoing
  <2> QED
    BY <2>4, <2>5
<1>22. CASE ChangeHalf
  <2>1. /\ Op \in Plain /\ run.stage = "change" /\ host' = [host EXCEPT ![Op] = Half]
        /\ UNCHANGED <<aside, ledger, journal, run>>
    BY <1>22 DEF ChangeHalf, At
  <2>2. host'[Site] = host[Site] /\ host'[Build] = host[Build] /\ ~Moving
    BY <2>1, SiteFacts DEF TypeInv, Moving, Undoing
  <2> QED
    BY <1>h, <2>1, <2>2, ServedFrame DEF SameWork
<1>23. CASE SetAside
  <2>1. /\ Op \in Packaged /\ run.stage = "change" /\ run.current[Op] # Stock /\ aside[Op] = Stock
        /\ host' = [host EXCEPT ![Op] = Stock] /\ aside' = [aside EXCEPT ![Op] = host[Op]]
        /\ UNCHANGED <<ledger, journal, run>>
    BY <1>23 DEF SetAside, At
  <2>2. host'[Site] = host[Site] /\ Op' = Op
    BY <2>1, SiteFacts, EarlierSame DEF TypeInv
  <2>3. CASE Op # Build
    <3>1. host'[Build] = host[Build] /\ aside'[Build] = aside[Build] /\ ~Moving
      BY <2>1, <2>3, SiteFacts DEF TypeInv, Moving, Undoing
    <3> QED
      BY <1>h, <2>1, <2>2, <3>1, ServedFrame DEF SameWork
  <2>4. CASE Op = Build
    <3> SUFFICES ASSUME ~Handled PROVE ServedInv'
      BY <1>h DEF ServedInv, Handled
    <3>1. host'[Build] = Stock /\ aside'[Build] = host[Build]
      BY <2>1, <2>4, Sets DEF TypeInv
    <3>2. Switched' = Switched /\ (Switched => There)
      BY <2>1, <2>2, <2>4, ContentFacts DEF ServedInv, Switched, Moving
    <3>3. Build \in DOMAIN journal.pre /\ journal.pre = run.current
      BY <2>1, <2>4 DEF PositionInv, Changing, JournalInv
    <3>4. journal.pre[Build] \in Package
      BY <2>1, <2>4, <3>3, BuildContent
    <3>5. There => Moving'
      BY <2>1, <2>2, <2>4, <3>1, <3>3, <3>4 DEF There, Moving
    <3>6. Agreeable(run.current)' /\ Agreeable(journal.pre)'
      BY <2>1, <3>2 DEF ServedInv, Agreeable
    <3> QED
      BY <2>1, <2>2, <2>4, <3>1, <3>2, <3>5, <3>6, SiteFacts, ContentFacts DEF ServedInv, SwitchedBack, Undoing
  <2> QED
    BY <2>3, <2>4
<1>24. CASE Restore
  <2> SUFFICES ASSUME ~Handled PROVE ServedInv'
    BY <1>h DEF ServedInv, Handled
  <2> DEFINE o == NextToRestore
             p == ledger.pre[o]
  <2>1. /\ UNCHANGED <<host, aside, ledger>> /\ Goto("revert") /\ run.stage = "restore" /\ run.todo # {}
        /\ journal'.pre = Only(o, p) /\ Restorable(o)
    BY <1>24 DEF Restore, Journal
  <2>2. run'.stage = "revert" /\ run'.todo = run.todo /\ run'.current = run.current
    BY <2>1, GotoFields, StageNames DEF SameBooks
  <2>3. NextToRestore' = o /\ Switched' = Switched /\ (Switched => There)
    BY <2>1, <2>2, Steady DEF NextToRestore, Switched, ServedInv
  <2>4. o = Build => ~Switched
    BY <2>1 DEF Restorable, Switched
  <2>5. o = Site => Switched \/ host[Site] = Unknown
    BY <2>1, Sets DEF Restorable, OutcomeInv, Nameable, Switched
  <2>6. Agreeable(journal.pre)'
    <3>1. DOMAIN journal'.pre = {o} /\ journal'.pre[o] = p
      BY <2>1 DEF Only
    <3>2. host[Site] # Unknown
      BY SiteFacts, ContentFacts DEF TypeInv
    <3> QED
      BY <2>3, <2>4, <2>5, <3>1, <3>2, SiteFacts DEF Agreeable
  <2>7. Agreeable(run.current)'
    BY <2>2, <2>3 DEF ServedInv, Agreeable
  <2> QED
    BY <2>1, <2>2, <2>3, <2>4, <2>6, <2>7 DEF ServedInv, SwitchedBack, Undoing, There
<1>25. CASE Revert
  <2> DEFINE o == NextToRestore
             p == ledger.pre[o]
  <2>1. /\ run.stage = "revert" /\ RestoreStep(o, p) /\ UNCHANGED <<ledger, journal>>
        /\ run' = [run EXCEPT !.pending = Requested(o)]
    BY <1>25 DEF Revert
  <2>2. o \in Ops /\ p \in Content
    BY <2>1, NextToRestoreFacts DEF ControlInv
  <2>3. /\ run'.stage = run.stage /\ run'.todo = run.todo /\ run'.current = run.current /\ SameWork
    BY <2>1, RequestedFields DEF SameBooks
  <2>4. NextToRestore' = o /\ ~Moving
    BY <2>1, <2>3, Steady DEF NextToRestore
  <2>5. /\ \A x \in Ops : x # o => host'[x] = host[x]
        /\ \A x \in Packaged : x # o => aside'[x] = aside[x]
    BY <2>1, <2>2, RestoreStepTypes
  <2>6. CASE o \notin {Site, Build}
    <3>1. host'[Site] = host[Site] /\ host'[Build] = host[Build] /\ aside'[Build] = aside[Build]
      BY <2>5, <2>6, SiteFacts, Sets
    <3> QED
      BY <1>h, <2>1, <2>3, <2>4, <3>1, ServedFrame
  <2>7. CASE o = Site
    <3> SUFFICES ASSUME ~Handled PROVE ServedInv'
      BY <1>h DEF ServedInv, Handled
    <3>1. host'[Site] = p /\ host'[Build] = host[Build] /\ aside'[Build] = aside[Build]
      BY <2>1, <2>2, <2>5, <2>7, RestoreStepTypes, SiteFacts, Sets
    <3>2. Site \in DOMAIN journal.pre /\ journal.pre[Site] = p
      BY <2>1, <2>7 DEF RevertInv
    <3>3. p \in Package => Switched
      BY <3>2 DEF ServedInv, Agreeable
    <3>4. Switched' => Switched /\ p \in Package
      BY <3>1, <3>3 DEF Switched
    <3>5. Agreeable(journal.pre)'
      BY <2>1, <3>1, <3>2, <3>4 DEF ServedInv, Agreeable, Switched
    <3>6. run.current = Nothing
      BY <2>1 DEF ControlInv, Installing, Phase, InstallPhases
    <3>7. Agreeable(run.current)'
      BY <2>3, <3>6, NothingFacts DEF Agreeable
    <3> QED
      BY <2>1, <2>3, <2>4, <2>7, <3>1, <3>4, <3>5, <3>7, SiteFacts DEF ServedInv, There, SwitchedBack, Undoing
  <2>8. CASE o = Build
    <3> SUFFICES ASSUME ~Handled PROVE ServedInv'
      BY <1>h DEF ServedInv, Handled
    <3>1. host'[Site] = host[Site] /\ ~Switched
      BY <2>1, <2>5, <2>8, SiteFacts DEF ServedInv
    <3>2. ~Switched'
      BY <3>1 DEF Switched
    <3>3. host'[Build] # Edited /\ aside'[Build] # Edited
      BY <2>1, <2>2, <2>8, RestoreStepTypes, Sets, ContentFacts DEF ServedInv
    <3>4. Agreeable(run.current)' /\ Agreeable(journal.pre)'
      BY <2>1, <2>3, <3>1, <3>2 DEF ServedInv, Agreeable
    <3> QED
      BY <2>1, <2>3, <3>2, <3>3, <3>4 DEF ServedInv, SwitchedBack, Undoing
  <2> QED
    BY <2>6, <2>7, <2>8
<1>26. CASE UndoNext
  <2> DEFINE o == NextToUndo
             p == Preimages[o]
  <2>1. /\ run.stage \in {"undo", "recover"} /\ RestoreStep(o, p) /\ UNCHANGED <<ledger, journal>>
        /\ run' = [run EXCEPT !.pending = Requested(o)] /\ Undoing /\ run.todo # {}
        /\ ~Matches(o, p) /\ ~Missing(o, p)
    BY <1>26 DEF UndoNext, Undoing
  <2>2. /\ o \in Ops /\ o \in run.todo /\ p \in Content /\ o \in DOMAIN Preimages
        /\ Preimages \in {run.current, journal.pre}
    BY <2>1, NextToUndoFacts
  <2>3. /\ run'.stage = run.stage /\ run'.todo = run.todo /\ run'.current = run.current /\ SameWork
    BY <2>1, RequestedFields DEF SameBooks
  <2>4. journal.pre = Preimages
    <3>1. CASE run.stage = "recover"
      BY <3>1 DEF Preimages
    <3>2. CASE run.stage = "undo"
      <4>1. run.current # Nothing
        BY <2>2, <3>2, NothingFacts DEF Preimages
      <4> QED
        BY <3>2, <4>1 DEF Preimages, JournalInv, Phase
    <3> QED
      BY <2>1, <3>1, <3>2
  <2>5. /\ \A x \in Ops : x # o => host'[x] = host[x]
        /\ \A x \in Packaged : x # o => aside'[x] = aside[x]
    BY <2>1, <2>2, RestoreStepTypes
  <2>6. Op' = Op /\ Preimages' = Preimages /\ Undoing'
    BY <2>1, <2>3, EarlierSame DEF Preimages, Undoing, SameWork
  <2>7. CASE o \notin {Site, Build}
    <3>1. host'[Site] = host[Site] /\ host'[Build] = host[Build] /\ aside'[Build] = aside[Build]
      BY <2>5, <2>7, SiteFacts, Sets
    <3>2. Moving => Moving'
      BY <2>1, <2>3, <2>6, <3>1 DEF Moving
    <3> QED
      BY <1>h, <2>1, <2>3, <3>1, <3>2, ServedFrame
  <2>8. CASE o = Site
    <3> SUFFICES ASSUME ~Handled PROVE ServedInv'
      BY <1>h DEF ServedInv, Handled
    <3>1. host'[Site] = p /\ host'[Build] = host[Build] /\ aside'[Build] = aside[Build]
      BY <2>1, <2>2, <2>5, <2>8, RestoreStepTypes, SiteFacts, Sets
    <3>2. Site \in DOMAIN journal.pre /\ journal.pre[Site] = p
      BY <2>2, <2>4, <2>8
    <3>3. Switched' => Switched /\ p \in Package
      BY <3>1, <3>2 DEF ServedInv, Agreeable, Switched
    <3>4. Agreeable(journal.pre)'
      BY <2>1, <3>1, <3>2, <3>3 DEF ServedInv, Agreeable, Switched
    <3>5. Agreeable(run.current)'
      <4>1. CASE run.stage = "undo"
        BY <2>3, <2>4, <3>2, <3>1, <3>3, <4>1 DEF Preimages, ServedInv, Agreeable, Switched
      <4>2. CASE run.stage = "recover"
        <5>1. run.current = Nothing
          BY <4>2 DEF ControlInv, Installing, Phase, InstallPhases
        <5> QED
          BY <2>3, <5>1, NothingFacts DEF Agreeable
      <4> QED
        BY <2>1, <4>1, <4>2
    <3>6. There' = There /\ (Moving => Moving')
      BY <2>1, <2>3, <2>6, <3>1 DEF Moving, There
    <3>7. SwitchedBack'
      BY <2>2, <2>3, <2>6, <2>8 DEF SwitchedBack
    <3> QED
      BY <2>1, <2>3, <3>1, <3>3, <3>4, <3>5, <3>6, <3>7 DEF ServedInv
  <2>9. CASE o = Build
    <3> SUFFICES ASSUME ~Handled PROVE ServedInv'
      BY <1>h DEF ServedInv, Handled
    <3>1. /\ host'[Site] = host[Site] /\ Switched' = Switched
          /\ host'[Build] = IF host[Build] # Stock \/ p = Stock THEN Stock ELSE aside[Build]
          /\ aside'[Build] = IF p # Stock /\ host[Build] = Stock THEN Stock ELSE aside[Build]
      BY <2>1, <2>2, <2>5, <2>9, RestoreStepTypes, SiteFacts, Sets DEF Switched
    <3>2. p \in Package \cup {Stock}
      BY <2>2, <2>9, BuildContent
    <3>3. Switched => p \in Package
      <4> SUFFICES ASSUME Switched, p \notin Package PROVE FALSE
        OBVIOUS
      <4>1. Site \in DOMAIN Preimages /\ Preimages[Site] \notin Package
        BY <2>2, <2>4, <2>9 DEF ServedInv, Agreeable
      <4>2. Site \in run.todo
        BY <2>1, <4>1 DEF ServedInv, SwitchedBack
      <4>3. run.todo \in SUBSET Ops
        BY DEF TypeInv, IsRun
      <4> QED
        BY <2>9, <4>2, <4>3, SiteIsUndoneFirst DEF NextToUndo
    <3>4. p \in Package => aside[Build] \in Package
      BY <2>1, <2>9, Sets, SiteFacts, BuildContent, ContentFacts DEF ServedInv, Matches, Missing
    <3>5. host'[Build] # Edited /\ aside'[Build] # Edited
      BY <3>1, ContentFacts DEF ServedInv
    <3>6. Switched' => There' \/ Moving'
      <4> SUFFICES ASSUME Switched PROVE There' \/ Moving'
        BY <3>1
      <4>1. p \in Package /\ aside[Build] \in Package /\ p # Stock
        BY <3>3, <3>4, ContentFacts
      <4>2. CASE host[Build] = Stock
        BY <3>1, <4>1, <4>2 DEF There
      <4>3. CASE host[Build] # Stock
        <5>1. aside'[Build] \in Package /\ Build \in DOMAIN journal'.pre /\ journal'.pre[Build] \in Package
          BY <2>1, <2>2, <2>4, <2>9, <3>1, <4>1, <4>3
        <5>2. Build \in run'.todo
          BY <2>2, <2>3, <2>9
        <5> QED
          BY <2>6, <5>1, <5>2 DEF Moving
      <4> QED
        BY <4>2, <4>3
    <3>7. Agreeable(run.current)' /\ Agreeable(journal.pre)'
      BY <2>1, <2>3, <3>1 DEF ServedInv, Agreeable
    <3>8. SwitchedBack'
      BY <2>1, <2>3, <2>6, <3>1 DEF ServedInv, SwitchedBack
    <3> QED
      BY <2>1, <2>3, <3>5, <3>6, <3>7, <3>8 DEF ServedInv
  <2> QED
    BY <2>7, <2>8, <2>9
<1>27. CASE Undid
  <2> SUFFICES ASSUME ~Handled PROVE ServedInv'
    BY <1>h DEF ServedInv, Handled
  <2> DEFINE o == NextToUndo
             p == Preimages[o]
  <2>1. /\ run.stage \in {"undo", "recover"} /\ UNCHANGED <<host, aside, ledger, journal>> /\ Undoing /\ run.todo # {}
        /\ Matches(o, p) \/ (run.stage = "undo" /\ Missing(o, p))
    BY <1>27 DEF Undid, Undoing
  <2>2. o \in DOMAIN Preimages /\ Preimages \in {run.current, journal.pre}
    BY <2>1, NextToUndoFacts
  <2>3. /\ run'.stage = run.stage /\ run'.todo = run.todo \ {o} /\ run'.current = run.current /\ SameWork
    BY <1>27, UndidFields DEF SameBooks
  <2>4. Op' = Op /\ Preimages' = Preimages /\ Undoing' /\ Switched' = Switched /\ There' = There
    BY <2>1, <2>3, EarlierSame DEF Preimages, Undoing, SameWork, Switched, There
  <2>5. journal.pre = Preimages
    <3>1. CASE run.stage = "recover"
      BY <3>1 DEF Preimages
    <3>2. CASE run.stage = "undo"
      <4>1. run.current # Nothing
        BY <2>2, <3>2, NothingFacts DEF Preimages
      <4> QED
        BY <3>2, <4>1 DEF Preimages, JournalInv, Phase
    <3> QED
      BY <2>1, <3>1, <3>2
  <2>6. Agreeable(run.current)' /\ Agreeable(journal.pre)'
    BY <2>1, <2>3, <2>4 DEF ServedInv, Agreeable
  <2>7. SwitchedBack'
    <3>1. o = Site /\ Switched => p \in Package
      BY <2>1, SiteFacts DEF Matches, Missing, Switched
    <3> QED
      BY <2>1, <2>3, <2>4, <3>1 DEF ServedInv, SwitchedBack
  <2>8. Switched' => There' \/ Moving'
    <3>1. CASE o # Build
      BY <2>1, <2>3, <2>4, <3>1 DEF ServedInv, Moving
    <3>2. CASE o = Build
      <4>1. p \in Package \cup {Stock}
        BY <2>2, <3>2, BuildContent
      <4>2. Moving => There
        BY <2>1, <2>5, <3>2, SiteFacts, ContentFacts DEF Moving, Matches, Missing, There
      <4> QED
        BY <2>4, <4>2 DEF ServedInv
    <3> QED
      BY <3>1, <3>2
  <2> QED
    BY <2>1, <2>3, <2>6, <2>7, <2>8 DEF ServedInv
<1> QED
  BY <1>1, <1>2, <1>3, <1>4, <1>5, <1>6, <1>7, <1>8, <1>9, <1>10, <1>11, <1>12, <1>13, <1>14, <1>15, <1>16, <1>17, <1>18, <1>19, <1>20, <1>21, <1>22, <1>23, <1>24, <1>25, <1>26, <1>27 DEF Command

LEMMA ServedEdit == ASSUME BookInv, ServedInv, NEW x \in Ops, Edit(x) PROVE ServedInv'
<1>1. /\ UNCHANGED <<aside, ledger, journal, run>> /\ hist'.edited = hist.edited \cup {x}
      /\ \A o \in Ops : o # x => host'[o] = host[o]
  BY EditFields DEF Edit, BookInv, TypeInv
<1>2. CASE x \in {Site, Build}
  BY <1>1, <1>2 DEF ServedInv, Handled
<1>3. CASE x \notin {Site, Build}
  <2>1. host'[Site] = host[Site] /\ host'[Build] = host[Build] /\ Op' = Op
    BY <1>1, <1>3, SiteFacts, EarlierSame
  <2>2. Moving => Moving'
    BY <1>1, <2>1 DEF Moving, Undoing
  <2> QED
    BY <1>1, <2>1, <2>2, ServedFrame DEF SameWork
<1> QED
  BY <1>2, <1>3

LEMMA ServedAlways == Spec => []ServeAll
<1>1. Init => OutcomeInv /\ RevertInv /\ ServedInv
  <2> SUFFICES ASSUME Init PROVE OutcomeInv /\ RevertInv /\ ServedInv
    OBVIOUS
  <2>1. /\ run.stage = "idle" /\ run.out = Nothing /\ run.current = Nothing
        /\ ledger.out = Nothing /\ journal.pre = Nothing
    BY DEF Init, IdleRun, NoLedger, NoJournal
  <2>2. host[Build] = Stock /\ host[Site] = Stock /\ aside[Build] = Stock
    BY SiteFacts, Sets DEF Init
  <2> QED
    BY <2>1, <2>2, NothingFacts, ContentFacts DEF OutcomeInv, Nameable, RevertInv, ServedInv, Switched, Agreeable,
       SwitchedBack, Undoing
<1>2. ServeAll /\ [Next]_vars => OutcomeInv' /\ RevertInv' /\ ServedInv'
  <2> SUFFICES ASSUME ServeAll, [Next]_vars PROVE OutcomeInv' /\ RevertInv' /\ ServedInv'
    OBVIOUS
  <2>1. CASE Begin \/ Command \/ Kill
    BY <2>1, OutcomeStep, RevertStep, ServedSteps DEF ServeAll
  <2>2. CASE \E o \in Ops : Edit(o)
    BY <2>2, ServedEdit DEF ServeAll, Edit, OutcomeInv, RevertInv, NextToRestore
  <2>3. CASE UNCHANGED vars
    <3>1. Op' = Op
      BY <2>3, EarlierSame DEF vars
    <3>2. Moving => Moving'
      BY <2>3, <3>1 DEF vars, Moving, Undoing
    <3>3. ServedInv'
      BY <2>3, <3>2, ServedFrame DEF ServeAll, vars, SameWork
    <3> QED
      BY <2>3, <3>3 DEF ServeAll, vars, OutcomeInv, Nameable, RevertInv, NextToRestore
  <2> QED
    BY <2>1, <2>2, <2>3 DEF Next
<1> QED
  BY <1>1, <1>2, EveryRecord, PTL DEF Spec, ServeAll

\* nginx never serves a build that is not there, whatever fails and wherever a command is
\* killed, unless somebody edits its site or the build.
THEOREM SiteKeepsItsBuild == Spec => []SiteNeedsBuild
<1>1. ServeAll => SiteNeedsBuild
  BY DEF ServeAll, ServedInv, SiteNeedsBuild, Handled, Switched, There, Moving
<1> QED
  BY <1>1, ServedAlways, PTL

-----------------------------------------------------------------------------
(* An uninstall without failures, kills and edits.  What is on record is    *)
(* what the vendor left, and what is not on record is as the vendor left    *)
(* it; the site is nginx's own or of the release whose build it serves.     *)

\* An uninstall always undoes these.
Due == Ops \ Optional
InWork(o) == Changing /\ o = Op
AsRecorded(o) ==
    /\ o \in DOMAIN BookOut /\ host[o] \in Package
    /\ o \in Guarded => host[o] = BookOut[o]
    /\ o \in Plain => host[o] = 1

Tidy(o) ==
    IF o \in DOMAIN BookPre
    THEN /\ BookPre[o] = Stock
         /\ \/ host[o] = Stock \/ AsRecorded(o) \/ InWork(o)
            \/ run.stage = "revert" /\ o = NextToRestore
    ELSE IF InWork(o) THEN run.current[o] = Stock ELSE host[o] = Stock

AllTidy == \A o \in Due : Tidy(o)

Cleared ==
    /\ run.stage \in {"restore", "revert"} => \A o \in Due \ run.todo : host[o] = Stock
    /\ Phase = "remove" => \A o \in Due : host[o] = Stock

\* No later release drops the build that an earlier one brought.
BuildStays == \A r, s \in Package : r <= s /\ Build \in Bundled[r] => Build \in Bundled[s]

BuildFits ==
    /\ run.kind # "none" => run.release = hist.release
    /\ host[Build] \in Package \/ (run.stage = "change" /\ Op = Build) => Build \in Bundled[hist.release]
    /\ Forward /\ Build \in Earlier /\ host[Build] \in Package => host[Build] = run.release

Gone == hist.ended = "uninstalled" => run.kind = "none" /\ DOMAIN ledger.pre = {}

CleanCommand ==
    \/ Recovered \/ Restart \/ Flushed \/ Enter
    \/ SkipOperation \/ Capture \/ ChangeFile \/ SetAside \/ MoveIn
    \/ ChangeHalf \/ ChangeRest \/ Settle
    \/ FlushBeforeRetirement \/ RetireChanged \/ Retire \/ RestoreRetired \/ Retired
    \/ AllApplied \/ DiscardReplaced \/ Commit \/ ClearCommitted
    \/ Preserve \/ Restore \/ Revert \/ Reverted \/ AllRestored \/ RemoveLedger

RecordAll == BookInv /\ WholeInv /\ JournalInv /\ RecordInv

LEMMA CleanSteps ==
    ASSUME RecordAll, Clean', Begin \/ Command \/ Kill PROVE Clean /\ (Begin \/ CleanCommand)
<1> USE DEF RecordAll, BookInv, RecordInv, CleanInv
<1>1. Clean
  BY HistoryStep, CleanStays
<1>2. ~Kill
  BY KillFields, NotClean
<1>3. ~UndoNext /\ ~Undid
  BY <1>1, NothingToUndo DEF UndoNext, Undid
<1>4. ~AllUndone /\ ~Undone /\ ~UninstallFailed
  BY <1>1 DEF AllUndone, Undone, UninstallFailed, CleanStages, Phase
<1>5. ~Raise
  <2> SUFFICES ASSUME Raise PROVE FALSE
    OBVIOUS
  <2>1. Phase' = "undo"
    BY RaiseFields DEF RaiseRun, Phase
  <2> QED
    BY <2>1, CleanStagesStep DEF CleanStages, Command
<1>6. ~UndoFails
  BY <1>1 DEF UndoFails, CleanStages, Phase
<1>7. ~LastRestartFails
  BY FailedCounts, NotClean DEF LastRestartFails
<1>8. ~RecoveryFails
  <2>1. run.stage = "recover" => DOMAIN journal.pre = {}
    BY <1>1, NothingFacts DEF CleanStages, Phase
  <2>2. ~(run.stage = "recover" /\ run.todo # {})
    BY <2>1 DEF ControlInv
  <2> QED
    BY <2>2, FailedCounts, NotClean DEF RecoveryFails
<1>9. ~UninstallFails
  <2> SUFFICES ASSUME UninstallFails PROVE FALSE
    OBVIOUS
  <2>1. CASE hist' = [hist EXCEPT !.faults = @ + 1]
    BY <2>1, FaultCounts, NotClean
  <2>2. CASE NextToRestore \in Packaged /\ Refused(NextToRestore, ledger.pre[NextToRestore])
    <3>1. host[NextToRestore] = Edited
      BY <2>2, Sets DEF Refused
    <3> QED
      BY <1>1, <2>2, <3>1 DEF CleanWork
  <2> QED
    BY <2>1, <2>2 DEF UninstallFails
<1> QED
  BY <1>1, <1>2, <1>3, <1>4, <1>5, <1>6, <1>7, <1>8, <1>9 DEF Command, CleanCommand

\* The books change where an operation is skipped, settled, given up, and removed with the ledger.
LEMMA BooksKept ==
    ASSUME BookInv, Begin \/ CleanCommand,
           ~SkipOperation, ~Settle, ~RetireChanged, ~Retired, ~RemoveLedger
    PROVE  BookPre' = BookPre /\ BookOut' = BookOut
<1> USE DEF BookInv, Phase, InstallPhases
<1>f. SameBooks /\ UNCHANGED ledger /\ Bookkeeping' = Bookkeeping => BookPre' = BookPre /\ BookOut' = BookOut
  BY DEF SameBooks, BookPre, BookOut
<1>1. CASE Begin
  BY <1>1, BeginFields, BeginStage DEF BookPre, BookOut, Bookkeeping, Installing, Begin
<1>2. CASE Recovered \/ FlushBeforeRetirement \/ AllApplied \/ AllRestored
  BY <1>2, <1>f, FlushFields DEF Bookkeeping, Installing, Recovered, FlushBeforeRetirement, AllApplied, AllRestored, Targets, At
<1>3. CASE Restart
  BY <1>3, <1>f, RestartFields DEF Bookkeeping, Installing, Restart
<1>4. CASE Flushed
  BY <1>4, <1>f, GotoFields, StageNames DEF Bookkeeping, Installing, Flushed, TypeInv, IsRun, Targets
<1>5. CASE Enter
  BY <1>5, EnterFields, IdleFields DEF BookPre, BookOut, Bookkeeping, Installing, EnterInstall, EnterUninstall, Enter
<1>6. CASE Capture
  BY <1>6, CaptureFields DEF BookPre, BookOut, Bookkeeping, Installing, Capture, At
<1>7. CASE ChangeFile \/ MoveIn \/ ChangeRest
  <2>1. Op \in Ops /\ Changed(Op) /\ UNCHANGED ledger /\ run.stage = "change"
    BY <1>7, OpMember DEF ChangeFile, MoveIn, ChangeRest, At
  <2> QED
    BY <1>f, <2>1, ChangedFields DEF Bookkeeping, Installing
<1>8. CASE SetAside \/ ChangeHalf
  BY <1>8 DEF SetAside, ChangeHalf, BookPre, BookOut, Bookkeeping, Installing
<1>9. CASE Retire \/ RestoreRetired \/ DiscardReplaced \/ Restore
  BY <1>9, <1>f, GotoFields, StageNames DEF Bookkeeping, Installing, Retire, RestoreRetired, DiscardReplaced, Restore, At
<1>10. CASE Commit
  BY <1>10, GotoFields, StageNames DEF Commit, BookPre, BookOut, Bookkeeping, Installing
<1>11. CASE ClearCommitted
  BY <1>11, IdleFields DEF BookPre, BookOut, Bookkeeping, Installing, ClearCommitted, Finish
<1>12. CASE Preserve \/ Reverted
  <2>1. SameBooks /\ UNCHANGED ledger /\ run'.stage = "restore" /\ run.stage \in {"restore", "revert"}
    BY <1>12, TodoFields, StageNames DEF Preserve, Reverted
  <2> QED
    BY <1>f, <2>1 DEF Bookkeeping, Installing
<1>13. CASE Revert
  BY <1>13, <1>f, RequestedFields DEF Revert, Bookkeeping, Installing
<1> QED
  BY <1>1, <1>2, <1>3, <1>4, <1>5, <1>6, <1>7, <1>8, <1>9, <1>10, <1>11, <1>12, <1>13 DEF CleanCommand

\* An operation is tidy after an action that does not change it, ...
LEMMA TidyFrame ==
    ASSUME NEW o, Tidy(o), host'[o] = host[o], BookPre' = BookPre, BookOut' = BookOut,
           ~InWork(o), InWork(o)' => run'.current[o] = host[o],
           run.stage # "revert" \/ o # NextToRestore
    PROVE  Tidy(o)'
  BY DEF Tidy, AsRecorded

\* ... and while it is changed.
LEMMA TidyWork ==
    ASSUME NEW o, Tidy(o), InWork(o), InWork(o)', run'.current = run.current, BookPre' = BookPre
    PROVE  Tidy(o)'
  BY DEF Tidy

\* Nobody can decline what an install always makes.
DeclinedInv == run.declined \subseteq Optional

LEMMA DeclinedSteps == ASSUME TypeInv, DeclinedInv, Begin \/ Command \/ Kill PROVE DeclinedInv'
<1> USE DEF DeclinedInv, TypeInv, IsRun
<1>1. CASE run' = IdleRun
  BY <1>1 DEF IdleRun
<1>2. CASE UNCHANGED run
  BY <1>2
<1>3. CASE \E next : Flush(next)
  BY <1>3 DEF Flush
<1>4. CASE \E stage : Goto(stage)
  BY <1>4 DEF Goto
<1>5. CASE Begin
  BY <1>5 DEF Begin, IdleRun
<1>6. CASE Enter
  <2>1. CASE run.kind = "install"
    <3>1. PICK declined \in {{}, Optional} : run' = [run EXCEPT !.stage = "apply", !.declined = declined,
                                                         !.pre = ledger.pre, !.out = ledger.out]
      BY <1>6, <2>1 DEF Enter
    <3> QED
      BY <3>1
  <2>2. CASE run.kind = "uninstall"
    <3>1. PICK todo : run' = [run EXCEPT !.stage = "restore", !.todo = todo]
      BY <1>6, <2>2 DEF Enter
    <3> QED
      BY <3>1
  <2>3. CASE run.kind \notin {"install", "uninstall"}
    BY <1>1, <1>6, <2>3 DEF Enter, Finish
  <2> QED
    BY <2>1, <2>2, <2>3
<1>7. CASE Restart \/ Undid \/ Preserve \/ Reverted \/ Raise
  BY <1>7 DEF Restart, Undid, Preserve, Reverted, Raise
<1>8. CASE SkipOperation \/ Capture \/ Settle \/ RetireChanged \/ Retired
  BY <1>8 DEF SkipOperation, Capture, Settle, RetireChanged, Retired, GaveUp
<1>9. CASE \E o : Changed(o) \/ run' = [run EXCEPT !.pending = Requested(o)]
  BY <1>9 DEF Changed
<1>10. CASE Undone
  BY <1>1, <1>10 DEF Undone, Finish
<1> QED
  BY <1>1, <1>2, <1>3, <1>4, <1>5, <1>6, <1>7, <1>8, <1>9, <1>10 DEF Command, Kill, Recovered, Flushed, ChangeFile, SetAside,
     MoveIn, ChangeHalf, ChangeRest, FlushBeforeRetirement, Retire, RestoreRetired, AllApplied, DiscardReplaced, Commit,
     ClearCommitted, UndoNext, AllUndone, Restore, Revert, AllRestored, RemoveLedger, UndoFails, RecoveryFails, UninstallFails,
     LastRestartFails, UninstallFailed, Finish

TidyAll ==
    /\ RecordAll /\ ServeAll /\ DeclinedInv
    /\ Clean => AllTidy /\ Cleared /\ BuildFits /\ Gone

\* In a clean install the site is switched to the build of this release when its turn comes.
LEMMA SiteIsCurrent ==
    ASSUME TidyAll, Clean, At("apply"), Op = Site, host[Site] \in Package PROVE host[Build] = run.release
<1>1. Build \in Earlier
  <2>1. run.at \in DOMAIN Order /\ DOMAIN Order = 1 .. Len(Order)
    BY OrderFacts DEF At, TidyAll, RecordAll, BookInv, TypeInv, IsRun
  <2>2. PICK i \in DOMAIN Order : Order[i] = Build
    BY SiteFacts, OrderFacts
  <2>3. i < run.at
    BY <2>1, <2>2, BuildComesFirst DEF Op
  <2> QED
    BY <2>2, <2>3 DEF Earlier
<1>2. ~Handled
  BY DEF Clean, NothingFailed, Handled
<1>3. host[Build] \in Package
  BY <1>2, Steady DEF TidyAll, ServeAll, ServedInv, Switched, There, At
<1> QED
  BY <1>1, <1>3 DEF TidyAll, BuildFits, Forward, Phase, At

LEMMA TidySteps ==
    ASSUME TidyAll, Clean', Begin \/ Command \/ Kill PROVE AllTidy'
<1> USE DEF TidyAll, RecordAll, BookInv, RecordInv, CleanInv
<1>c. Clean /\ (Begin \/ CleanCommand)
  BY CleanSteps
<1>t. \A o \in Due : Tidy(o)
  BY <1>c DEF AllTidy
<1>d. Due \subseteq Ops
  BY DEF Due
<1>1. CASE Begin \/ Recovered \/ FlushBeforeRetirement \/ AllApplied \/ AllRestored \/ Restart \/ Flushed
  <2>1. UNCHANGED host /\ run.stage \notin {"change", "settle", "revert"}
    BY <1>1, BeginStage DEF Begin, Recovered, FlushBeforeRetirement, AllApplied, AllRestored, Restart, Flushed, At
  <2>2. run'.stage \notin {"change", "settle"}
    BY <1>1, BeginFields, FlushFields, RestartFields, GotoFields, StageNames
       DEF Begin, Recovered, FlushBeforeRetirement, AllApplied, AllRestored, Flushed, TypeInv, IsRun, Targets
  <2>3. ~SkipOperation /\ ~Settle /\ ~RetireChanged /\ ~Retired /\ ~RemoveLedger
    <3>1. CASE FlushBeforeRetirement
      BY <3>1 DEF SkipOperation, Settle, RetireChanged, Retired, RemoveLedger, At, FlushBeforeRetirement
    <3>2. CASE AllApplied
      BY <3>2, OrderFacts DEF SkipOperation, Settle, RetireChanged, Retired, RemoveLedger, At, AllApplied, TypeInv, IsRun
    <3>3. CASE run.stage # "apply"
      BY <1>1, <3>3, BeginStage DEF SkipOperation, Settle, RetireChanged, Retired, RemoveLedger, At, Recovered, AllRestored,
         Restart, Flushed, FlushBeforeRetirement, AllApplied
    <3> QED
      BY <1>1, <3>1, <3>2, <3>3, BeginStage DEF Recovered, AllRestored, Restart, Flushed
  <2> QED
    BY <1>c, <1>t, <2>1, <2>2, <2>3, BooksKept, TidyFrame DEF AllTidy, InWork, Changing, Due
<1>2. CASE DiscardReplaced \/ Commit \/ ClearCommitted \/ Retire \/ Restore \/ Enter \/ Preserve
  <2>1. UNCHANGED host /\ run.stage \notin {"change", "settle", "revert"}
    BY <1>2 DEF DiscardReplaced, Commit, ClearCommitted, Retire, Restore, Enter, Preserve, At
  <2>2. run'.stage \notin {"change", "settle"}
    BY <1>2, GotoFields, IdleFields, EnterFields, TodoFields, StageNames
       DEF DiscardReplaced, Commit, ClearCommitted, Retire, Restore, Preserve, Finish, EnterInstall, EnterUninstall
  <2>3. ~SkipOperation /\ ~Settle /\ ~RetireChanged /\ ~Retired /\ ~RemoveLedger
    BY <1>2 DEF SkipOperation, Settle, RetireChanged, Retired, RemoveLedger, At, DiscardReplaced, Commit, ClearCommitted,
       Retire, Restore, Enter, Preserve
  <2> QED
    BY <1>c, <1>t, <2>1, <2>2, <2>3, BooksKept, TidyFrame DEF AllTidy, InWork, Changing, Due
<1>3. CASE Capture
  <2>1. UNCHANGED host /\ run.stage = "apply" /\ Op' = Op
    BY <1>3, CaptureFields, EarlierSame DEF Capture, At, SameWork
  <2>2. run'.current[Op] = host[Op]
    BY <1>3, CaptureFields DEF Over, Only
  <2>3. ~SkipOperation /\ ~Settle /\ ~RetireChanged /\ ~Retired /\ ~RemoveLedger
    BY <1>3 DEF SkipOperation, Settle, RetireChanged, Retired, RemoveLedger, At, Capture
  <2> QED
    BY <1>c, <1>t, <2>1, <2>2, <2>3, BooksKept, TidyFrame DEF AllTidy, InWork, Changing, Due
<1>4. CASE ChangeFile \/ MoveIn \/ ChangeRest
  <2>1. Op \in Ops /\ Changed(Op) /\ run.stage = "change"
    BY <1>4, OpMember DEF ChangeFile, MoveIn, ChangeRest, At
  <2>2. run'.stage = "settle" /\ Op' = Op /\ run'.current = run.current /\ host' = [host EXCEPT ![Op] = Desired(Op)]
    BY <2>1, ChangedFields, EarlierSame DEF SameWork, SameBooks
  <2>3. \A o \in Ops : o # Op => host'[o] = host[o]
    BY <2>1, <2>2 DEF TypeInv
  <2>4. BookPre' = BookPre /\ BookOut' = BookOut
    BY <1>c, <1>4, <2>1, BooksKept DEF SkipOperation, Settle, RetireChanged, Retired, RemoveLedger, At
  <2>5. InWork(Op) /\ InWork(Op)' /\ \A o : o # Op => ~InWork(o) /\ ~InWork(o)'
    BY <2>1, <2>2 DEF InWork, Changing
  <2> QED
    BY <1>t, <1>d, <2>1, <2>2, <2>3, <2>4, <2>5, TidyFrame, TidyWork DEF AllTidy, Due
<1>5. CASE SetAside \/ ChangeHalf
  <2>1. UNCHANGED run /\ run.stage = "change" /\ Op' = Op
    BY <1>5, EarlierSame DEF SetAside, ChangeHalf, At
  <2>2. \A o \in Ops : o # Op => host'[o] = host[o]
    BY <1>5 DEF SetAside, ChangeHalf, TypeInv
  <2>4. BookPre' = BookPre /\ BookOut' = BookOut
    BY <1>c, <1>5, <2>1, BooksKept DEF SkipOperation, Settle, RetireChanged, Retired, RemoveLedger, At
  <2>5. InWork(Op) /\ InWork(Op)' /\ \A o : o # Op => ~InWork(o) /\ ~InWork(o)'
    BY <2>1 DEF InWork, Changing
  <2> QED
    BY <1>t, <1>d, <2>1, <2>2, <2>4, <2>5, TidyFrame, TidyWork DEF AllTidy, Due
<1>6. CASE Settle
  <2>1. InHand /\ UNCHANGED host /\ run.stage = "settle" /\ run.at <= Len(Order) /\ Changing
    BY <1>6 DEF Settle, At, PositionInv, Changing, InHand
  <2>2. /\ run'.stage = "apply" /\ run'.pre = Over(run.pre, Only(Op, Kept(Op)))
        /\ run'.out = Over(Only(Op, Desired(Op)), run.out) /\ run'.release = run.release
    BY <1>6, <2>1, SettleFields
  <2>3. BookPre = run.pre /\ BookOut = run.out /\ BookPre' = run'.pre /\ BookOut' = run'.out
    BY <2>1, <2>2 DEF BookPre, BookOut, Bookkeeping, Installing, Phase, InstallPhases
  <2>4. host[Op] = Desired(Op) /\ Desired(Op) \in Package
    BY <1>c, <2>1, DesiredMember DEF CleanWork
  <2>5. /\ Op \in DOMAIN run'.pre /\ Op \in DOMAIN run'.out /\ run'.out[Op] = Desired(Op)
        /\ run'.pre[Op] = IF Op \in DOMAIN run.pre THEN run.pre[Op] ELSE Kept(Op)
    BY <2>2 DEF Over, Only
  <2>6. \A o : o # Op => /\ o \in DOMAIN run'.pre <=> o \in DOMAIN run.pre
                         /\ o \in DOMAIN run.pre => run'.pre[o] = run.pre[o]
                         /\ o \in DOMAIN run'.out <=> o \in DOMAIN run.out
                         /\ o \in DOMAIN run.out => run'.out[o] = run.out[o]
    BY <2>2 DEF Over, Only
  <2>7. ASSUME NEW o \in Due, o = Op PROVE Tidy(o)'
    <3>1. InWork(o) /\ Tidy(o)
      BY <1>t, <2>1, <2>7 DEF InWork
    <3>2. run'.pre[o] = Stock
      BY <2>3, <2>5, <2>7, <3>1 DEF Tidy, Kept
    <3>3. AsRecorded(o)'
      BY <2>1, <2>3, <2>4, <2>5, <2>7 DEF AsRecorded, Desired
    <3> QED
      BY <2>3, <2>5, <2>7, <3>2, <3>3 DEF Tidy
  <2>8. ASSUME NEW o \in Due, o # Op PROVE Tidy(o)'
    <3>1. Tidy(o) /\ ~InWork(o) /\ run.stage # "revert" /\ ~InWork(o)'
      BY <1>t, <2>1, <2>2, <2>8 DEF InWork, Changing
    <3> QED
      BY <2>1, <2>3, <2>6, <2>8, <3>1 DEF Tidy, AsRecorded
  <2> QED
    BY <2>7, <2>8 DEF AllTidy, Due
<1>7. CASE RetireChanged \/ Retired
  <2>1. /\ run' = GaveUp /\ UNCHANGED host /\ run.stage \in {"apply", "retired"} /\ run.at <= Len(Order)
        /\ Op \in DOMAIN run.pre
        /\ Drifted(Op) \/ host[Op] = run.pre[Op]
    BY <1>c, <1>7 DEF RetireChanged, Retired, At, PositionInv, Retiring, CleanWork
  <2>2. /\ run'.stage = "apply" /\ run'.out = Over(Only(Op, Unknown), run.out)
        /\ run'.pre = [o \in DOMAIN run.pre \ {Op} |-> run.pre[o]]
    BY <2>1, GaveUpFields
  <2>3. BookPre = run.pre /\ BookOut = run.out /\ BookPre' = run'.pre /\ BookOut' = run'.out
    BY <2>1, <2>2 DEF BookPre, BookOut, Bookkeeping, Installing, Phase, InstallPhases
  <2>4. ~Changing /\ ~Changing' /\ run.stage # "revert"
    BY <2>1, <2>2 DEF Changing
  <2>5. Op \in Guarded
    BY <1>7, Sets DEF RetireChanged, Retired, Superseded, PositionInv, Retiring, At
  <2>6. ASSUME NEW o \in Due, o = Op PROVE Tidy(o)'
    <3>1. Tidy(o)
      BY <1>t
    <3>2. host[o] = Stock
      BY <2>1, <2>3, <2>4, <2>5, <2>6, <3>1 DEF Tidy, InWork, AsRecorded, Drifted
    <3> QED
      BY <2>1, <2>2, <2>3, <2>4, <2>6, <3>2 DEF Tidy, InWork
  <2>7. ASSUME NEW o \in Due, o # Op PROVE Tidy(o)'
    <3>1. Tidy(o)
      BY <1>t
    <3>2. /\ o \in DOMAIN run'.pre <=> o \in DOMAIN run.pre
          /\ o \in DOMAIN run.pre => run'.pre[o] = run.pre[o]
          /\ o \in DOMAIN run'.out <=> o \in DOMAIN run.out
          /\ o \in DOMAIN run.out => run'.out[o] = run.out[o]
      BY <2>2, <2>7 DEF Over, Only
    <3> QED
      BY <2>1, <2>3, <2>4, <3>1, <3>2 DEF Tidy, InWork, AsRecorded
  <2> QED
    BY <2>6, <2>7 DEF AllTidy, Due
<1>8. CASE RestoreRetired
  <2>1. /\ Goto("retired") /\ host' = [host EXCEPT ![Op] = run.pre[Op]]
        /\ Op \in Ops /\ Op \in DOMAIN run.pre /\ run.stage = "retire"
    BY <1>8, OpMember DEF RestoreRetired, At, PositionInv, Retiring
  <2>2. run'.stage = "retired" /\ ~Changing /\ ~Changing' /\ run.stage # "revert" /\ BookPre = run.pre
    BY <2>1, GotoFields, StageNames DEF Changing, BookPre, Bookkeeping, Installing, Phase, InstallPhases
  <2>3. BookPre' = BookPre /\ BookOut' = BookOut
    BY <1>c, <1>8, <2>1, BooksKept DEF SkipOperation, Settle, RetireChanged, Retired, RemoveLedger, At
  <2>4. host'[Op] = run.pre[Op] /\ \A o \in Ops : o # Op => host'[o] = host[o]
    BY <2>1 DEF TypeInv
  <2>5. \A o \in Due : o = Op => Tidy(o)'
    BY <1>t, <2>1, <2>2, <2>3, <2>4 DEF Tidy, InWork
  <2>6. \A o \in Due : o # Op => Tidy(o)'
    BY <1>t, <1>d, <2>2, <2>3, <2>4, TidyFrame DEF InWork
  <2> QED
    BY <2>5, <2>6 DEF AllTidy, Due
<1>9. CASE Revert
  <2>1. /\ run' = [run EXCEPT !.pending = Requested(NextToRestore)] /\ run.stage = "revert"
        /\ RestoreStep(NextToRestore, ledger.pre[NextToRestore])
    BY <1>9 DEF Revert
  <2>2. NextToRestore \in Ops /\ NextToRestore \in DOMAIN ledger.pre /\ ledger.pre[NextToRestore] \in Content
    BY <2>1, NextToRestoreFacts DEF ControlInv
  <2>3. run'.stage = "revert" /\ NextToRestore' = NextToRestore
    BY <2>1, RequestedFields DEF NextToRestore
  <2>4. BookPre' = BookPre /\ BookOut' = BookOut /\ BookPre = ledger.pre
    BY <1>c, <1>9, <2>1, BooksKept DEF SkipOperation, Settle, RetireChanged, Retired, RemoveLedger, At, BookPre, Bookkeeping,
       Installing, Phase, InstallPhases
  <2>5. ~Changing /\ ~Changing'
    BY <2>1, <2>3 DEF Changing
  <2>6. \A o \in Ops : o # NextToRestore => host'[o] = host[o]
    BY <2>1, <2>2, RestoreStepTypes
  <2>7. \A o \in Due : o # NextToRestore => Tidy(o)'
    BY <1>t, <1>d, <2>4, <2>5, <2>6, TidyFrame DEF InWork
  <2>8. \A o \in Due : o = NextToRestore => Tidy(o)'
    BY <1>t, <2>2, <2>3, <2>4 DEF Tidy
  <2> QED
    BY <2>3, <2>7, <2>8 DEF AllTidy, Due
<1>10. CASE Reverted
  <2>1. /\ run.stage = "revert" /\ UNCHANGED host
        /\ \/ Matches(NextToRestore, ledger.pre[NextToRestore])
           \/ Missing(NextToRestore, ledger.pre[NextToRestore])
    BY <1>10 DEF Reverted
  <2>r. run' = [run EXCEPT !.stage = "restore", !.todo = @ \ {NextToRestore}]
    BY <1>10 DEF Reverted
  <2>2. NextToRestore \in DOMAIN ledger.pre /\ run'.stage = "restore"
    BY <2>1, <2>r, NextToRestoreFacts, TodoFields, StageNames DEF ControlInv
  <2>4. BookPre' = BookPre /\ BookOut' = BookOut /\ BookPre = ledger.pre
    BY <1>c, <1>10, <2>1, BooksKept DEF SkipOperation, Settle, RetireChanged, Retired, RemoveLedger, At, BookPre, Bookkeeping,
       Installing, Phase, InstallPhases
  <2>5. ~Changing /\ ~Changing'
    BY <2>1, <2>2 DEF Changing
  <2>6. NextToRestore \in Due => ledger.pre[NextToRestore] = Stock /\ host[NextToRestore] = Stock
    BY <1>t, <2>1, <2>2, <2>4 DEF Tidy, Matches, Missing
  <2>7. \A o \in Due : o # NextToRestore => Tidy(o)'
    BY <1>t, <2>1, <2>4, <2>5, TidyFrame DEF InWork
  <2>8. \A o \in Due : o = NextToRestore => Tidy(o)'
    BY <1>t, <2>1, <2>2, <2>4, <2>6 DEF Tidy
  <2> QED
    BY <2>7, <2>8 DEF AllTidy, Due
<1>11. CASE RemoveLedger
  <2>1. DOMAIN BookPre' = {} /\ ~Changing'
    BY <1>11, IdleFields, NothingFacts DEF RemoveLedger, NoLedger, BookPre, Bookkeeping, Installing, Phase, InstallPhases, Changing
  <2>2. UNCHANGED host /\ \A o \in Due : host[o] = Stock
    BY <1>c, <1>11 DEF RemoveLedger, Cleared, Phase
  <2> QED
    BY <2>1, <2>2 DEF AllTidy, Tidy, InWork, Due
<1>12. CASE SkipOperation
  <2>1. UNCHANGED host /\ run.stage = "apply" /\ At("apply") /\ Op \in Ops
    BY <1>12, OpMember DEF SkipOperation, At
  <2>2. /\ run'.stage = "apply"
        /\ run'.out = run.out \/ \E c \in SkipOutcome(Op) : run'.out = Over(Only(Op, c), run.out)
        /\ run'.pre = IF Op \in Packaged /\ host[Op] = run.release THEN Over(run.pre, Only(Op, Stock)) ELSE run.pre
    BY <1>12, SkipOperationFields
  <2>3. BookPre = run.pre /\ BookOut = run.out /\ BookPre' = run'.pre /\ BookOut' = run'.out
    BY <2>1, <2>2 DEF BookPre, BookOut, Bookkeeping, Installing, Phase, InstallPhases
  <2>4. ~Changing /\ ~Changing' /\ run.stage # "revert"
    BY <2>1, <2>2 DEF Changing
  <2>5. \A o : o # Op => /\ o \in DOMAIN run'.pre <=> o \in DOMAIN run.pre
                         /\ o \in DOMAIN run.pre => run'.pre[o] = run.pre[o]
                         /\ o \in DOMAIN run'.out <=> o \in DOMAIN run.out
                         /\ o \in DOMAIN run.out => run'.out[o] = run.out[o]
    BY <2>2 DEF Over, Only
  <2>6. \A o \in Due : o # Op => Tidy(o)'
    BY <1>t, <2>1, <2>3, <2>4, <2>5 DEF Tidy, InWork, AsRecorded
  <2>7. ASSUME NEW o \in Due, o = Op, o \notin DOMAIN run.pre PROVE Tidy(o)'
    <3>1. host[Op] = Stock
      BY <1>t, <2>3, <2>4, <2>7 DEF Tidy, InWork
    <3>2. run'.pre = run.pre
      BY <2>2, <3>1, ContentFacts DEF TypeInv, IsRun
    <3> QED
      BY <2>1, <2>3, <2>4, <2>7, <3>1, <3>2 DEF Tidy, InWork
  <2>8. ASSUME NEW o \in Due, o = Op, o \in DOMAIN run.pre PROVE Tidy(o)'
    <3>1. run.pre[Op] = Stock /\ (host[Op] = Stock \/ AsRecorded(Op))
      BY <1>t, <2>3, <2>4, <2>8 DEF Tidy, InWork
    <3>2. Op \in DOMAIN run'.pre /\ run'.pre[Op] = run.pre[Op]
      BY <2>2, <2>8 DEF Over, Only
    <3>3. CASE host[Op] = Stock
      BY <2>1, <2>3, <2>8, <3>1, <3>2, <3>3 DEF Tidy
    <3>4. CASE AsRecorded(Op)
      <4>1. Op \in DOMAIN run'.out
        BY <2>2, <2>3, <3>4 DEF AsRecorded, Over, Only
      <4>2. ASSUME Op \in Guarded PROVE SkipOutcome(Op) = {}
        <5>1. host[Op] = run.out[Op] /\ host[Op] # Edited /\ Op \notin Plain
          BY <2>3, <3>4, <4>2, ContentFacts, Sets DEF AsRecorded
        <5>2. Prerequisite(Op)
          BY <1>c, <2>1, <3>4, SiteIsCurrent DEF Prerequisite, AsRecorded
        <5> QED
          BY <2>8, <4>2, <5>1, <5>2, Sets DEF SkipOutcome
      <4>3. Op \in Guarded => run'.out = run.out
        BY <2>2, <4>2
      <4> QED
        BY <2>1, <2>3, <2>8, <3>1, <3>2, <3>4, <4>1, <4>3 DEF Tidy, AsRecorded
    <3> QED
      BY <3>1, <3>3, <3>4
  <2> QED
    BY <2>6, <2>7, <2>8 DEF AllTidy, Due
<1> QED
  BY <1>c, <1>1, <1>2, <1>3, <1>4, <1>5, <1>6, <1>7, <1>8, <1>9, <1>10, <1>11, <1>12 DEF CleanCommand

\* What the last operation of an uninstall finds restored before it.
LEMMA NothingIsSpared ==
    ASSUME TidyAll, Clean, Preserve, NextToRestore \in Due PROVE host[NextToRestore] = Stock
<1> USE DEF TidyAll, RecordAll, BookInv
<1> DEFINE o == NextToRestore
<1>1. run.stage = "restore" /\ run.todo # {} /\ ~Restorable(o)
  BY DEF Preserve
<1>2. o \in run.todo /\ o \in Ops /\ o \in DOMAIN ledger.pre
  BY <1>1, NextToRestoreFacts
<1>3. BookPre = ledger.pre /\ BookOut = ledger.out /\ ~InWork(o)
  BY <1>1 DEF BookPre, BookOut, Bookkeeping, Installing, Phase, InstallPhases, InWork, Changing
<1>4. ledger.pre[o] = Stock /\ (host[o] = Stock \/ AsRecorded(o))
  BY <1>1, <1>2, <1>3 DEF AllTidy, Tidy
<1>5. ASSUME AsRecorded(o) PROVE FALSE
  <2>1. host[o] # Stock /\ ~Matches(o, ledger.pre[o])
    BY <1>4, <1>5, ContentFacts DEF AsRecorded, Matches
  <2>2. ASSUME o = Build PROVE host[Site] \notin Package
    <3>1. run.todo = {Build}
      <4>1. SUFFICES ASSUME run.todo # {Build} PROVE FALSE
        OBVIOUS
      <4>2. run.todo \ {Build} \in SUBSET Ops /\ run.todo \ {Build} # {}
        BY <1>1, <4>1 DEF TypeInv, IsRun
      <4> QED
        BY <2>2, <4>1, <4>2, LastOfMember DEF NextToRestore
    <3>2. Site \in Due \ run.todo
      BY <3>1, SiteFacts, SystemOptimizationsAssumption DEF Due
    <3> QED
      BY <1>1, <3>2, ContentFacts DEF Cleared
  <2>3. o \in Plain => host[o] = Desired(o)
    BY <1>5 DEF AsRecorded, Desired
  <2> HIDE DEF o
  <2> QED
    BY <1>1, <1>3, <1>5, <2>1, <2>2, <2>3 DEF AsRecorded, Restorable
<1> QED
  BY <1>4, <1>5

LEMMA ClearedSteps ==
    ASSUME TidyAll, Clean', Begin \/ Command \/ Kill PROVE Cleared'
<1> USE DEF TidyAll, RecordAll, BookInv
<1>c. Clean /\ (Begin \/ CleanCommand)
  BY CleanSteps
<1>1. CASE run'.stage \notin {"restore", "revert", "flush", "remove"}
  BY <1>1 DEF Cleared, Phase
<1>2. CASE Recovered \/ FlushBeforeRetirement \/ AllApplied
  <2>1. run'.stage = "flush" /\ run'.then # "remove"
    BY <1>2, FlushFields DEF Recovered, FlushBeforeRetirement, AllApplied, Targets
  <2> QED
    BY <2>1 DEF Cleared, Phase
<1>3. CASE AllRestored
  <2>1. run'.stage = "flush" /\ UNCHANGED host /\ run.stage = "restore" /\ run.todo = {}
    BY <1>3, FlushFields DEF AllRestored, Targets
  <2> QED
    BY <1>c, <2>1 DEF Cleared, Phase, Due
<1>4. CASE Restart \/ Flushed
  <2>1. UNCHANGED host /\ Phase' = Phase /\ run'.stage \notin {"restore", "revert"}
    BY <1>4, RestartFields, GotoFields, StageNames DEF Restart, Flushed, Phase, TypeInv, IsRun, Targets
  <2> QED
    BY <1>c, <2>1 DEF Cleared, Due
<1>5. CASE Enter
  <2>1. CASE run.kind = "uninstall"
    <3>1. UNCHANGED <<host, ledger>> /\ run.stage = "enter"
      BY <1>5 DEF Enter
    <3>2. run'.stage = "restore" /\ Due \ run'.todo \subseteq Due \ DOMAIN ledger.pre
      <4>1. PICK optional \in BOOLEAN :
              run' = [run EXCEPT !.stage = "restore",
                         !.todo = IF optional THEN DOMAIN ledger.pre ELSE DOMAIN ledger.pre \ Optional]
        BY <1>5, <2>1 DEF Enter
      <4>2. run'.todo \in {DOMAIN ledger.pre, DOMAIN ledger.pre \ Optional} /\ run'.stage = "restore"
        BY <4>1 DEF TypeInv, IsRun
      <4> QED
        BY <4>2 DEF Due
    <3>3. \A o \in Due \ DOMAIN ledger.pre : host[o] = Stock
      BY <1>c, <3>1 DEF AllTidy, Tidy, BookPre, Bookkeeping, Installing, Phase, InstallPhases, InWork, Changing
    <3> QED
      BY <3>1, <3>2, <3>3 DEF Cleared, Phase, Due
  <2>2. CASE run.kind # "uninstall"
    <3>1. run'.stage \in {"apply", "idle"}
      BY <1>5, <2>2, EnterFields, IdleFields DEF EnterInstall
    <3> QED
      BY <1>1, <3>1
  <2> QED
    BY <2>1, <2>2
<1>6. CASE Restore
  <2>1. UNCHANGED host /\ run'.stage = "revert" /\ run'.todo = run.todo /\ run.stage = "restore"
    BY <1>6, GotoFields, StageNames DEF Restore
  <2> QED
    BY <1>c, <2>1 DEF Cleared, Phase, Due
<1>7. CASE Revert
  <2>1. /\ run' = [run EXCEPT !.pending = Requested(NextToRestore)] /\ run.stage = "revert"
        /\ RestoreStep(NextToRestore, ledger.pre[NextToRestore])
    BY <1>7 DEF Revert
  <2>2. /\ NextToRestore \in Ops /\ NextToRestore \in run.todo
        /\ NextToRestore \in DOMAIN ledger.pre /\ ledger.pre[NextToRestore] \in Content
    BY <2>1, NextToRestoreFacts DEF ControlInv
  <2>3. run'.stage = "revert" /\ run'.todo = run.todo
    BY <2>1, RequestedFields
  <2>4. \A o \in Ops : o # NextToRestore => host'[o] = host[o]
    BY <2>1, <2>2, RestoreStepTypes
  <2> QED
    BY <1>c, <2>1, <2>2, <2>3, <2>4 DEF Cleared, Phase, Due
<1>8. CASE Preserve \/ Reverted
  <2>1. run.stage \in {"restore", "revert"} /\ UNCHANGED host
    BY <1>8 DEF Preserve, Reverted
  <2>r. \/ Preserve
        \/ run' = [run EXCEPT !.stage = "restore", !.todo = @ \ {NextToRestore}]
    BY <1>8 DEF Reverted
  <2>2. run'.stage = "restore" /\ run'.todo = run.todo \ {NextToRestore}
    BY <2>r, TodoFields, StageNames DEF Preserve
  <2>3. NextToRestore \in Due => host[NextToRestore] = Stock
    <3>1. CASE Preserve
      BY <1>c, <3>1, NothingIsSpared
    <3>2. CASE Reverted
      <4>1. /\ run.stage = "revert"
            /\ \/ Matches(NextToRestore, ledger.pre[NextToRestore])
               \/ Missing(NextToRestore, ledger.pre[NextToRestore])
        BY <3>2 DEF Reverted
      <4>2. NextToRestore \in DOMAIN ledger.pre
        BY <4>1, NextToRestoreFacts DEF ControlInv
      <4> QED
        BY <1>c, <4>1, <4>2 DEF AllTidy, Tidy, BookPre, Bookkeeping, Installing, Phase, InstallPhases, Matches, Missing
    <3> QED
      BY <1>8, <3>1, <3>2
  <2> QED
    BY <1>c, <2>1, <2>2, <2>3 DEF Cleared, Phase, Due
<1>9. CASE Begin \/ RemoveLedger \/ ClearCommitted
  <2>1. run'.stage \in {"recover", "idle"}
    BY <1>9, BeginFields, IdleFields DEF RemoveLedger, ClearCommitted, Finish
  <2> QED
    BY <1>1, <2>1
<1>10. CASE SkipOperation \/ Capture \/ Settle \/ RetireChanged \/ Retired
  <2>1. Settle => InHand
    BY DEF Settle, At, PositionInv, Changing, InHand
  <2>2. run'.stage \in {"apply", "change"}
    BY <1>10, <2>1, SkipOperationFields, CaptureFields, SettleFields, GaveUpFields DEF RetireChanged, Retired, At
  <2> QED
    BY <1>1, <2>2
<1>11. CASE ChangeFile \/ MoveIn \/ ChangeRest
  <2>1. Op \in Ops /\ Changed(Op)
    BY <1>11, OpMember DEF ChangeFile, MoveIn, ChangeRest, At
  <2> QED
    BY <1>1, <2>1, ChangedFields
<1>12. CASE SetAside \/ ChangeHalf
  BY <1>1, <1>12 DEF SetAside, ChangeHalf, At
<1>13. CASE Retire \/ RestoreRetired \/ DiscardReplaced \/ Commit
  BY <1>1, <1>13, GotoFields, StageNames DEF Retire, RestoreRetired, DiscardReplaced, Commit
<1> QED
  BY <1>c, <1>2, <1>3, <1>4, <1>5, <1>6, <1>7, <1>8, <1>9, <1>10, <1>11, <1>12, <1>13 DEF CleanCommand

\* A clean command stays with its release, and only the removal of the ledger ends an uninstall.
LEMMA CleanHistory ==
    ASSUME BookInv, CleanCommand
    PROVE  /\ hist'.release = hist.release
           /\ run'.kind = "none" \/ (run'.release = run.release /\ run'.kind = run.kind)
           /\ RemoveLedger \/ hist'.ended \in {hist.ended, "recovered", "installed", "undone"}
<1> USE DEF BookInv
<1>1. CASE Recovered \/ FlushBeforeRetirement \/ AllApplied \/ AllRestored \/ Restart \/ Flushed
  <2>1. UNCHANGED hist
    BY <1>1 DEF Recovered, FlushBeforeRetirement, AllApplied, AllRestored, Restart, Flushed
  <2>2. SameWork
    BY <1>1, FlushFields, RestartFields, GotoFields, StageNames
       DEF Recovered, FlushBeforeRetirement, AllApplied, AllRestored, Flushed, TypeInv, IsRun, Targets
  <2> QED
    BY <2>1, <2>2 DEF SameWork
<1>2. CASE RestoreRetired \/ DiscardReplaced \/ Commit \/ Restore \/ Preserve \/ Reverted
  <2>1. UNCHANGED hist
    BY <1>2 DEF RestoreRetired, DiscardReplaced, Commit, Restore, Preserve, Reverted
  <2>2. SameWork
    BY <1>2, GotoFields, TodoFields, StageNames DEF RestoreRetired, DiscardReplaced, Commit, Restore, Preserve, Reverted
  <2> QED
    BY <2>1, <2>2 DEF SameWork
<1>3. CASE Retire
  <2>1. hist'.release = hist.release /\ hist'.ended = hist.ended
    BY <1>3 DEF Retire, TypeInv, IsHistory
  <2> QED
    BY <1>3, <2>1, GotoFields, StageNames DEF Retire, SameWork
<1>4. CASE Revert
  BY <1>4, RequestedFields DEF Revert, SameWork
<1>5. CASE ChangeFile \/ MoveIn \/ ChangeRest
  <2>1. Op \in Ops /\ Changed(Op) /\ UNCHANGED hist
    BY <1>5, OpMember DEF ChangeFile, MoveIn, ChangeRest, At
  <2> QED
    BY <2>1, ChangedFields DEF SameWork
<1>6. CASE SetAside \/ ChangeHalf
  BY <1>6 DEF SetAside, ChangeHalf
<1>7. CASE SkipOperation
  BY <1>7, SkipOperationFields DEF SkipOperation
<1>8. CASE Capture
  BY <1>8, CaptureFields DEF Capture, SameWork
<1>9. CASE Settle
  <2>1. InHand
    BY <1>9 DEF Settle, At, PositionInv, Changing, InHand
  <2> QED
    BY <1>9, <2>1, SettleFields DEF Settle
<1>10. CASE RetireChanged \/ Retired
  BY <1>10, GaveUpFields DEF RetireChanged, Retired, At
<1>11. CASE Enter
  <2>1. hist'.release = hist.release /\ hist'.ended \in {hist.ended, "recovered"}
    BY <1>11, EnterFields DEF EnterInstall, EnterUninstall, TypeInv, IsHistory
  <2> QED
    BY <1>11, <2>1, EnterFields, IdleFields DEF SameWork
<1>12. CASE ClearCommitted \/ RemoveLedger
  <2>1. run'.kind = "none"
    BY <1>12, IdleFields DEF ClearCommitted, RemoveLedger, Finish
  <2>2. hist'.release = hist.release
    BY <1>12 DEF ClearCommitted, RemoveLedger, Finish, TypeInv, IsHistory
  <2>3. ClearCommitted => hist'.ended \in {"undone", "installed"}
    BY DEF ClearCommitted, Finish, TypeInv, IsHistory
  <2> QED
    BY <1>12, <2>1, <2>2, <2>3
<1> QED
  BY <1>1, <1>2, <1>3, <1>4, <1>5, <1>6, <1>7, <1>8, <1>9, <1>10, <1>11, <1>12 DEF CleanCommand

LEMMA CleanRuns == ASSUME ControlInv, CleanCommand PROVE run.kind # "none"
  BY Running DEF CleanCommand, Command

LEMMA GoneSteps ==
    ASSUME TidyAll, Clean', Begin \/ Command \/ Kill PROVE Gone'
<1> USE DEF TidyAll, RecordAll, BookInv
<1>c. Clean /\ (Begin \/ CleanCommand)
  BY CleanSteps
<1>1. CASE Begin
  BY <1>1, BeginFields DEF Gone
<1>2. CASE RemoveLedger
  BY <1>2, IdleFields, NothingFacts DEF RemoveLedger, NoLedger, Gone
<1>3. CASE CleanCommand /\ ~RemoveLedger
  BY <1>c, <1>3, CleanHistory, CleanRuns DEF Gone
<1> QED
  BY <1>c, <1>1, <1>2, <1>3

\* An action that does not change the build, nor what is to be done with it.
LEMMA FitsFrame ==
    ASSUME TidyAll, Clean, CleanCommand,
           host'[Build] \in {host[Build], Stock},
           run'.stage = "change" /\ Op' = Build => run.stage = "change" /\ Op = Build,
           Forward' => (Forward /\ Earlier' = Earlier) \/ Build \notin Earlier'
    PROVE  BuildFits'
<1>1. hist'.release = hist.release /\ run.kind # "none" /\ (run'.kind # "none" => run'.release = run.release)
  BY CleanHistory, CleanRuns DEF TidyAll, RecordAll, BookInv
<1>2. Forward' => run'.kind # "none"
  <2>1. run' = IdleRun => ~Forward'
    BY IdleFields DEF Forward, Phase
  <2> QED
    BY <2>1, BookStep DEF TidyAll, RecordAll, Next, CleanCommand, Command, BookInv, ControlInv, Installing, InstallPhases, Forward
<1> QED
  BY <1>1, <1>2, ContentFacts DEF TidyAll, BuildFits

LEMMA FitsSteps ==
    ASSUME BuildStays, TidyAll, Clean', Begin \/ Command \/ Kill PROVE BuildFits'
<1> USE DEF TidyAll, RecordAll, BookInv
<1>c. Clean /\ (Begin \/ CleanCommand)
  BY CleanSteps
<1>1. CASE Begin
  <2>1. PICK kind \in {"install", "uninstall", "check"}, r \in hist.release .. Releases :
          /\ run' = [IdleRun EXCEPT !.kind = kind, !.release = r, !.stage = "recover", !.todo = DOMAIN journal.pre]
          /\ hist' = [hist EXCEPT !.commands = @ + 1, !.release = r, !.ended = "none"]
    BY <1>1 DEF Begin
  <2>2. run'.release = r /\ hist'.release = r /\ run'.stage = "recover"
    BY <2>1 DEF IdleRun, TypeInv, IsHistory
  <2>3. r \in Package /\ hist.release \in Package /\ hist.release <= r
    BY <2>1, Numbers DEF TypeInv, IsHistory
  <2>4. run.stage = "idle" /\ UNCHANGED host
    BY <1>1, BeginStage DEF Begin
  <2> QED
    BY <1>c, <2>2, <2>3, <2>4 DEF BuildFits, BuildStays, Forward, Phase
<1>2. CASE Recovered \/ FlushBeforeRetirement \/ AllApplied \/ AllRestored \/ Restart \/ Flushed
  <2>1. UNCHANGED host
    BY <1>2 DEF Recovered, FlushBeforeRetirement, AllApplied, AllRestored, Restart, Flushed
  <2>2. SameWork /\ run'.stage # "change"
    BY <1>2, FlushFields, RestartFields, GotoFields, StageNames
       DEF Recovered, FlushBeforeRetirement, AllApplied, AllRestored, Flushed, TypeInv, IsRun, Targets
  <2>3. Forward' => Forward
    BY <1>2, FlushFields, RestartFields, GotoFields, StageNames
       DEF Recovered, FlushBeforeRetirement, AllApplied, AllRestored, Restart, Flushed, TypeInv, IsRun, Targets, Forward, Phase, At
  <2> QED
    BY <1>c, <1>2, <2>1, <2>2, <2>3, EarlierSame, FitsFrame DEF SameWork, CleanCommand
<1>3. CASE Commit \/ Restore \/ Preserve \/ Reverted \/ Retire \/ DiscardReplaced
  <2>1. UNCHANGED host /\ (Forward' => Forward)
    BY <1>3, GotoFields, TodoFields, StageNames DEF DiscardReplaced, Commit, Restore, Preserve, Reverted, Retire, Forward, Phase, At
  <2>2. SameWork /\ run'.stage # "change"
    BY <1>3, GotoFields, TodoFields, StageNames DEF DiscardReplaced, Commit, Restore, Preserve, Reverted, Retire
  <2> QED
    BY <1>c, <1>3, <2>1, <2>2, EarlierSame, FitsFrame DEF SameWork, CleanCommand
<1>4. CASE RestoreRetired
  <2>1. Op \in Bundles /\ Goto("retired") /\ run.stage = "retire" /\ host' = [host EXCEPT ![Op] = run.pre[Op]]
    BY <1>4 DEF RestoreRetired, At, PositionInv, Retiring
  <2>2. host'[Build] = host[Build]
    BY <2>1, SiteFacts DEF TypeInv
  <2>3. SameWork /\ run'.stage = "retired"
    BY <2>1, GotoFields, StageNames
  <2> QED
    BY <1>c, <1>4, <2>1, <2>2, <2>3, EarlierSame, FitsFrame DEF SameWork, CleanCommand, Forward, Phase
<1>5. CASE ClearCommitted \/ RemoveLedger
  <2>1. UNCHANGED host /\ run'.stage = "idle"
    BY <1>5, IdleFields DEF ClearCommitted, RemoveLedger, Finish
  <2> QED
    BY <1>c, <1>5, <2>1, FitsFrame DEF CleanCommand, Forward, Phase
<1>6. CASE Enter
  <2>1. UNCHANGED host /\ run'.stage # "change"
    BY <1>6, EnterFields, IdleFields DEF Enter, EnterInstall, EnterUninstall
  <2>2. run'.at = 1
    BY <1>6, EnterFields, IdleFields DEF Enter, SameWork, ControlInv, Installing, Phase, InstallPhases
  <2>3. Earlier' = {}
    BY <2>2, OrderFacts DEF Earlier
  <2> QED
    BY <1>c, <1>6, <2>1, <2>3, FitsFrame DEF CleanCommand
<1>7. CASE Revert
  <2>1. /\ run' = [run EXCEPT !.pending = Requested(NextToRestore)] /\ run.stage = "revert"
        /\ RestoreStep(NextToRestore, ledger.pre[NextToRestore])
    BY <1>7 DEF Revert
  <2>2. NextToRestore \in Ops /\ NextToRestore \in DOMAIN ledger.pre /\ ledger.pre[NextToRestore] \in Content
    BY <2>1, NextToRestoreFacts DEF ControlInv
  <2>3. run'.stage = "revert"
    BY <2>1, RequestedFields
  <2>4. CASE NextToRestore = Build
    <3>1. Build \in Due
      BY SiteFacts, SystemOptimizationsAssumption DEF Due
    <3>2. ledger.pre[Build] = Stock
      BY <1>c, <2>1, <2>2, <2>4, <3>1 DEF AllTidy, Tidy, BookPre, Bookkeeping, Installing, Phase, InstallPhases
    <3>3. host'[Build] = Stock
      BY <2>1, <2>2, <2>4, <3>2, RestoreStepTypes, Sets
    <3> QED
      BY <1>c, <1>7, <2>3, <3>3, FitsFrame DEF CleanCommand, Forward, Phase
  <2>5. CASE NextToRestore # Build
    <3>1. host'[Build] = host[Build]
      BY <2>1, <2>2, <2>5, RestoreStepTypes, SiteFacts
    <3> QED
      BY <1>c, <1>7, <2>3, <3>1, FitsFrame DEF CleanCommand, Forward, Phase
  <2> QED
    BY <2>4, <2>5
<1>8. CASE SetAside \/ ChangeHalf
  <2>1. UNCHANGED run /\ run.stage = "change" /\ Op' = Op
    BY <1>8, EarlierSame DEF SetAside, ChangeHalf, At
  <2>2. host'[Build] \in {host[Build], Stock}
    BY <1>8, SiteFacts DEF SetAside, ChangeHalf, TypeInv
  <2> QED
    BY <1>c, <1>8, <2>1, <2>2, FitsFrame DEF CleanCommand, Forward, Phase, Earlier
<1>9. CASE ChangeFile \/ MoveIn \/ ChangeRest
  <2>1. Op \in Ops /\ Changed(Op) /\ run.stage = "change" /\ run.at <= Len(Order)
    BY <1>9, OpMember DEF ChangeFile, MoveIn, ChangeRest, At
  <2>2. /\ run'.stage = "settle" /\ Op' = Op /\ Earlier' = Earlier /\ SameWork
        /\ host' = [host EXCEPT ![Op] = Desired(Op)]
    BY <2>1, ChangedFields, EarlierSame DEF SameWork
  <2>3. CASE Op = Build
    <3>1. hist'.release = hist.release /\ Build \in Bundled[hist.release] /\ run.release = hist.release
      BY <1>c, <1>9, <2>1, <2>3, CleanHistory, CleanRuns DEF BuildFits, CleanCommand
    <3>2. Build \notin Earlier
      BY <2>1, <2>3, EarlierStep
    <3> QED
      BY <2>2, <3>1, <3>2 DEF BuildFits, SameWork
  <2>4. CASE Op # Build
    <3>1. host'[Build] = host[Build]
      BY <2>1, <2>2, <2>4, SiteFacts DEF TypeInv
    <3> QED
      BY <1>c, <1>9, <2>1, <2>2, <3>1, FitsFrame DEF CleanCommand, Forward, Phase
  <2> QED
    BY <2>3, <2>4
<1>10. CASE Capture
  <2>1. /\ UNCHANGED host /\ run.stage = "apply" /\ NeedsApply(Op)
        /\ run'.stage = "change" /\ Op' = Op /\ Earlier' = Earlier /\ SameWork
    BY <1>10, CaptureFields, EarlierSame DEF Capture, At, SameWork
  <2>2. hist'.release = hist.release /\ run.release = hist.release
    BY <1>c, <1>10, CleanHistory, CleanRuns DEF BuildFits, CleanCommand
  <2>3. Op = Build => Build \in Bundled[hist.release]
    BY <2>1, <2>2, SiteFacts, Sets DEF NeedsApply
  <2> QED
    BY <1>c, <2>1, <2>2, <2>3 DEF BuildFits, SameWork, Forward, Phase
<1>11. CASE SkipOperation \/ Settle \/ RetireChanged \/ Retired
  <2>1. Settle => InHand
    BY DEF Settle, At, PositionInv, Changing, InHand
  <2>2. /\ UNCHANGED host /\ run'.stage = "apply" /\ run'.at = run.at + 1 /\ run.at <= Len(Order)
        /\ run'.release = run.release /\ run.stage \in {"apply", "settle", "retired"}
    BY <1>11, <2>1, SkipOperationFields, SettleFields, GaveUpFields DEF SkipOperation, Settle, RetireChanged, Retired, At
  <2>3. Earlier' = Earlier \cup {Op}
    BY <2>2, EarlierStep
  <2>4. hist'.release = hist.release /\ run.release = hist.release
    BY <1>c, <1>11, CleanHistory, CleanRuns DEF BuildFits, CleanCommand
  <2>5. ASSUME Op = Build, host[Build] \in Package PROVE host[Build] = run.release
    <3>1. CASE SkipOperation
      <4>1. ~NeedsApply(Build) /\ Build \notin run.declined
        BY <3>1, <2>5, SiteFacts, SystemOptimizationsAssumption DEF SkipOperation, Superseded, DeclinedInv
      <4>2. Build \in Bundled[run.release]
        BY <1>c, <2>4, <2>5 DEF BuildFits
      <4> QED
        BY <2>5, <4>1, <4>2, SiteFacts, ContentFacts DEF NeedsApply, Desired
    <3>2. CASE Settle
      BY <1>c, <2>5, <3>2, SiteFacts DEF Settle, At, RecordInv, CleanInv, CleanWork, Desired
    <3>3. CASE RetireChanged \/ Retired
      BY <2>5, <3>3, SiteFacts DEF RetireChanged, Retired, Superseded, At, PositionInv, Retiring
    <3> QED
      BY <1>11, <3>1, <3>2, <3>3
  <2> QED
    BY <1>c, <2>2, <2>3, <2>4, <2>5 DEF BuildFits, Forward, Phase
<1> QED
  BY <1>c, <1>1, <1>2, <1>3, <1>4, <1>5, <1>6, <1>7, <1>8, <1>9, <1>10, <1>11 DEF CleanCommand

\* An uninstall that nothing failed, killed or edited before or during it leaves nothing of
\* any release in the places that it always restores, after any number of updates, as long as
\* no later release drops the build that an earlier one brought.
THEOREM UninstallIsComplete ==
    ASSUME BuildStays PROVE Spec => []UninstallRestores
<1> DEFINE Inv == DeclinedInv /\ (Clean => AllTidy /\ Cleared /\ BuildFits /\ Gone)
<1>1. Init => Inv
  <2> SUFFICES ASSUME Init PROVE Inv
    OBVIOUS
  <2>1. run = IdleRun /\ run.stage = "idle" /\ run.declined = {} /\ run.kind = "none" /\ ledger.pre = Nothing
    BY DEF Init, IdleRun, NoLedger
  <2>2. \A o \in Ops : host[o] = Stock
    BY DEF Init
  <2>3. AllTidy
    BY <2>1, <2>2, NothingFacts DEF AllTidy, Due, Tidy, BookPre, Bookkeeping, Installing, Phase, InstallPhases, InWork, Changing
  <2>4. Cleared
    BY <2>1 DEF Cleared, Phase
  <2>5. BuildFits
    BY <2>1, <2>2, SiteFacts, ContentFacts DEF BuildFits, Forward, Phase
  <2>6. Gone
    BY <2>1, NothingFacts DEF Gone
  <2> QED
    BY <2>1, <2>3, <2>4, <2>5, <2>6 DEF DeclinedInv
<1>2. RecordAll /\ ServeAll /\ Inv /\ [Next]_vars => Inv'
  <2> SUFFICES ASSUME RecordAll, ServeAll, Inv, [Next]_vars PROVE Inv'
    OBVIOUS
  <2>1. TidyAll
    BY DEF TidyAll
  <2>2. CASE Begin \/ Command \/ Kill
    BY <2>1, <2>2, DeclinedSteps, TidySteps, ClearedSteps, FitsSteps, GoneSteps DEF RecordAll, BookInv
  <2>3. CASE \E o \in Ops : Edit(o)
    <3>1. PICK o \in Ops : Edit(o)
      BY <2>3
    <3>2. o \in hist'.edited /\ UNCHANGED run
      BY <3>1, EditFields DEF RecordAll, BookInv, Edit
    <3> QED
      BY <3>2 DEF Clean, NothingFailed, DeclinedInv
  <2>4. CASE UNCHANGED vars
    BY <2>4 DEF vars, DeclinedInv, Clean, NothingFailed, AllTidy, Tidy, AsRecorded, BookPre, BookOut, Bookkeeping, Installing,
       InWork, Changing, Op, NextToRestore, Cleared, Phase, BuildFits, Forward, Earlier, Gone
  <2> QED
    BY <2>2, <2>3, <2>4 DEF Next
<1>3. BookInv /\ Inv => UninstallRestores
  <2> SUFFICES ASSUME BookInv, Inv, hist.ended = "uninstalled", Clean, NEW o \in Ops \ Optional PROVE host[o] = Stock
    BY DEF UninstallRestores, Clean, NothingFailed
  <2>1. run = IdleRun /\ DOMAIN ledger.pre = {} /\ Tidy(o)
    BY DEF Gone, BookInv, ControlInv, AllTidy, Due
  <2>2. run.stage = "idle"
    BY <2>1, IdleStage
  <2> QED
    BY <2>1, <2>2 DEF Tidy, BookPre, Bookkeeping, Installing, Phase, InstallPhases, InWork, Changing
<1>4. Spec => [](RecordAll /\ ServeAll)
  BY EveryRecord, ServedAlways, PTL DEF RecordAll
<1> HIDE DEF Inv
<1> QED
  BY <1>1, <1>2, <1>3, <1>4, PTL DEF Spec, RecordAll
=============================================================================
