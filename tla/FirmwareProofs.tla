--------------------------- MODULE FirmwareProofs ---------------------------
(***************************************************************************)
(* What the firmware tools promise, for any number of boards, any fleet of *)
(* bootloaders, and any lengths of images and sessions.                    *)
(***************************************************************************)
EXTENDS FirmwareProperties, Integers, TLAPS

-----------------------------------------------------------------------------
(* Types.                                                                   *)

Contents == Images \cup {"erased", "misplaced"}
Modes == {"app", "startup", "tail", "identified", "data", "exit"}
IsBoard(b) ==
    b \in [build : Builds, slow : BOOLEAN, mode : Modes, flash : [Index -> Contents],
           pointer : 0 .. Pages, last : 0 .. Pages, quiet : Nat]

Stages == Finished \cup {"probe", "start", "first", "data", "end", "late", "sleep", "restart"}
IsClient(c) ==
    c \in [pc : Stages, on : Boards, requested : Images, target : Images, index : Index,
           tries : Nat, wait : Nat, heard : Nat, held : Nat, waited : Nat, rounds : Nat,
           programs : Nat, fooled : BOOLEAN]

OpStages == {"idle", "stop", "snapshot", "record", "transfer", "start"}
OpKinds == {"none", "thr", "install", "restore", "rescue"}
IsOp(o) ==
    o \in [kind : OpKinds, pc : OpStages, board : Boards, plan : SUBSET Boards,
           services : SUBSET Services, todo : SUBSET Services, pending : BOOLEAN, failed : BOOLEAN]

Phases == {"none", "stopping_services", "programming", "verified"}
IsRecord(r) == r \in [phase : Phases, board : Boards, services : SUBSET Services]

Tools == {"thr", "box"}
ToolOf(b) == IF b = Thr THEN "thr" ELSE "box"

BoardsTyped == board = [b \in Boards |-> board[b]] /\ \A b \in Boards : IsBoard(board[b])
RecordsTyped == DOMAIN pending = Tools /\ \A tool \in Tools : IsRecord(pending[tool])

TypeInv ==
    /\ BoardsTyped
    /\ link \in {"up", "dead", "mute"} /\ events \in Nat
    /\ IsClient(client)
    /\ active \subseteq Services
    /\ RecordsTyped
    /\ backups \subseteq Boxes /\ stockSaved \in BOOLEAN
    /\ IsOp(op)
    /\ hist.enabled = Services

-----------------------------------------------------------------------------
(* The bootloader.                                                          *)

LEMMA Numbers ==
    /\ Pages \in Nat /\ Pages > 0 /\ Session \in Nat /\ Session > 1 /\ Exit \in Nat /\ Exit > 0
    /\ Startup \in Nat /\ Slack \in Nat /\ Slack > 0 /\ Slack <= Exit /\ Hold \in Nat /\ MaxEvents \in Nat
    /\ 0 \in Index
  BY TransferAssumption DEF Index

LEMMA SessionType == ASSUME NEW b, IsBoard(b) PROVE SessionTicks(b) \in Session .. Session + Slack
  BY Numbers DEF SessionTicks, IsBoard

LEMMA ModeNames == {"app", "startup", "tail", "identified", "data", "exit"} \subseteq Modes /\ 0 \in Nat /\ 1 \in Nat
  BY DEF Modes

\* A board in another mode.
Moved(b, mode, quiet) == [b EXCEPT !.mode = mode, !.quiet = quiet]

LEMMA MovedFields ==
    ASSUME NEW b, IsBoard(b), NEW mode \in Modes, NEW quiet \in Nat
    PROVE  LET t == Moved(b, mode, quiet) IN
           /\ IsBoard(t) /\ t.build = b.build /\ t.slow = b.slow /\ t.flash = b.flash
           /\ t.mode = mode /\ t.pointer = b.pointer /\ t.last = b.last /\ t.quiet = quiet
  <1>1. IsBoard(Moved(b, mode, quiet))
    BY DEF IsBoard, Moved
  <1>2. LET t == Moved(b, mode, quiet) IN
        /\ t.build = b.build /\ t.slow = b.slow /\ t.flash = b.flash
        /\ t.mode = mode /\ t.pointer = b.pointer /\ t.last = b.last /\ t.quiet = quiet
    BY DEF IsBoard, Moved
  <1> QED
    BY <1>1, <1>2

LEMMA ResetFields ==
    ASSUME NEW b, IsBoard(b)
    PROVE  LET r == Reset(b) IN
           /\ IsBoard(r) /\ r.build = b.build /\ r.slow = b.slow /\ r.flash = b.flash
           /\ r.mode = "startup" /\ r.pointer = 0 /\ r.quiet = 0
  <1>1. "startup" \in Modes /\ 0 \in 0 .. Pages /\ Pages \in 0 .. Pages /\ 0 \in Nat
    BY Numbers DEF Modes
  <1> QED
    BY <1>1 DEF Reset, IsBoard

LEMMA EraseFields ==
    ASSUME NEW b, IsBoard(b)
    PROVE  LET e == Erase(b) IN
           /\ IsBoard(e) /\ e.build = b.build /\ e.slow = b.slow /\ e.mode = b.mode
           /\ e.pointer = b.pointer /\ e.last = b.last /\ e.quiet = b.quiet
           /\ \A p \in Index : e.flash[p] = "erased"
  BY Numbers DEF Erase, IsBoard, Contents, Index

\* A tick changes the flash only where a session expires.
LEMMA TickFields ==
    ASSUME NEW b, IsBoard(b)
    PROVE  LET t == Tick(b) IN
           /\ IsBoard(t) /\ t.build = b.build /\ t.slow = b.slow
           /\ b.mode # "data" => t.flash = b.flash
           /\ b.mode = "app" => t = b
           /\ t.mode = "data" => b.mode = "data"
           /\ b.mode = "data" =>
                IF b.quiet < SessionTicks(b)
                THEN t.flash = b.flash /\ t.mode = "data" /\ t.quiet = b.quiet + 1 /\ t.pointer = b.pointer /\ t.last = b.last
                ELSE t.mode = "exit" /\ t.quiet = 1 /\ t.pointer = b.pointer /\ t.last = b.last
           /\ b.mode = "exit" =>
                IF b.quiet < Exit
                THEN t.mode = "exit" /\ t.quiet = b.quiet + 1 /\ t.pointer = b.pointer /\ t.last = b.last
                ELSE t.mode = "startup" /\ t.pointer = 0
           /\ b.mode \in {"startup", "tail", "identified"} =>
                t.mode \in {"app", "startup", "tail", "identified"} /\ t.pointer \in {b.pointer, 0}
           /\ \A p \in Index : t.flash[p] \in {b.flash[p], "erased"}
  <1> DEFINE later == [b EXCEPT !.quiet = @ + 1]
  <1>1. IsBoard(later) /\ later.quiet = b.quiet + 1 /\ later.flash = b.flash /\ later.mode = b.mode
        /\ later.pointer = b.pointer /\ later.last = b.last /\ later.build = b.build /\ later.slow = b.slow
    BY DEF IsBoard
  <1>2. SessionTicks(b) \in Nat /\ b.quiet \in Nat /\ b.mode \in Modes /\ Exit \in Nat
    BY SessionType, Numbers DEF IsBoard
  <1>3. Reset(b).flash = b.flash /\ IsBoard(Reset(b)) /\ Reset(b).mode = "startup" /\ Reset(b).pointer = 0
        /\ Reset(b).build = b.build /\ Reset(b).slow = b.slow
    BY ResetFields
  <1>4. CASE b.mode = "app"
    BY <1>4 DEF Tick
  <1>5. CASE b.mode = "startup"
    <2>1. Tick(b) \in {[later EXCEPT !.mode = "tail"], later, b}
      BY <1>5 DEF Tick
    <2>2. IsBoard([later EXCEPT !.mode = "tail"])
      BY <1>1 DEF IsBoard, Modes
    <2>3. b.flash = [later EXCEPT !.mode = "tail"].flash /\ [later EXCEPT !.mode = "tail"].mode = "tail"
          /\ [later EXCEPT !.mode = "tail"].pointer = b.pointer /\ [later EXCEPT !.mode = "tail"].build = b.build
          /\ [later EXCEPT !.mode = "tail"].slow = b.slow
      BY <1>1 DEF IsBoard
    <2> DEFINE tail == [later EXCEPT !.mode = "tail"]
    <2>4. Tick(b) \in {tail, later, b}
      BY <2>1
    <2>5. tail.flash = b.flash /\ tail.mode = "tail" /\ tail.pointer = b.pointer /\ tail.build = b.build
          /\ tail.slow = b.slow /\ IsBoard(tail)
      BY <2>2, <2>3
    <2> HIDE DEF later, tail
    <2> QED
      BY <1>1, <1>5, <2>4, <2>5
  <1>6. CASE b.mode = "tail"
    BY <1>6 DEF Tick, IsBoard, Modes
  <1>7. CASE b.mode = "identified"
    <2>1. Tick(b) \in {[b EXCEPT !.mode = "app", !.quiet = 0], later, Reset(b), b}
      BY <1>7 DEF Tick
    <2>2. IsBoard([b EXCEPT !.mode = "app", !.quiet = 0])
      BY DEF IsBoard, Modes
    <2>3. LET a == [b EXCEPT !.mode = "app", !.quiet = 0] IN
             a.flash = b.flash /\ a.mode = "app" /\ a.pointer = b.pointer /\ a.build = b.build /\ a.slow = b.slow
      BY DEF IsBoard
    <2> DEFINE app == [b EXCEPT !.mode = "app", !.quiet = 0]
    <2>4. Tick(b) \in {app, later, Reset(b), b}
      BY <2>1
    <2>5. app.flash = b.flash /\ app.mode = "app" /\ app.pointer = b.pointer /\ app.build = b.build
          /\ app.slow = b.slow /\ IsBoard(app)
      BY <2>2, <2>3
    <2> HIDE DEF later, app
    <2> QED
      BY <1>1, <1>3, <1>7, <2>4, <2>5
  <1>8. CASE b.mode = "data"
    <2>1. CASE b.quiet < SessionTicks(b)
      <3>1. Tick(b) = later
        BY <1>2, <1>8, <2>1 DEF Tick
      <3> HIDE DEF later
      <3> QED
        BY <1>1, <1>2, <1>8, <2>1, <3>1
    <2>2. CASE ~(b.quiet < SessionTicks(b))
      <3>1. Tick(b) = [b EXCEPT !.mode = "exit", !.flash[0] = "erased", !.quiet = 1]
        BY <1>2, <1>8, <2>2 DEF Tick
      <3>2. IsBoard([b EXCEPT !.mode = "exit", !.flash[0] = "erased", !.quiet = 1])
        BY Numbers DEF IsBoard, Modes, Contents
      <3>3. LET e == Tick(b) IN
            /\ e.mode = "exit" /\ e.quiet = 1 /\ e.pointer = b.pointer /\ e.last = b.last
            /\ e.build = b.build /\ e.slow = b.slow /\ e.flash = [b.flash EXCEPT ![0] = "erased"]
        BY <3>1 DEF IsBoard
      <3>4. DOMAIN b.flash = Index
        BY DEF IsBoard
      <3> QED
        BY <1>8, <2>2, <3>1, <3>2, <3>3, <3>4, Numbers
    <2> QED
      BY <2>1, <2>2
  <1>9. CASE b.mode = "exit"
    <2>1. CASE b.quiet < Exit
      <3>1. Tick(b) = later
        BY <1>2, <1>9, <2>1 DEF Tick
      <3> HIDE DEF later
      <3> QED
        BY <1>1, <1>2, <1>9, <2>1, <3>1
    <2>2. CASE ~(b.quiet < Exit)
      <3>1. Tick(b) = Reset(b)
        BY <1>2, <1>9, <2>2 DEF Tick
      <3> QED
        BY <1>3, <1>9, <2>2, <3>1
    <2> QED
      BY <2>1, <2>2
  <1> QED
    BY <1>2, <1>4, <1>5, <1>6, <1>7, <1>8, <1>9 DEF Modes

LEMMA ReloadFields ==
    ASSUME NEW b, IsBoard(b)
    PROVE  LET r == Reload(b) IN
           /\ IsBoard(r) /\ r.build = b.build /\ r.slow = b.slow /\ r.flash = b.flash
           /\ r.mode = b.mode /\ r.pointer = b.pointer /\ r.last = b.last
           /\ r.quiet \in {0, b.quiet} /\ (b.mode \in {"identified", "data"} => r.quiet = 0)
           /\ b.mode = "exit" => r.quiet = b.quiet
  BY DEF Reload, IsBoard

\* A packet is programmed at the write pointer, or only acknowledged.
LEMMA WriteFields ==
    ASSUME NEW b, IsBoard(b), NEW i \in Index, NEW image \in Images
    PROVE  LET w == Write(b, i, image)
               repeated == (i # 0 /\ i = b.last) \/ b.pointer = Pages IN
           /\ IsBoard(w) /\ w.build = b.build /\ w.slow = b.slow /\ w.mode = b.mode /\ w.quiet = b.quiet
           /\ w.last = i
           /\ w.pointer = IF repeated THEN b.pointer ELSE b.pointer + 1
           /\ \A p \in Index : w.flash[p] = IF ~repeated /\ p = b.pointer
                                            THEN (IF p = i THEN image ELSE "misplaced") ELSE b.flash[p]
  <1>1. CASE (i # 0 /\ i = b.last) \/ b.pointer = Pages
    <2>1. Write(b, i, image) = [b EXCEPT !.last = i] /\ i \in 0 .. Pages
      BY <1>1, Numbers DEF Write, Index
    <2>2. IsBoard(Write(b, i, image))
      BY <2>1 DEF IsBoard
    <2> QED
      BY <1>1, <2>1, <2>2 DEF IsBoard
  <1>2. CASE ~((i # 0 /\ i = b.last) \/ b.pointer = Pages)
    <2>1. b.pointer \in Index /\ b.pointer + 1 \in 0 .. Pages /\ i \in 0 .. Pages
      BY <1>2, Numbers DEF IsBoard, Index
    <2> DEFINE page == IF b.pointer = i THEN image ELSE "misplaced"
    <2>2. page \in Contents /\ Write(b, i, image) = [b EXCEPT !.flash[b.pointer] = page, !.pointer = @ + 1, !.last = i]
      BY <1>2 DEF Write, Contents
    <2> HIDE DEF page
    <2>3. IsBoard(Write(b, i, image))
      BY <2>1, <2>2 DEF IsBoard
    <2>4. /\ Write(b, i, image).flash = [b.flash EXCEPT ![b.pointer] = page]
          /\ Write(b, i, image).pointer = b.pointer + 1 /\ Write(b, i, image).last = i
          /\ Write(b, i, image).build = b.build /\ Write(b, i, image).slow = b.slow
          /\ Write(b, i, image).mode = b.mode /\ Write(b, i, image).quiet = b.quiet
      BY <2>1, <2>2 DEF IsBoard
    <2>5. DOMAIN b.flash = Index
      BY DEF IsBoard
    <2> QED
      BY <1>2, <2>1, <2>3, <2>4, <2>5 DEF page
  <1> QED
    BY <1>1, <1>2

LEMMA TakesIdentity ==
    ASSUME NEW b, IsBoard(b), NEW i \in Index, NEW image \in Images
    PROVE  LET t == Takes(b, "identity", i, image) IN
           /\ IsBoard(t) /\ t.build = b.build /\ t.slow = b.slow /\ t.flash = b.flash
           /\ t.pointer = b.pointer /\ t.last = b.last
           /\ t.mode = IF b.mode = "startup" THEN "identified" ELSE b.mode
           /\ t.quiet \in {0, b.quiet} /\ (b.mode = "data" => t.quiet = 0)
           /\ b.mode = "exit" => t.quiet = b.quiet
  <1>1. CASE b.mode = "startup"
    <2>1. Takes(b, "identity", i, image) = Moved(b, "identified", 0)
      <3>1. Takes(b, "identity", i, image) = [b EXCEPT !.mode = "identified", !.quiet = 0]
        BY <1>1 DEF Takes
      <3> QED
        BY <3>1 DEF Moved
    <2>2. LET t == Moved(b, "identified", 0) IN
           /\ IsBoard(t) /\ t.build = b.build /\ t.slow = b.slow /\ t.flash = b.flash
           /\ t.mode = "identified" /\ t.pointer = b.pointer /\ t.last = b.last /\ t.quiet = 0
      BY MovedFields, ModeNames
    <2> QED
      BY <1>1, <2>1, <2>2
  <1>2. CASE b.mode # "startup"
    BY <1>2, ReloadFields DEF Takes
  <1> QED
    BY <1>1, <1>2

\* What start erases: all of the flash, but it does not rewind the pointer.
Erases(b) == b.mode \in {"identified", "tail"} \/ (b.mode \in Open /\ b.pointer > 0)

LEMMA TakesStart ==
    ASSUME NEW b, IsBoard(b), NEW i \in Index, NEW image \in Images
    PROVE  LET t == Takes(b, "start", i, image) IN
           /\ IsBoard(t) /\ t.build = b.build /\ t.slow = b.slow
           /\ t.pointer = b.pointer /\ t.last = b.last
           /\ t.mode = IF b.mode = "identified" THEN "data" ELSE b.mode
           /\ IF Erases(b) THEN \A p \in Index : t.flash[p] = "erased" ELSE t.flash = b.flash
           /\ t.quiet \in {0, b.quiet} /\ (t.mode = "data" => t.quiet = 0)
  <1> DEFINE e == Erase(b)
  <1>1. IsBoard(e) /\ e.build = b.build /\ e.slow = b.slow /\ e.mode = b.mode /\ e.pointer = b.pointer
        /\ e.last = b.last /\ e.quiet = b.quiet /\ \A p \in Index : e.flash[p] = "erased"
    BY EraseFields
  <1>2. CASE b.mode = "identified"
    <2>1. Takes(b, "start", i, image) = Moved(e, "data", 0)
      <3>1. Takes(b, "start", i, image) = [Erase(b) EXCEPT !.mode = "data", !.quiet = 0]
        BY <1>2 DEF Takes, Open
      <3> QED
        BY <3>1 DEF Moved
    <2> HIDE DEF e
    <2>2. LET t == Moved(e, "data", 0) IN
           /\ IsBoard(t) /\ t.build = e.build /\ t.slow = e.slow /\ t.flash = e.flash
           /\ t.mode = "data" /\ t.pointer = e.pointer /\ t.last = e.last /\ t.quiet = 0
      BY <1>1, MovedFields, ModeNames
    <2> QED
      BY <1>1, <1>2, <2>1, <2>2 DEF Erases
  <1>3. CASE b.mode \in Open /\ b.pointer > 0
    <2>1. Takes(b, "start", i, image) = Reload(e)
      BY <1>3 DEF Takes, Open
    <2> HIDE DEF e
    <2>2. LET t == Reload(e) IN
           /\ IsBoard(t) /\ t.build = e.build /\ t.slow = e.slow /\ t.flash = e.flash
           /\ t.mode = e.mode /\ t.pointer = e.pointer /\ t.last = e.last /\ t.quiet \in {0, e.quiet}
           /\ (e.mode = "data" => t.quiet = 0)
      BY <1>1, ReloadFields
    <2> QED
      BY <1>1, <1>3, <2>1, <2>2 DEF Erases, Open
  <1>4. CASE b.mode = "tail"
    BY <1>1, <1>4 DEF Takes, Open, Erases
  <1>5. CASE ~Erases(b)
    <2>1. Takes(b, "start", i, image) = Reload(b)
      BY <1>5 DEF Takes, Open, Erases
    <2> QED
      BY <1>5, <2>1, ReloadFields DEF Erases
  <1> QED
    BY <1>2, <1>3, <1>4, <1>5 DEF Erases

Repeated(b, i) == (i # 0 /\ i = b.last) \/ b.pointer = Pages

LEMMA TakesData ==
    ASSUME NEW b, IsBoard(b), NEW i \in Index, NEW image \in Images
    PROVE  LET t == Takes(b, "data", i, image)
               written == b.mode \in Open /\ ~Repeated(b, i) IN
           /\ IsBoard(t) /\ t.build = b.build /\ t.slow = b.slow /\ t.mode = b.mode
           /\ t.last = IF b.mode \in Open THEN i ELSE b.last
           /\ t.pointer = IF written THEN b.pointer + 1 ELSE b.pointer
           /\ \A p \in Index : t.flash[p] = IF written /\ p = b.pointer
                                            THEN (IF p = i THEN image ELSE "misplaced") ELSE b.flash[p]
           /\ t.quiet \in {0, b.quiet} /\ (b.mode = "data" => t.quiet = 0)
  <1>1. CASE b.mode \in Open
    <2>1. Takes(b, "data", i, image) = Reload(Write(b, i, image))
      BY <1>1 DEF Takes
    <2>2. IsBoard(Write(b, i, image))
      BY WriteFields
    <2>3. LET t == Reload(Write(b, i, image))
              w == Write(b, i, image) IN
           /\ IsBoard(t) /\ t.build = w.build /\ t.slow = w.slow /\ t.mode = w.mode /\ t.last = w.last
           /\ t.pointer = w.pointer /\ t.flash = w.flash
           /\ t.quiet \in {0, w.quiet} /\ (w.mode = "data" => t.quiet = 0)
      BY <2>2, ReloadFields
    <2>4. LET w == Write(b, i, image) IN
           /\ w.build = b.build /\ w.slow = b.slow /\ w.mode = b.mode /\ w.quiet = b.quiet /\ w.last = i
           /\ w.pointer = IF Repeated(b, i) THEN b.pointer ELSE b.pointer + 1
           /\ \A p \in Index : w.flash[p] = IF ~Repeated(b, i) /\ p = b.pointer
                                            THEN (IF p = i THEN image ELSE "misplaced") ELSE b.flash[p]
      BY WriteFields DEF Repeated
    <2> QED
      BY <1>1, <2>1, <2>3, <2>4
  <1>2. CASE b.mode \notin Open
    <2>1. Takes(b, "data", i, image) = Reload(b)
      BY <1>2 DEF Takes
    <2> QED
      BY <1>2, <2>1, ReloadFields
  <1> QED
    BY <1>1, <1>2

LEMMA TakesEnd ==
    ASSUME NEW b, IsBoard(b), NEW i \in Index, NEW image \in Images
    PROVE  LET t == Takes(b, "end", i, image) IN
           /\ IsBoard(t) /\ t.build = b.build /\ t.slow = b.slow /\ t.flash = b.flash
           /\ t.pointer = b.pointer /\ t.last = b.last
           /\ t.mode = IF b.mode \in Open THEN "app" ELSE b.mode
           /\ t.quiet \in {0, b.quiet}
  <1>1. CASE b.mode \in Open
    <2>1. Takes(b, "end", i, image) = Moved(b, "app", 0)
      <3>1. Takes(b, "end", i, image) = [b EXCEPT !.mode = "app", !.quiet = 0]
        BY <1>1 DEF Takes
      <3> QED
        BY <3>1 DEF Moved
    <2>2. LET t == Moved(b, "app", 0) IN
           /\ IsBoard(t) /\ t.build = b.build /\ t.slow = b.slow /\ t.flash = b.flash
           /\ t.mode = "app" /\ t.pointer = b.pointer /\ t.last = b.last /\ t.quiet = 0
      BY MovedFields, ModeNames
    <2> QED
      BY <1>1, <2>1, <2>2 DEF Open
  <1>2. CASE b.mode \notin Open
    BY <1>2, ReloadFields DEF Takes
  <1> QED
    BY <1>1, <1>2

-----------------------------------------------------------------------------
(* The steps of a client, by what they do to the board it programs.         *)

\* A client changes the one board it programs, and never its bootloader.
Programs(n) ==
    /\ IsBoard(n) /\ n.build = It.build /\ n.slow = It.slow
    /\ board' = [board EXCEPT ![client.on] = n]

LEMMA ItType == ASSUME TypeInv PROVE IsBoard(It) /\ client.on \in Boards /\ client.index \in Index /\ client.target \in Images
  BY DEF TypeInv, BoardsTyped, IsClient, It

LEMMA SentFields ==
    ASSUME TypeInv, NEW kind \in {"identity", "start", "data", "end"}, NEW i \in Index
    PROVE  IsBoard(Sent(kind, i)) /\ Sent(kind, i).build = It.build /\ Sent(kind, i).slow = It.slow
  <1> DEFINE t == Takes(It, kind, i, client.target)
  <1>1. IsBoard(t) /\ t.build = It.build /\ t.slow = It.slow
    <2> HIDE DEF t
    <2>1. CASE kind = "identity"
      BY <2>1, ItType, TakesIdentity DEF t
    <2>2. CASE kind = "start"
      BY <2>2, ItType, TakesStart DEF t
    <2>3. CASE kind = "data"
      BY <2>3, ItType, TakesData DEF t
    <2>4. CASE kind = "end"
      BY <2>4, ItType, TakesEnd DEF t
    <2> QED
      BY <2>1, <2>2, <2>3, <2>4
  <1>2. Sent(kind, i) \in {It, t}
    BY DEF Sent
  <1> HIDE DEF t
  <1> QED
    BY <1>1, <1>2, ItType

\* What the steps of a client's program leave of its record.
LEMMA GotoFields ==
    ASSUME TypeInv, NEW t \in Nat, NEW pc \in Stages, GotoAfter(t, pc)
    PROVE  /\ IsClient(client') /\ client'.on = client.on
           /\ client'.pc = pc /\ client'.wait = t /\ client'.heard = 0
           /\ client'.index = client.index /\ client'.target = client.target /\ client'.fooled = client.fooled
  <1>1. IsClient(client) /\ 0 \in Nat
    BY DEF TypeInv
  <1>2. IsClient(client')
    BY <1>1 DEF IsClient, GotoAfter
  <1> QED
    BY <1>1, <1>2 DEF IsClient, GotoAfter

LEMMA RetryFields ==
    ASSUME TypeInv, NEW t \in Nat, Retry(t)
    PROVE  /\ IsClient(client') /\ client'.on = client.on
           /\ client'.pc = client.pc /\ client'.wait = t /\ client'.heard = client.heard
           /\ client'.index = client.index /\ client'.target = client.target /\ client'.fooled = client.fooled
  <1>1. IsClient(client)
    BY DEF TypeInv
  <1>2. client.tries + 1 \in Nat
    BY <1>1 DEF IsClient
  <1>3. IsClient(client')
    BY <1>1, <1>2 DEF IsClient, Retry
  <1> QED
    BY <1>1, <1>3 DEF IsClient, Retry

LEMMA OnwardFields ==
    ASSUME TypeInv, Onward
    PROVE  /\ IsClient(client') /\ client'.on = client.on
           /\ client'.wait = client.wait /\ client'.heard = 0
           /\ client'.target = client.target /\ client'.fooled = client.fooled
           /\ IF client.index + 1 = Pages THEN client'.pc = "end" /\ client'.index = client.index
                                          ELSE client'.pc = "data" /\ client'.index = client.index + 1
  <1> DEFINE pc == Next2(client.index)
             index == IF client.index + 1 = Pages THEN client.index ELSE client.index + 1
  <1>1. pc \in Stages /\ index \in Index /\ 0 \in Nat
    BY ItType, Numbers DEF Next2, Stages, Index
  <1>2. IsClient(client)
    BY DEF TypeInv
  <1>3. client' = [client EXCEPT !.pc = pc, !.tries = 0, !.heard = 0, !.held = 0, !.index = index]
    BY DEF Onward
  <1> HIDE DEF pc, index
  <1>4. IsClient(client')
    BY <1>1, <1>2, <1>3 DEF IsClient
  <1>5. /\ client'.on = client.on /\ client'.wait = client.wait /\ client'.heard = 0
        /\ client'.target = client.target /\ client'.fooled = client.fooled
        /\ client'.pc = pc /\ client'.index = index
    BY <1>2, <1>3 DEF IsClient
  <1> QED
    BY <1>4, <1>5 DEF pc, index, Next2

LEMMA FreshFields ==
    ASSUME TypeInv, Fresh
    PROVE  /\ IsClient(client') /\ client'.on = client.on
           /\ client'.pc \in {"start", "failed"} /\ client'.wait = client.wait /\ client'.heard = 0
           /\ client'.index = 0 /\ client'.target = "stock" /\ client'.fooled = client.fooled
  <1> DEFINE pc == IF client.programs < 4 THEN "start" ELSE "failed"
  <1>1. {"start", "failed"} \subseteq Stages /\ pc \in {"start", "failed"} /\ "stock" \in Images /\ 0 \in Index /\ 0 \in Nat
    BY Numbers DEF Stages, Finished, Images
  <1>2. IsClient(client)
    BY DEF TypeInv
  <1>3. client.programs + 1 \in Nat
    BY <1>2 DEF IsClient
  <1>4. client' = [client EXCEPT !.pc = pc, !.target = "stock", !.index = 0, !.tries = 0, !.heard = 0,
                                 !.programs = client.programs + 1]
    BY <1>2 DEF Fresh, IsClient
  <1> HIDE DEF pc
  <1>5. IsClient(client')
    BY <1>1, <1>2, <1>3, <1>4 DEF IsClient
  <1>6. /\ client'.on = client.on /\ client'.pc = pc /\ client'.wait = client.wait /\ client'.heard = 0
        /\ client'.index = 0 /\ client'.target = "stock" /\ client'.fooled = client.fooled
    BY <1>2, <1>4 DEF IsClient
  <1> QED
    BY <1>1, <1>5, <1>6

LEMMA StageNames ==
    {"idle", "done", "unconfirmed", "failed", "probe", "start", "first", "data", "end", "late", "sleep", "restart"} \subseteq Stages
  BY DEF Stages, Finished

LEMMA LongWaitType == LongWait \in Nat
  BY DEF LongWait

\* A client goes on with the one board it programs.
GoesOn == IsClient(client') /\ client'.on = client.on

ClientTypes == (\E n : Programs(n)) /\ GoesOn /\ link' = link /\ events' \in Nat

LEMMA NowPrograms ==
    ASSUME TypeInv, NEW n, IsBoard(n), n.build = It.build, n.slow = It.slow, Now(n)
    PROVE  Programs(n)
  BY DEF Now, Programs

LEMMA StayPrograms == ASSUME TypeInv, board' = board PROVE Programs(It)
  <1>1. board = [board EXCEPT ![client.on] = It]
    BY ItType DEF TypeInv, BoardsTyped, It
  <1> QED
    BY <1>1, ItType DEF Programs

LEMMA SentPrograms ==
    ASSUME TypeInv, NEW kind \in {"identity", "start", "data", "end"}, NEW i \in Index, Now(Sent(kind, i))
    PROVE  Programs(Sent(kind, i))
  BY SentFields, NowPrograms

LEMMA ReloadPrograms == ASSUME TypeInv, Now(Reload(It)) PROVE Programs(Reload(It))
  BY ItType, ReloadFields, NowPrograms

LEMMA GotoGoesOn == ASSUME TypeInv, NEW t \in Nat, NEW pc \in Stages, GotoAfter(t, pc) PROVE GoesOn
  BY GotoFields DEF GoesOn

LEMMA RetryGoesOn == ASSUME TypeInv, NEW t \in Nat, Retry(t) PROVE GoesOn
  BY RetryFields DEF GoesOn

LEMMA FailGoesOn == ASSUME TypeInv, Fail PROVE GoesOn
  BY GotoGoesOn, StageNames DEF Fail, Goto

LEMMA AmbiguousGoesOn == ASSUME TypeInv, Ambiguous PROVE GoesOn
  BY FailGoesOn, GotoGoesOn, StageNames DEF Ambiguous, Goto

LEMMA OnwardGoesOn == ASSUME TypeInv, Onward PROVE GoesOn
  BY OnwardFields DEF GoesOn

LEMMA FreshGoesOn == ASSUME TypeInv, Fresh PROVE GoesOn
  BY FreshFields DEF GoesOn

LEMMA NoEvents == ASSUME TypeInv, events' = events \/ events' = events + 1 PROVE events' \in Nat
  BY DEF TypeInv

LEMMA ProbeTypes == ASSUME TypeInv, Probe PROVE ClientTypes
  <1>1. Now(Sent("identity", 0)) /\ (Goto("start") \/ Retry(LongWait) \/ Fail) /\ link' = link /\ events' = events
    BY DEF Probe
  <1>2. \E n : Programs(n)
    BY <1>1, SentPrograms, Numbers
  <1>3. GoesOn
    BY <1>1, GotoGoesOn, RetryGoesOn, FailGoesOn, LongWaitType, StageNames DEF Goto
  <1> QED
    BY <1>1, <1>2, <1>3, NoEvents DEF ClientTypes

LEMMA StartImageTypes == ASSUME TypeInv, StartImage PROVE ClientTypes
  <1>1. /\ Now(Sent("start", 0)) /\ link' = link /\ events' = events
        /\ Goto("first") \/ Fail \/ Retry(LongWait) \/ Retry(1) \/ GotoAfter(1, "first")
    BY DEF StartImage
  <1>2. \E n : Programs(n)
    BY <1>1, SentPrograms, Numbers
  <1>3. GoesOn
    BY <1>1, GotoGoesOn, RetryGoesOn, FailGoesOn, LongWaitType, StageNames DEF Goto
  <1> QED
    BY <1>1, <1>2, <1>3, NoEvents DEF ClientTypes

LEMMA FirstPacketTypes == ASSUME TypeInv, FirstPacket PROVE ClientTypes
  <1>1. /\ Now(Sent("data", 0)) \/ Now(Reload(It))
        /\ link' = link /\ (events' = events \/ events' = events + 1)
        /\ Onward \/ Ambiguous \/ Retry(0)
    BY DEF FirstPacket
  <1>2. \E n : Programs(n)
    BY <1>1, SentPrograms, ReloadPrograms, Numbers
  <1>3. GoesOn
    BY <1>1, OnwardGoesOn, RetryGoesOn, AmbiguousGoesOn
  <1> QED
    BY <1>1, <1>2, <1>3, NoEvents DEF ClientTypes

LEMMA LaterPacketTypes == ASSUME TypeInv, LaterPacket PROVE ClientTypes
  <1>1. /\ Now(Sent("data", client.index)) \/ Now(Reload(It))
        /\ link' = link /\ (events' = events \/ events' = events + 1)
        /\ Onward \/ Retry(LongWait) \/ Fail
    BY DEF LaterPacket
  <1>2. \E n : Programs(n)
    BY <1>1, SentPrograms, ReloadPrograms, ItType
  <1>3. GoesOn
    BY <1>1, OnwardGoesOn, RetryGoesOn, FailGoesOn, LongWaitType
  <1> QED
    BY <1>1, <1>2, <1>3, NoEvents DEF ClientTypes

LEMMA EndTypes == ASSUME TypeInv, End PROVE ClientTypes
  <1>1. Now(Sent("end", 0)) /\ (Goto("done") \/ Fail) /\ link' = link /\ events' = events
    BY DEF End
  <1>2. \E n : Programs(n)
    BY <1>1, SentPrograms, Numbers
  <1>3. GoesOn
    BY <1>1, GotoGoesOn, FailGoesOn, StageNames DEF Goto
  <1> QED
    BY <1>1, <1>2, <1>3, NoEvents DEF ClientTypes

LEMMA HoldAsksTypes == ASSUME TypeInv, HoldAsks PROVE ClientTypes
  <1>1. /\ Now(Sent(Asked, client.index)) /\ link' = link /\ events' = events
        /\ Goto("late") \/ Goto("done") \/ Onward
    BY DEF HoldAsks, Accepted
  <1>2. \E n : Programs(n)
    BY <1>1, SentPrograms, ItType DEF Asked
  <1>3. GoesOn
    BY <1>1, GotoGoesOn, OnwardGoesOn, StageNames DEF Goto
  <1> QED
    BY <1>1, <1>2, <1>3, NoEvents DEF ClientTypes

LEMMA HoldRejectedTypes == ASSUME TypeInv, HoldRejected PROVE ClientTypes
  <1>1. /\ Now(Reload(It)) /\ link' = link /\ events' = events + 1
        /\ client' = [client EXCEPT !.heard = 0, !.fooled = @ \/ Silent]
    BY DEF HoldRejected
  <1>2. \E n : Programs(n)
    BY <1>1, ReloadPrograms
  <1>3. IsClient(client) /\ (client.fooled \/ Silent) \in BOOLEAN
    BY DEF TypeInv
  <1>4. GoesOn
    BY <1>1, <1>3 DEF IsClient, GoesOn
  <1> QED
    BY <1>1, <1>2, <1>4, NoEvents DEF ClientTypes

\* The end of a round of waiting.
Round(t) == client' = [client EXCEPT !.held = @ + t, !.wait = t, !.heard = IF @ < Stale THEN @ + t ELSE @]

LEMMA RoundFields ==
    ASSUME TypeInv, NEW t \in {0, 1}, Round(t)
    PROVE  /\ GoesOn /\ client'.pc = client.pc /\ client'.wait = t /\ client'.index = client.index
           /\ client'.heard = IF client.heard < Stale THEN client.heard + t ELSE client.heard
           /\ client'.target = client.target /\ client'.fooled = client.fooled
  <1> DEFINE held == client.held + t
             heard == IF client.heard < Stale THEN client.heard + t ELSE client.heard
  <1>1. IsClient(client)
    BY DEF TypeInv
  <1>2. held \in Nat /\ heard \in Nat /\ t \in Nat
    BY <1>1, Numbers DEF IsClient, Stale
  <1>3. client' = [client EXCEPT !.held = held, !.wait = t, !.heard = heard]
    BY <1>1 DEF Round, IsClient
  <1> HIDE DEF held, heard
  <1>4. IsClient(client')
    BY <1>1, <1>2, <1>3 DEF IsClient
  <1>5. /\ client'.on = client.on /\ client'.pc = client.pc /\ client'.wait = t /\ client'.index = client.index
        /\ client'.heard = heard /\ client'.target = client.target /\ client'.fooled = client.fooled
    BY <1>1, <1>3 DEF IsClient
  <1> QED
    BY <1>4, <1>5 DEF GoesOn, heard

\* A round of waiting: what the board makes of a packet, then of an identity request.
Packeted(asks) == IF asks THEN Sent(Asked, client.index) ELSE It
Queried(asks) == IF link = "dead" THEN Packeted(asks) ELSE Takes(Packeted(asks), "identity", 0, client.target)

LEMMA WaitsFields ==
    ASSUME TypeInv, HoldWaits
    PROVE  \E asks \in BOOLEAN, t \in {0, 1} :
              /\ ~Silent => asks
              /\ asks => ~Heard(Asked)
              /\ Now(Queried(asks))
              /\ \/ link = "up" /\ Answers(Packeted(asks), "identity") /\ Fresh
                 \/ ~(link = "up" /\ Answers(Packeted(asks), "identity")) /\ Round(t)
              /\ link' = link /\ events' = events
  <1>1. PICK asks \in IF Silent THEN BOOLEAN ELSE {TRUE}, t \in {0, 1} :
          /\ asks => ~Heard(Asked)
          /\ Now(Queried(asks))
          /\ IF link = "up" /\ Answers(Packeted(asks), "identity") THEN Fresh ELSE Round(t)
    BY DEF HoldWaits, Packeted, Queried, Round
  <1>2. asks \in BOOLEAN /\ (~Silent => asks) /\ link' = link /\ events' = events
    BY DEF HoldWaits
  <1> QED
    BY <1>1, <1>2

LEMMA PacketedTypes ==
    ASSUME TypeInv, NEW asks \in BOOLEAN
    PROVE  LET b == Packeted(asks) IN IsBoard(b) /\ b.build = It.build /\ b.slow = It.slow
  <1>1. CASE asks
    BY <1>1, SentFields, ItType DEF Packeted, Asked
  <1>2. CASE ~asks
    BY <1>2, ItType DEF Packeted
  <1> QED
    BY <1>1, <1>2

LEMMA QueriedFields ==
    ASSUME TypeInv, NEW asks \in BOOLEAN
    PROVE  LET before == Packeted(asks)
               after == Queried(asks) IN
           /\ IsBoard(after) /\ after.build = It.build /\ after.slow = It.slow /\ after.flash = before.flash
           /\ after.pointer = before.pointer /\ after.last = before.last
           /\ after.mode = IF before.mode = "startup" /\ link # "dead" THEN "identified" ELSE before.mode
           /\ after.quiet \in {0, before.quiet} /\ (before.mode = "data" /\ link # "dead" => after.quiet = 0)
  <1> DEFINE b == Packeted(asks)
             t == Takes(b, "identity", 0, client.target)
  <1>1. IsBoard(b) /\ b.build = It.build /\ b.slow = It.slow
    BY PacketedTypes
  <1> HIDE DEF b
  <1>2. /\ IsBoard(t) /\ t.build = b.build /\ t.slow = b.slow /\ t.flash = b.flash
        /\ t.pointer = b.pointer /\ t.last = b.last
        /\ t.mode = IF b.mode = "startup" THEN "identified" ELSE b.mode
        /\ t.quiet \in {0, b.quiet} /\ (b.mode = "data" => t.quiet = 0)
    BY <1>1, TakesIdentity, ItType, Numbers
  <1> HIDE DEF t
  <1>3. Queried(asks) = IF link = "dead" THEN b ELSE t
    BY DEF Queried, b, t
  <1>4. CASE link = "dead"
    BY <1>1, <1>3, <1>4 DEF b
  <1>5. CASE link # "dead"
    BY <1>1, <1>2, <1>3, <1>5 DEF b
  <1> QED
    BY <1>4, <1>5

LEMMA HoldWaitsTypes == ASSUME TypeInv, HoldWaits PROVE ClientTypes
  <1>1. PICK asks \in BOOLEAN, t \in {0, 1} :
              Now(Queried(asks)) /\ (Fresh \/ Round(t)) /\ link' = link /\ events' = events
    BY WaitsFields
  <1>2. IsBoard(Queried(asks)) /\ Queried(asks).build = It.build /\ Queried(asks).slow = It.slow
    BY QueriedFields
  <1>3. \E n : Programs(n)
    BY <1>1, <1>2, NowPrograms
  <1>4. GoesOn
    BY <1>1, FreshGoesOn, RoundFields
  <1> QED
    BY <1>1, <1>3, <1>4, NoEvents DEF ClientTypes

LEMMA HoldEndsTypes == ASSUME TypeInv, HoldEnds PROVE ClientTypes
  <1>1. board' = board /\ link' = link /\ events' = events /\ (Goto("unconfirmed") \/ Goto("failed"))
    BY DEF HoldEnds
  <1>2. \E n : Programs(n)
    BY <1>1, StayPrograms
  <1>3. GoesOn
    BY <1>1, GotoGoesOn, StageNames DEF Goto
  <1> QED
    BY <1>1, <1>2, <1>3, NoEvents DEF ClientTypes

LEMMA LateProbeTypes == ASSUME TypeInv, LateProbe PROVE ClientTypes
  <1>1. Now(Sent("identity", 0)) /\ (Fresh \/ Retry(1) \/ Goto("sleep")) /\ link' = link /\ events' = events
    BY DEF LateProbe
  <1>2. \E n : Programs(n)
    BY <1>1, SentPrograms, Numbers
  <1>3. GoesOn
    BY <1>1, GotoGoesOn, RetryGoesOn, FreshGoesOn, StageNames DEF Goto
  <1> QED
    BY <1>1, <1>2, <1>3, NoEvents DEF ClientTypes

LEMMA AwaitResetFields ==
    ASSUME TypeInv, AwaitReset
    PROVE  /\ GoesOn /\ client'.pc = "restart" /\ client'.wait = Session + Exit + 1
           /\ client'.waited = Session + Exit + 1 /\ client'.fooled = client.fooled
  <1>1. IsClient(client) /\ Session + Exit + 1 \in Nat /\ "restart" \in Stages
    BY Numbers, StageNames DEF TypeInv
  <1>2. client' = [client EXCEPT !.pc = "restart", !.wait = Session + Exit + 1, !.waited = Session + Exit + 1]
    BY DEF AwaitReset
  <1>3. IsClient(client')
    BY <1>1, <1>2 DEF IsClient
  <1> QED
    BY <1>1, <1>2, <1>3 DEF IsClient, GoesOn

LEMMA AwaitResetTypes == ASSUME TypeInv, AwaitReset PROVE ClientTypes
  <1>1. board' = board /\ link' = link /\ events' = events
    BY DEF AwaitReset
  <1> QED
    BY <1>1, StayPrograms, AwaitResetFields, NoEvents DEF ClientTypes

LEMMA NextRoundFields ==
    ASSUME TypeInv, NextRound
    PROVE  /\ GoesOn /\ client'.pc = client.pc /\ client'.wait \in {0, 1} /\ client'.fooled = client.fooled
           /\ client'.waited = client.waited + client'.wait
  <1>1. PICK t \in {0, 1} : client' = [client EXCEPT !.waited = @ + t, !.wait = t]
    BY DEF NextRound
  <1>2. IsClient(client)
    BY DEF TypeInv
  <1>3. client.waited + t \in Nat /\ t \in Nat
    BY <1>2 DEF IsClient
  <1>4. IsClient(client')
    BY <1>1, <1>2, <1>3 DEF IsClient
  <1> QED
    BY <1>1, <1>2, <1>4 DEF IsClient, GoesOn

\* The restart of a session: start reaches a board that was reset, or so it seems.
Restarts ==
    client' = [client EXCEPT !.pc = IF client.programs < 4 THEN "first" ELSE "failed",
                             !.target = "stock", !.index = 0, !.tries = 0,
                             !.programs = @ + 1, !.rounds = 0]

LEMMA RestartsFields ==
    ASSUME TypeInv, Restarts
    PROVE  /\ GoesOn /\ client'.pc \in {"first", "failed"} /\ client'.wait = client.wait
           /\ client'.index = 0 /\ client'.target = "stock" /\ client'.fooled = client.fooled
  <1> DEFINE pc == IF client.programs < 4 THEN "first" ELSE "failed"
  <1>1. pc \in {"first", "failed"} /\ pc \in Stages /\ "stock" \in Images /\ 0 \in Index /\ 0 \in Nat
    BY Numbers DEF Stages, Finished, Images
  <1>2. IsClient(client)
    BY DEF TypeInv
  <1>3. client.programs + 1 \in Nat
    BY <1>2 DEF IsClient
  <1>4. client' = [client EXCEPT !.pc = pc, !.target = "stock", !.index = 0, !.tries = 0,
                                 !.programs = client.programs + 1, !.rounds = 0]
    BY <1>2 DEF Restarts, IsClient
  <1> HIDE DEF pc
  <1>5. IsClient(client')
    BY <1>1, <1>2, <1>3, <1>4 DEF IsClient
  <1>6. /\ client'.on = client.on /\ client'.pc = pc /\ client'.wait = client.wait
        /\ client'.index = 0 /\ client'.target = "stock" /\ client'.fooled = client.fooled
    BY <1>2, <1>4 DEF IsClient
  <1> QED
    BY <1>1, <1>5, <1>6 DEF GoesOn

\* The board after the identity request of a restart, and after its start.
Woken == Sent("identity", 0)
Erased == IF link = "dead" THEN Woken ELSE Takes(Woken, "start", 0, "stock")

LEMMA RestartFields ==
    ASSUME TypeInv, Restart
    PROVE  /\ client.pc = "restart" /\ link' = link /\ events' = events
           /\ \/ Certain(Heard("identity")) /\ Now(Erased) /\ Restarts /\ link = "up" /\ Answers(Woken, "start")
              \/ Certain(Heard("identity")) /\ Now(Erased) /\ NextRound /\ ~(link = "up" /\ Answers(Woken, "start"))
              \/ ~Certain(Heard("identity")) /\ Now(Woken) /\ NextRound
  BY DEF Restart, Restarts, Woken, Erased

LEMMA ErasedTypes ==
    ASSUME TypeInv
    PROVE  IsBoard(Erased) /\ Erased.build = It.build /\ Erased.slow = It.slow
  <1> DEFINE t == Takes(Woken, "start", 0, "stock")
  <1>1. IsBoard(Woken) /\ Woken.build = It.build /\ Woken.slow = It.slow
    BY SentFields, Numbers DEF Woken
  <1>2. IsBoard(t) /\ t.build = Woken.build /\ t.slow = Woken.slow
    BY <1>1, TakesStart, Numbers DEF Images
  <1>3. Erased \in {Woken, t}
    BY DEF Erased
  <1> HIDE DEF t
  <1> QED
    BY <1>1, <1>2, <1>3

LEMMA RestartTypes == ASSUME TypeInv, Restart PROVE ClientTypes
  <1>1. /\ Now(Erased) \/ Now(Sent("identity", 0))
        /\ link' = link /\ events' = events /\ (Restarts \/ NextRound)
    BY RestartFields DEF Woken
  <1>2. \E n : Programs(n)
    BY <1>1, SentPrograms, NowPrograms, ErasedTypes, Numbers
  <1>3. GoesOn
    BY <1>1, RestartsFields, NextRoundFields
  <1> QED
    BY <1>1, <1>2, <1>3, NoEvents DEF ClientTypes

LEMMA RestartFailsFields ==
    ASSUME TypeInv, RestartFails
    PROVE  GoesOn /\ client'.pc \in {"sleep", "failed"} /\ client'.wait = client.wait /\ client'.fooled = client.fooled
  <1> DEFINE pc == IF client.rounds < 3 THEN "sleep" ELSE "failed"
  <1>1. IsClient(client) /\ pc \in Stages /\ pc \in {"sleep", "failed"}
    BY StageNames DEF TypeInv
  <1>2. client.rounds + 1 \in Nat
    BY <1>1 DEF IsClient
  <1>3. client' = [client EXCEPT !.pc = pc, !.rounds = client.rounds + 1]
    BY <1>1 DEF RestartFails, IsClient
  <1> HIDE DEF pc
  <1>4. IsClient(client')
    BY <1>1, <1>2, <1>3 DEF IsClient
  <1> QED
    BY <1>1, <1>3, <1>4 DEF IsClient, GoesOn

LEMMA RestartFailsTypes == ASSUME TypeInv, RestartFails PROVE ClientTypes
  <1>1. board' = board /\ link' = link /\ events' = events
    BY DEF RestartFails
  <1> QED
    BY <1>1, StayPrograms, RestartFailsFields, NoEvents DEF ClientTypes

LEMMA PassFields ==
    ASSUME TypeInv, Pass
    PROVE  /\ GoesOn /\ client.wait > 0 /\ client'.wait = client.wait - 1 /\ client'.pc = client.pc
           /\ client'.index = client.index /\ client'.target = client.target /\ client'.heard = client.heard
           /\ client'.fooled = client.fooled /\ client'.waited = client.waited
  <1>1. IsClient(client)
    BY DEF TypeInv
  <1>2. client.wait > 0 /\ client.wait - 1 \in Nat
    BY <1>1 DEF Pass, IsClient
  <1>3. client' = [client EXCEPT !.wait = client.wait - 1]
    BY <1>1 DEF Pass, IsClient
  <1>4. IsClient(client')
    BY <1>1, <1>2, <1>3 DEF IsClient
  <1> QED
    BY <1>1, <1>2, <1>3, <1>4 DEF IsClient, GoesOn

LEMMA PassTypes == ASSUME TypeInv, Pass PROVE ClientTypes
  <1>1. Now(Tick(It)) /\ link' = link /\ events' = events
    BY DEF Pass
  <1>2. IsBoard(Tick(It)) /\ Tick(It).build = It.build /\ Tick(It).slow = It.slow
    BY ItType, TickFields
  <1> QED
    BY <1>1, <1>2, NowPrograms, PassFields, NoEvents DEF ClientTypes

LEMMA ClientStepTypes == ASSUME TypeInv, ClientStep PROVE ClientTypes
  BY PassTypes, ProbeTypes, StartImageTypes, FirstPacketTypes, LaterPacketTypes, EndTypes, HoldAsksTypes,
     HoldRejectedTypes, HoldWaitsTypes, HoldEndsTypes, LateProbeTypes, AwaitResetTypes, RestartTypes,
     RestartFailsTypes
  DEF ClientStep

-----------------------------------------------------------------------------
(* The operations, by what they leave of their record.                      *)

LEMMA OpNames ==
    /\ OpKinds = {"none", "thr", "install", "restore", "rescue"}
    /\ {"idle", "stop", "snapshot", "record", "transfer", "start"} \subseteq OpStages
    /\ {"none", "stopping_services", "programming", "verified"} \subseteq Phases
    /\ {"thr", "box"} = Tools
    /\ \A kind : Tool(kind) \in Tools
    /\ Thr \in Boards
  BY OperationAssumption DEF OpKinds, OpStages, Phases, Tools, Tool

LEMMA IdleFields ==
    /\ IsOp(Idle) /\ Idle.kind = "none" /\ Idle.pc = "idle" /\ Idle.pending = FALSE /\ Idle.plan = {}
  BY OpNames DEF Idle, IsOp

LEMMA NoTransferFields ==
    ASSUME NEW b \in Boards
    PROVE  LET c == NoTransfer(b) IN
           /\ IsClient(c) /\ c.pc = "idle" /\ c.on = b /\ c.wait = 0 /\ c.heard = 0 /\ c.fooled = FALSE
  <1>1. "idle" \in Stages /\ "stock" \in Images /\ 0 \in Index /\ 0 \in Nat /\ 1 \in Nat
    BY StageNames, Numbers DEF Images
  <1> QED
    BY <1>1 DEF NoTransfer, IsClient

LEMMA TransferFields ==
    ASSUME NEW b \in Boards, NEW image \in Images
    PROVE  LET c == Transfer(b, image) IN
           /\ IsClient(c) /\ c.pc = "probe" /\ c.on = b /\ c.wait = 1 /\ c.heard = 0 /\ c.fooled = FALSE
           /\ c.target = image
  <1>1. "probe" \in Stages /\ 1 \in Nat /\ IsClient(NoTransfer(b)) /\ NoTransfer(b).on = b
        /\ NoTransfer(b).heard = 0 /\ NoTransfer(b).fooled = FALSE
    BY StageNames, NoTransferFields
  <1>2. Transfer(b, image) = [NoTransfer(b) EXCEPT !.pc = "probe", !.wait = 1, !.requested = image, !.target = image]
    BY DEF Transfer
  <1>3. IsClient(Transfer(b, image))
    BY <1>1, <1>2 DEF IsClient
  <1> QED
    BY <1>1, <1>2, <1>3 DEF IsClient

LEMMA StartsFields ==
    ASSUME TypeInv, NEW kind \in OpKinds, NEW plan \in SUBSET Boards, NEW services \in SUBSET Services,
           Starts(kind, plan, services)
    PROVE  /\ IsOp(op') /\ op'.kind = kind /\ op'.pc = "stop" /\ op'.plan = plan /\ op'.services = services
           /\ op'.todo = services /\ op'.pending = FALSE
           /\ pending' = [pending EXCEPT ![Tool(kind)] =
                             [phase |-> "stopping_services", board |-> Thr, services |-> services]]
           /\ UNCHANGED <<board, link, client, active, backups, stockSaved, hist>>
  <1>1. op' = [Idle EXCEPT !.kind = kind, !.pc = "stop", !.plan = plan, !.services = services, !.todo = services]
    BY DEF Starts
  <1>2. IsOp(op')
    BY <1>1, IdleFields, OpNames DEF IsOp
  <1>3. /\ op'.kind = kind /\ op'.pc = "stop" /\ op'.plan = plan /\ op'.services = services
        /\ op'.todo = services /\ op'.pending = FALSE
    BY <1>1, IdleFields DEF IsOp
  <1> QED
    BY <1>2, <1>3 DEF Starts

LEMMA GivesFields ==
    ASSUME NEW o, IsOp(o), Gives(o)
    PROVE  /\ IsOp(op')
           /\ IF o.pending THEN op' = Idle
              ELSE /\ op'.pc = "start" /\ op'.todo = o.services /\ op'.services = o.services /\ op'.kind = o.kind
                   /\ op'.plan = o.plan /\ op'.board = o.board /\ op'.pending = FALSE /\ op'.failed = o.failed
  <1>1. CASE o.pending
    BY <1>1, IdleFields DEF Gives
  <1>2. CASE ~o.pending
    <2>1. op' = [o EXCEPT !.pc = "start", !.todo = o.services] /\ o.pending = FALSE
      BY <1>2 DEF Gives, IsOp
    <2>2. IsOp(op')
      BY <2>1, OpNames DEF IsOp
    <2> QED
      BY <1>2, <2>1, <2>2 DEF IsOp
  <1> QED
    BY <1>1, <1>2

LEMMA FailedFields ==
    ASSUME TypeInv
    PROVE  LET o == [op EXCEPT !.failed = TRUE] IN
           /\ IsOp(o) /\ o.pending = op.pending /\ o.services = op.services /\ o.kind = op.kind /\ o.plan = op.plan
           /\ o.board = op.board /\ o.failed
  <1>1. IsOp(op)
    BY DEF TypeInv
  <1> QED
    BY <1>1 DEF IsOp

\* A step of an operation that only moves it to another stage.
LEMMA StageFields ==
    ASSUME TypeInv, NEW pc \in OpStages, op' = [op EXCEPT !.pc = pc]
    PROVE  /\ IsOp(op') /\ op'.pc = pc /\ op'.services = op.services /\ op'.kind = op.kind /\ op'.plan = op.plan
           /\ op'.board = op.board /\ op'.pending = op.pending /\ op'.todo = op.todo
  <1>1. IsOp(op)
    BY DEF TypeInv
  <1>2. IsOp(op')
    BY <1>1 DEF IsOp
  <1> QED
    BY <1>1, <1>2 DEF IsOp

LEMMA TodoFields ==
    ASSUME TypeInv, NEW s, op' = [op EXCEPT !.todo = @ \ {s}]
    PROVE  /\ IsOp(op') /\ op'.pc = op.pc /\ op'.services = op.services /\ op'.kind = op.kind /\ op'.plan = op.plan
           /\ op'.board = op.board /\ op'.pending = op.pending /\ op'.todo = op.todo \ {s}
           /\ op'.failed = op.failed
  <1>1. IsOp(op)
    BY DEF TypeInv
  <1>2. IsOp(op')
    BY <1>1 DEF IsOp
  <1> QED
    BY <1>1, <1>2 DEF IsOp

LEMMA NextBoardFields ==
    ASSUME TypeInv, NextBoard
    PROVE  \/ op.plan = {} /\ Gives(op)
           \/ \E b \in op.plan :
                 /\ IsOp(op') /\ op'.pc = IF op.kind = "rescue" THEN "record" ELSE "snapshot"
                 /\ op'.board = b /\ op'.plan = op.plan \ {b} /\ op'.services = op.services /\ op'.kind = op.kind
                 /\ op'.pending = op.pending
  <1>1. CASE op.plan = {}
    BY <1>1 DEF NextBoard
  <1>2. CASE op.plan # {}
    <2> DEFINE pc == IF op.kind = "rescue" THEN "record" ELSE "snapshot"
    <2>1. PICK b \in op.plan : op' = [op EXCEPT !.pc = pc, !.board = b, !.plan = @ \ {b}]
      BY <1>2 DEF NextBoard
    <2>2. IsOp(op) /\ pc \in OpStages
      BY OpNames DEF TypeInv
    <2> HIDE DEF pc
    <2>3. b \in Boards
      BY <2>2 DEF IsOp
    <2>4. IsOp(op')
      BY <2>1, <2>2, <2>3 DEF IsOp
    <2>5. /\ op'.pc = pc /\ op'.board = b /\ op'.plan = op.plan \ {b} /\ op'.services = op.services
          /\ op'.kind = op.kind /\ op'.pending = op.pending
      BY <2>1, <2>2 DEF IsOp
    <2> QED
      BY <2>4, <2>5 DEF pc
  <1> QED
    BY <1>1, <1>2

LEMMA ProgramFields ==
    ASSUME TypeInv, Program
    PROVE  /\ IsOp(op') /\ op'.pc = "transfer" /\ op'.services = op.services /\ op'.kind = op.kind /\ op'.plan = op.plan
           /\ op'.board = op.board /\ op'.pending = TRUE
           /\ IsRecord([phase |-> "programming", board |-> op.board, services |-> op.services])
           /\ \E entered \in Entered(board[op.board]) : board' = [board EXCEPT ![op.board] = entered]
           /\ client' = Transfer(op.board, Image(op.kind)) /\ Image(op.kind) \in Images /\ op.board \in Boards
  <1>1. IsOp(op) /\ op' = [op EXCEPT !.pc = "transfer", !.pending = TRUE]
    BY DEF TypeInv, Program, Programming
  <1>2. IsOp(op')
    BY <1>1, OpNames DEF IsOp
  <1>3. /\ op'.pc = "transfer" /\ op'.services = op.services /\ op'.kind = op.kind /\ op'.plan = op.plan
        /\ op'.board = op.board /\ op'.pending = TRUE
    BY <1>1 DEF IsOp
  <1>4. op.board \in Boards /\ op.services \in SUBSET Services
    BY <1>1 DEF IsOp
  <1>5. IsRecord([phase |-> "programming", board |-> op.board, services |-> op.services])
    BY <1>4, OpNames DEF IsRecord
  <1>6. Image(op.kind) \in Images
    BY DEF Image, Images
  <1>7. /\ \E entered \in Entered(board[op.board]) : board' = [board EXCEPT ![op.board] = entered]
        /\ client' = Transfer(op.board, Image(op.kind))
    BY DEF Program
  <1> QED
    BY <1>2, <1>3, <1>4, <1>5, <1>6, <1>7

LEMMA EnteredFields ==
    ASSUME TypeInv, NEW b \in Boards, NEW entered \in Entered(board[b])
    PROVE  /\ IsBoard(entered) /\ entered.build = board[b].build /\ entered.slow = board[b].slow
           /\ entered.flash = board[b].flash
           /\ \/ entered = Reset(board[b])
              \/ entered = board[b] /\ op.kind = "rescue" /\ board[b].mode # "app"
  <1>1. IsBoard(board[b])
    BY DEF TypeInv, BoardsTyped
  <1>2. entered = Reset(board[b]) \/ (entered = board[b] /\ op.kind = "rescue" /\ board[b].mode # "app")
    BY DEF Entered
  <1>3. LET r == Reset(board[b]) IN
        IsBoard(r) /\ r.build = board[b].build /\ r.slow = board[b].slow /\ r.flash = board[b].flash
    BY <1>1, ResetFields
  <1> QED
    BY <1>1, <1>2, <1>3

LEMMA ReadbackFields ==
    ASSUME TypeInv, Readback
    PROVE  /\ IsOp(op') /\ op'.pc = "stop" /\ op'.services = op.services /\ op'.kind = op.kind /\ op'.plan = op.plan
           /\ op'.board = op.board /\ op'.pending = FALSE
           /\ IsRecord([phase |-> "verified", board |-> op.board, services |-> op.services])
           /\ client' = NoTransfer(op.board) /\ op.board \in Boards
  <1>1. IsOp(op) /\ op' = [op EXCEPT !.pc = "stop", !.pending = FALSE]
    BY DEF TypeInv, Readback
  <1>2. IsOp(op')
    BY <1>1, OpNames DEF IsOp
  <1>3. /\ op'.pc = "stop" /\ op'.services = op.services /\ op'.kind = op.kind /\ op'.plan = op.plan
        /\ op'.board = op.board /\ op'.pending = FALSE
    BY <1>1 DEF IsOp
  <1>4. op.board \in Boards /\ op.services \in SUBSET Services
    BY <1>1 DEF IsOp
  <1>5. IsRecord([phase |-> "verified", board |-> op.board, services |-> op.services])
    BY <1>4, OpNames DEF IsRecord
  <1> QED
    BY <1>2, <1>3, <1>4, <1>5 DEF Readback

-----------------------------------------------------------------------------
(* Type correctness.                                                        *)

LEMMA OneBoardTyped ==
    ASSUME TypeInv, NEW x \in Boards, NEW n, IsBoard(n), board' = [board EXCEPT ![x] = n]
    PROVE  BoardsTyped' /\ board'[x] = n /\ \A b \in Boards \ {x} : board'[b] = board[b]
  BY DEF TypeInv, BoardsTyped

LEMMA ProgramsTyped ==
    ASSUME TypeInv, NEW n, Programs(n), client'.on = client.on
    PROVE  BoardsTyped' /\ It' = n /\ \A b \in Boards \ {client.on} : board'[b] = board[b]
  <1>1. IsBoard(n) /\ board' = [board EXCEPT ![client.on] = n] /\ client.on \in Boards
    BY ItType DEF Programs
  <1>2. BoardsTyped' /\ board'[client.on] = n /\ \A b \in Boards \ {client.on} : board'[b] = board[b]
    BY <1>1, OneBoardTyped
  <1> QED
    BY <1>2 DEF It

LEMMA OneRecordTyped ==
    ASSUME TypeInv, NEW tool \in Tools, NEW r, IsRecord(r), pending' = [pending EXCEPT ![tool] = r]
    PROVE  RecordsTyped' /\ pending'[tool] = r /\ \A t \in Tools \ {tool} : pending'[t] = pending[t]
  BY DEF TypeInv, RecordsTyped

LEMMA NoneTyped == IsRecord(None)
  BY OpNames DEF IsRecord, None

LEMMA TypeInit == Init => TypeInv
  <1> SUFFICES ASSUME Init PROVE TypeInv
    OBVIOUS
  <1>1. PICK fleet \in Fleets, slow \in BOOLEAN, image \in [Boards -> Images] :
          board = [b \in Boards |->
                      [build |-> fleet[b], slow |-> slow /\ fleet[b] = "second", mode |-> "app",
                       flash |-> [p \in Index |-> image[b]], pointer |-> 0, last |-> Pages, quiet |-> 0]]
    BY DEF Init
  <1>2. ASSUME NEW b \in Boards PROVE IsBoard(board[b])
    <2>1. fleet[b] \in Builds /\ (slow /\ fleet[b] = "second") \in BOOLEAN /\ image[b] \in Contents
      BY <1>2, OperationAssumption DEF Contents
    <2>2. [p \in Index |-> image[b]] \in [Index -> Contents] /\ 0 \in 0 .. Pages /\ Pages \in 0 .. Pages
      BY <2>1, Numbers
    <2> QED
      BY <1>1, <2>1, <2>2, ModeNames DEF IsBoard
  <1>3. BoardsTyped
    BY <1>1, <1>2 DEF BoardsTyped
  <1>4. IsClient(client)
    BY NoTransferFields, OpNames DEF Init
  <1>5. RecordsTyped
    BY NoneTyped, OpNames DEF Init, RecordsTyped
  <1>6. IsOp(op)
    BY IdleFields DEF Init
  <1>7. link \in {"up", "dead", "mute"} /\ events \in Nat /\ active \subseteq Services /\ backups \subseteq Boxes
        /\ stockSaved \in BOOLEAN /\ hist.enabled = Services
    BY DEF Init
  <1> QED
    BY <1>3, <1>4, <1>5, <1>6, <1>7 DEF TypeInv

\* The steps that leave the boards and the transfer alone.
Undisturbed == UNCHANGED <<board, link, client>>

LEMMA UndisturbedTyped ==
    ASSUME TypeInv, Undisturbed, events' = events \/ events' = events + 1,
           active' \subseteq Services, RecordsTyped', backups' \subseteq Boxes, stockSaved' \in BOOLEAN, IsOp(op'),
           hist' = hist
    PROVE  TypeInv'
  BY NoEvents DEF Undisturbed, BoardsTyped, TypeInv

LEMMA StartsTyped ==
    ASSUME TypeInv, Event, NEW kind \in OpKinds, NEW plan \in SUBSET Boards, NEW services \in SUBSET Services,
           Starts(kind, plan, services)
    PROVE  TypeInv'
  <1>1. IsOp(op') /\ UNCHANGED <<board, link, client, active, backups, stockSaved, hist>>
        /\ pending' = [pending EXCEPT ![Tool(kind)] =
                          [phase |-> "stopping_services", board |-> Thr, services |-> services]]
    BY StartsFields
  <1>2. IsRecord([phase |-> "stopping_services", board |-> Thr, services |-> services])
    BY OpNames DEF IsRecord
  <1>3. RecordsTyped'
    BY <1>1, <1>2, OneRecordTyped, OpNames
  <1> QED
    BY <1>1, <1>3, UndisturbedTyped DEF Event, Undisturbed, TypeInv

LEMMA BeginTyped ==
    ASSUME TypeInv, FlashThr \/ FlashBoxes("install") \/ FlashBoxes("restore") \/ Rescue
    PROVE  TypeInv'
  <1>1. active \in SUBSET Services /\ {Thr} \in SUBSET Boards /\ Boxes \subseteq Boards
    BY OpNames DEF TypeInv, Boxes
  <1>2. CASE FlashThr
    BY <1>1, <1>2, StartsTyped, OpNames DEF FlashThr
  <1>3. ASSUME NEW kind \in {"install", "restore"}, FlashBoxes(kind) PROVE TypeInv'
    <2>1. PICK selected \in SUBSET Boxes :
            Starts(kind, {b \in selected : ~Holds(board[b], Image(kind))}, active)
      BY <1>3 DEF FlashBoxes
    <2>2. {b \in selected : ~Holds(board[b], Image(kind))} \in SUBSET Boards
      BY <1>1
    <2> QED
      BY <1>1, <1>3, <2>1, <2>2, StartsTyped, OpNames DEF FlashBoxes
  <1>4. CASE Rescue
    <2>1. PICK b \in Boxes : Starts("rescue", {b}, RescueServices)
      BY <1>4 DEF Rescue
    <2>2. RescueServices \in SUBSET Services
      BY <1>1, OpNames DEF TypeInv, RecordsTyped, IsRecord, RescueServices
    <2> QED
      BY <1>1, <1>4, <2>1, <2>2, StartsTyped, OpNames DEF Rescue
  <1> QED
    BY <1>2, <1>3, <1>4

LEMMA RestingTyped ==
    ASSUME TypeInv, Undisturbed, UNCHANGED <<active, pending, backups, stockSaved, hist>>,
           events' = events \/ events' = events + 1, IsOp(op')
    PROVE  TypeInv'
  BY UndisturbedTyped DEF RecordsTyped, TypeInv

LEMMA StepTyped == ASSUME TypeInv, Step PROVE TypeInv'
  <1>1. IsOp(op) /\ active \subseteq Services /\ op.todo \subseteq Services
    BY DEF TypeInv, IsOp
  <1>2. CASE StopService
    <2>1. PICK s \in op.todo : active' = active \ {s} /\ op' = [op EXCEPT !.todo = @ \ {s}]
      BY <1>2 DEF StopService
    <2> QED
      BY <1>1, <1>2, <2>1, TodoFields, UndisturbedTyped
      DEF StopService, Undisturbed, transferVars, RecordsTyped, TypeInv
  <1>3. CASE StartService
    <2>1. PICK s \in op.todo : active' = active \cup {s} /\ op' = [op EXCEPT !.todo = @ \ {s}]
      BY <1>3 DEF StartService
    <2> QED
      BY <1>1, <1>3, <2>1, TodoFields, UndisturbedTyped
      DEF StartService, Undisturbed, transferVars, RecordsTyped, TypeInv
  <1>4. CASE Complete
    <2>1. RecordsTyped'
      BY <1>4, OneRecordTyped, NoneTyped, OpNames DEF Complete
    <2> QED
      BY <1>1, <1>4, <2>1, IdleFields, UndisturbedTyped DEF Complete, Undisturbed, transferVars, TypeInv
  <1>5. CASE Incomplete
    BY <1>5, IdleFields, RestingTyped DEF Incomplete, Event, Undisturbed
  <1>6. CASE NextBoard
    <2>1. IsOp(op')
      BY <1>1, <1>6, NextBoardFields, GivesFields
    <2> QED
      BY <1>6, <2>1, RestingTyped DEF NextBoard, Undisturbed, transferVars
  <1>7. CASE Snapshot
    <2>1. op' = [op EXCEPT !.pc = "stop"] \/ op' = [op EXCEPT !.pc = "record"]
      BY <1>7 DEF Snapshot, Skip
    <2>2. IsOp(op')
      BY <2>1, StageFields, OpNames
    <2>3. backups' \subseteq Boxes /\ stockSaved' \in BOOLEAN
      BY <1>7 DEF Snapshot, TypeInv
    <2> QED
      BY <1>1, <1>7, <2>2, <2>3, UndisturbedTyped DEF Snapshot, Undisturbed, transferVars, RecordsTyped, TypeInv
  <1>8. CASE SnapshotFails \/ StopFails
    BY <1>8, FailedFields, GivesFields, RestingTyped DEF SnapshotFails, StopFails, Fails, Event, Undisturbed
  <1>9. CASE Program
    <2>1. /\ IsOp(op') /\ IsClient(client') /\ op.board \in Boards
          /\ IsRecord([phase |-> "programming", board |-> op.board, services |-> op.services])
      <3>1. client' = Transfer(op.board, Image(op.kind)) /\ Image(op.kind) \in Images /\ op.board \in Boards
        BY <1>9, ProgramFields
      <3>2. IsClient(client')
        BY <3>1, TransferFields
      <3> QED
        BY <1>9, <3>1, <3>2, ProgramFields
    <2>2. BoardsTyped'
      BY <1>9, <2>1, ProgramFields, EnteredFields, OneBoardTyped
    <2>3. RecordsTyped'
      BY <1>9, <2>1, OneRecordTyped, OpNames DEF Program
    <2> QED
      BY <1>9, <2>1, <2>2, <2>3 DEF Program, TypeInv
  <1>10. CASE Transferring
    <2>1. ClientTypes
      BY <1>10, ClientStepTypes DEF Transferring
    <2>2. BoardsTyped'
      BY <2>1, ProgramsTyped DEF ClientTypes, GoesOn
    <2> QED
      BY <1>10, <2>1, <2>2 DEF Transferring, ClientTypes, GoesOn, RecordsTyped, TypeInv
  <1>11. CASE Readback
    <2>1. /\ IsOp(op') /\ IsClient(client')
          /\ IsRecord([phase |-> "verified", board |-> op.board, services |-> op.services])
      BY <1>11, ReadbackFields, NoTransferFields
    <2>2. RecordsTyped'
      BY <1>11, <2>1, OneRecordTyped, OpNames DEF Readback
    <2> QED
      BY <1>11, <2>1, <2>2 DEF Readback, BoardsTyped, TypeInv
  <1>12. CASE Unverified
    <2>1. op.board \in Boards
      BY <1>1 DEF IsOp
    <2>2. IsOp(op') /\ IsClient(client')
      BY <1>12, <2>1, FailedFields, GivesFields, NoTransferFields DEF Unverified
    <2>3. events' \in Nat
      BY <1>12, NoEvents DEF Unverified, Event
    <2> QED
      BY <1>12, <2>2, <2>3 DEF Unverified, BoardsTyped, RecordsTyped, TypeInv
  <1> QED
    BY <1>2, <1>3, <1>4, <1>5, <1>6, <1>7, <1>8, <1>9, <1>10, <1>11, <1>12 DEF Step

LEMMA InterruptFields ==
    ASSUME TypeInv, Interrupt \/ Kill
    PROVE  /\ IsOp(op') /\ op # Idle
           /\ op' = Idle \/ (op.kind = "thr" /\ op.pc # "start" /\ Gives([op EXCEPT !.failed = TRUE]))
           /\ IsClient(client') /\ client'.pc = "idle" /\ client'.on = client.on
           /\ UNCHANGED <<board, link, active, pending, backups, stockSaved, hist>>
           /\ events' = events + 1
  BY FailedFields, GivesFields, IdleFields, ItType, NoTransferFields DEF Interrupt, Kill, Event

LEMMA OtherTyped ==
    ASSUME TypeInv, TransferLink \/ Interrupt \/ Kill \/ PowerCycle \/ BoardTick
    PROVE  TypeInv'
  <1>1. CASE TransferLink
    <2>1. UNCHANGED <<board, client, active, pending, backups, stockSaved, op, hist>>
          /\ link' \in {"up", "dead", "mute"} /\ (events' = events \/ events' = events + 1)
      BY <1>1 DEF TransferLink, LinkFails, LinkReturns
    <2> QED
      BY <2>1, NoEvents DEF BoardsTyped, RecordsTyped, TypeInv
  <1>2. CASE Interrupt \/ Kill
    BY <1>2, InterruptFields, NoEvents DEF BoardsTyped, RecordsTyped, TypeInv
  <1>3. CASE PowerCycle
    <2>1. /\ board' = [b \in Boards |-> Reset(board[b])] /\ op' = Idle /\ client' = NoTransfer(client.on)
          /\ active' = hist.enabled /\ events' = events + 1 /\ hist'.enabled = hist.enabled
          /\ UNCHANGED <<link, pending, backups, stockSaved>>
      BY <1>3 DEF PowerCycle
    <2>2. BoardsTyped'
      BY <2>1, ResetFields DEF BoardsTyped, TypeInv
    <2>3. IsOp(op') /\ IsClient(client') /\ events' \in Nat
      BY <2>1, IdleFields, NoTransferFields, ItType, NoEvents
    <2> QED
      BY <2>1, <2>2, <2>3 DEF RecordsTyped, TypeInv
  <1>4. CASE BoardTick
    <2>1. PICK b \in Boards : board' = [board EXCEPT ![b] = Tick(board[b])]
      BY <1>4 DEF BoardTick
    <2>2. BoardsTyped'
      BY <2>1, TickFields, OneBoardTyped DEF TypeInv, BoardsTyped
    <2> QED
      BY <1>4, <2>2 DEF BoardTick, RecordsTyped, TypeInv
  <1> QED
    BY <1>1, <1>2, <1>3, <1>4

LEMMA TypeNext == TypeInv /\ [Next]_vars => TypeInv'
  <1> SUFFICES ASSUME TypeInv, [Next]_vars PROVE TypeInv'
    OBVIOUS
  <1>1. CASE UNCHANGED vars
    BY <1>1 DEF vars, BoardsTyped, RecordsTyped, TypeInv
  <1>2. CASE Next
    BY <1>2, BeginTyped, StepTyped, OtherTyped DEF Next
  <1> QED
    BY <1>1, <1>2

\* Every state of the firmware tools and of the boards they program is of the
\* right type.
THEOREM FirmwareTypes == Spec => []TypeInv
  BY TypeInit, TypeNext, PTL DEF Spec

-----------------------------------------------------------------------------
(* Records and services.  An operation owns the one pending record; what it *)
(* recorded are the services of the undisturbed printer, whoever started it.*)

OperationInv ==
    /\ op.kind = "none" \/ op.pc = "idle" => op = Idle
    /\ IF op.pc = "transfer" THEN client.on = op.board /\ op.pending ELSE client.pc = "idle" /\ ~op.pending
    /\ \A b \in op.plan : Tool(op.kind) = ToolOf(b)
    /\ op.pc \in {"snapshot", "record", "transfer"} => Tool(op.kind) = ToolOf(op.board)

\* A board in data mode loses its first page when the session expires.
Sound(b) == b.mode # "data" /\ Whole(b)

RecordInv ==
    /\ ~Blocked("thr") \/ ~Blocked("box")
    /\ op # Idle => op.services = Services /\ Blocked(Tool(op.kind))
    /\ \A tool \in Tools : Blocked(tool) => pending[tool].services = Services
    /\ op.pc = "start" => active \cup op.todo = Services
    /\ op = Idle /\ (\A tool \in Tools : ~Blocked(tool)) => active = Services
    /\ \A b \in Boards : Sound(board[b]) \/ Blocked(ToolOf(b))

\* A rescue may start with a board that does not run; no other operation does.
RunsInv ==
    op # Idle /\ op.kind # "rescue" =>
        \A b \in Boards : (op.pc = "transfer" /\ b = op.board) \/ Runs(board[b])

ServiceInv == TypeInv /\ OperationInv /\ RecordInv /\ RunsInv

LEMMA ServiceInit == Init => ServiceInv
  <1> SUFFICES ASSUME Init PROVE ServiceInv
    OBVIOUS
  <1>1. TypeInv
    BY TypeInit
  <1>2. op = Idle /\ client.pc = "idle" /\ \A tool \in Tools : ~Blocked(tool)
    BY OpNames, NoTransferFields DEF Init, Blocked
  <1>3. ASSUME NEW b \in Boards PROVE Sound(board[b])
    <2>1. PICK fleet \in Fleets, slow \in BOOLEAN, image \in [Boards -> Images] :
            board = [x \in Boards |->
                      [build |-> fleet[x], slow |-> slow /\ fleet[x] = "second", mode |-> "app",
                       flash |-> [p \in Index |-> image[x]], pointer |-> 0, last |-> Pages, quiet |-> 0]]
      BY DEF Init
    <2>2. image[b] \in Images /\ Holds(board[b], image[b])
      BY <2>1 DEF Holds
    <2> QED
      BY <2>1, <2>2 DEF Sound, Whole
  <1>4. active = Services
    BY DEF Init
  <1> QED
    BY <1>1, <1>2, <1>3, <1>4, IdleFields, OpNames DEF ServiceInv, OperationInv, RecordInv, RunsInv

LEMMA RecordBlocks ==
    ASSUME TypeInv, NEW tool \in Tools, NEW r, IsRecord(r), r.phase # "none", pending' = [pending EXCEPT ![tool] = r]
    PROVE  /\ Blocked(tool)' /\ pending'[tool] = r
           /\ \A t \in Tools \ {tool} : pending'[t] = pending[t] /\ Blocked(t)' = Blocked(t)
  <1>1. pending'[tool] = r /\ \A t \in Tools \ {tool} : pending'[t] = pending[t]
    BY OneRecordTyped
  <1>2. None.phase = "none"
    BY DEF None
  <1> QED
    BY <1>1, <1>2 DEF Blocked

LEMMA ToolNames == /\ Tools = {"thr", "box"} /\ Tool("thr") = "thr" /\ ToolOf(Thr) = "thr"
                   /\ \A kind \in {"install", "restore", "rescue"} : Tool(kind) = "box"
                   /\ \A b \in Boxes : ToolOf(b) = "box"
                   /\ \A b \in Boards : ToolOf(b) \in Tools
  BY DEF Tools, Tool, ToolOf, Boxes

\* An operation that begins: every board of its plan belongs to its tool.
LEMMA BeginServices ==
    ASSUME ServiceInv, op = Idle, NEW kind \in {"thr", "install", "restore", "rescue"}, NEW plan \in SUBSET Boards,
           Starts(kind, plan, Services),
           \A b \in plan : Tool(kind) = ToolOf(b),
           ~Blocked("thr"), kind # "rescue" => ~Blocked("box") /\ \A b \in Boards : Runs(board[b])
    PROVE  OperationInv' /\ RecordInv' /\ RunsInv'
  <1>1. /\ op'.kind = kind /\ op'.pc = "stop" /\ op'.plan = plan /\ op'.services = Services /\ op'.pending = FALSE
        /\ pending' = [pending EXCEPT ![Tool(kind)] =
                          [phase |-> "stopping_services", board |-> Thr, services |-> Services]]
        /\ UNCHANGED <<board, link, client, active, backups, stockSaved, hist>>
    BY StartsFields, OpNames DEF ServiceInv
  <1>2. /\ Blocked(Tool(kind))' /\ pending'[Tool(kind)].services = Services
        /\ \A t \in Tools \ {Tool(kind)} : pending'[t] = pending[t] /\ Blocked(t)' = Blocked(t)
    <2> DEFINE r == [phase |-> "stopping_services", board |-> Thr, services |-> Services]
    <2>1. IsRecord(r) /\ r.phase # "none" /\ r.services = Services
      BY OpNames DEF IsRecord
    <2>2. pending' = [pending EXCEPT ![Tool(kind)] = r] /\ Tool(kind) \in Tools /\ TypeInv
      BY <1>1, OpNames DEF ServiceInv
    <2> HIDE DEF r
    <2> QED
      BY <2>1, <2>2, RecordBlocks
  <1>3. op' # Idle
    BY <1>1, IdleFields
  <1>4. OperationInv'
    BY <1>1, IdleFields DEF OperationInv, ServiceInv
  <1>5. RunsInv'
    BY <1>1 DEF RunsInv
  <1>6. RecordInv'
    BY <1>1, <1>2, <1>3, ToolNames DEF RecordInv, ServiceInv
  <1> QED
    BY <1>4, <1>5, <1>6

LEMMA FlashThrServices == ASSUME ServiceInv, FlashThr PROVE OperationInv' /\ RecordInv' /\ RunsInv'
  <1>1. active = Services
    BY ToolNames DEF FlashThr, ServiceInv, RecordInv
  <1> QED
    BY <1>1, BeginServices, ToolNames, OpNames DEF FlashThr, PrinterReady

LEMMA FlashBoxesServices ==
    ASSUME ServiceInv, NEW kind \in {"install", "restore"}, FlashBoxes(kind)
    PROVE  OperationInv' /\ RecordInv' /\ RunsInv'
  <1>1. active = Services
    BY ToolNames DEF FlashBoxes, ServiceInv, RecordInv
  <1>2. PICK selected \in SUBSET Boxes : Starts(kind, {b \in selected : ~Holds(board[b], Image(kind))}, active)
    BY DEF FlashBoxes
  <1> DEFINE plan == {b \in selected : ~Holds(board[b], Image(kind))}
  <1>3. plan \in SUBSET Boards /\ \A b \in plan : Tool(kind) = ToolOf(b)
    BY ToolNames DEF Boxes
  <1> HIDE DEF plan
  <1>4. Starts(kind, plan, Services)
    BY <1>1, <1>2 DEF plan
  <1> QED
    BY <1>3, <1>4, BeginServices DEF FlashBoxes, PrinterReady

\* A rescue takes over the services another operation recorded.
LEMMA RescueServicesAll == ASSUME ServiceInv, op = Idle, ~Blocked("thr") PROVE RescueServices = Services
  BY ToolNames DEF ServiceInv, RecordInv, RescueServices, Services

LEMMA RescueStarts == ASSUME ServiceInv, Rescue PROVE OperationInv' /\ RecordInv' /\ RunsInv'
  <1>1. PICK b \in Boxes : CanRescue(b) /\ Starts("rescue", {b}, RescueServices)
    BY DEF Rescue
  <1>2. {b} \in SUBSET Boards /\ Tool("rescue") = ToolOf(b)
    BY ToolNames DEF Boxes
  <1>3. Starts("rescue", {b}, Services)
    BY <1>1, RescueServicesAll DEF Rescue, CanRescue
  <1> QED
    BY <1>1, <1>2, <1>3, BeginServices DEF Rescue, CanRescue

\* A step of an operation that leaves every board and every record as it is.
LEMMA StageServices ==
    ASSUME ServiceInv, op # Idle, op.pc # "transfer", UNCHANGED <<board, client, pending>>,
           op'.kind = op.kind, op'.services = op.services, op'.pending = op.pending, op'.plan \subseteq op.plan,
           op'.pc \in {"stop", "snapshot", "record", "start"},
           op'.pc \in {"snapshot", "record"} => Tool(op.kind) = ToolOf(op'.board),
           op'.pc = "start" => active' \cup op'.todo = Services
    PROVE  OperationInv' /\ RecordInv' /\ RunsInv'
  <1>1. op' # Idle /\ Blocked(Tool(op.kind)) /\ op.services = Services
    BY IdleFields DEF ServiceInv, RecordInv
  <1>2. OperationInv'
    BY <1>1 DEF ServiceInv, OperationInv
  <1>3. RecordInv'
    BY <1>1 DEF ServiceInv, RecordInv, Blocked
  <1>4. RunsInv'
    BY DEF ServiceInv, RunsInv
  <1> QED
    BY <1>2, <1>3, <1>4

\* An operation that ends and leaves its record: nothing has to be restored.
LEMMA LeavesServices ==
    ASSUME ServiceInv, op # Idle, op' = Idle, client'.pc = "idle", UNCHANGED <<board, pending>>
    PROVE  OperationInv' /\ RecordInv' /\ RunsInv'
  <1>1. Blocked(Tool(op.kind))
    BY DEF ServiceInv, RecordInv
  <1>2. OperationInv' /\ RunsInv'
    BY IdleFields DEF OperationInv, RunsInv
  <1>3. RecordInv'
    BY <1>1, IdleFields, OpNames DEF ServiceInv, RecordInv, Blocked
  <1> QED
    BY <1>2, <1>3

\* An operation that gives up goes on to its services, or leaves its record.
LEMMA GivesServices ==
    ASSUME ServiceInv, op # Idle, op.pc # "idle", Gives(op) \/ Gives([op EXCEPT !.failed = TRUE]), client'.pc = "idle",
           UNCHANGED <<board, pending, active>>, op.pc # "transfer" => client' = client
    PROVE  OperationInv' /\ RecordInv' /\ RunsInv'
  <1>1. CASE op.pending
    <2>1. op' = Idle
      BY <1>1, FailedFields, GivesFields DEF ServiceInv, TypeInv
    <2> QED
      BY <2>1, LeavesServices
  <1>2. CASE ~op.pending
    <2>1. /\ op'.pc = "start" /\ op'.todo = op.services /\ op'.services = op.services /\ op'.kind = op.kind
          /\ op'.plan = op.plan /\ op'.pending = FALSE
      BY <1>2, FailedFields, GivesFields DEF ServiceInv, TypeInv
    <2>2. op.pc # "transfer" /\ op.services = Services /\ op.pending = FALSE
      BY <1>2 DEF ServiceInv, OperationInv, RecordInv, TypeInv, IsOp
    <2>3. active' \cup op'.todo = Services
      BY <2>1, <2>2 DEF ServiceInv, TypeInv
    <2> QED
      BY <2>1, <2>2, <2>3, StageServices
  <1> QED
    BY <1>1, <1>2

LEMMA OpIsBusy == ASSUME ServiceInv, op.pc # "idle" PROVE op # Idle /\ op.kind # "none"
  BY IdleFields DEF ServiceInv, OperationInv

\* The records block what they blocked, for the same services.
SameRecords == \A t \in Tools : (Blocked(t)' <=> Blocked(t)) /\ (Blocked(t)' => pending'[t].services = Services)

LEMMA UnchangedRecords == ASSUME ServiceInv, pending' = pending PROVE SameRecords
  BY DEF ServiceInv, RecordInv, SameRecords, Blocked

LEMMA AnotherRecord ==
    ASSUME ServiceInv, NEW tool \in Tools, Blocked(tool), NEW r, IsRecord(r), r.phase # "none", r.services = Services,
           pending' = [pending EXCEPT ![tool] = r]
    PROVE  SameRecords
  <1>1. /\ Blocked(tool)' /\ pending'[tool] = r
        /\ \A t \in Tools \ {tool} : pending'[t] = pending[t] /\ Blocked(t)' = Blocked(t)
    BY RecordBlocks DEF ServiceInv
  <1>2. \A t \in Tools : Blocked(t) => pending[t].services = Services
    BY DEF ServiceInv, RecordInv
  <1> QED
    BY <1>1, <1>2 DEF SameRecords, Blocked

\* A board that is recorded may change; the others stay as they are.
LEMMA BoardServices ==
    ASSUME ServiceInv, SameRecords, NEW b \in Boards, Blocked(ToolOf(b)),
           \A x \in Boards \ {b} : board'[x] = board[x],
           op # Idle, op' # Idle, op'.services = op.services, op'.kind = op.kind, op'.pc # "start"
    PROVE  RecordInv'
  BY ToolNames, OpNames DEF ServiceInv, RecordInv, SameRecords

LEMMA StepServices == ASSUME ServiceInv, Step PROVE OperationInv' /\ RecordInv' /\ RunsInv'
  <1>1. IsOp(op) /\ active \subseteq Services /\ op.board \in Boards /\ TypeInv
    BY DEF ServiceInv, TypeInv, IsOp
  <1>2. CASE StopService
    <2>1. PICK s \in op.todo : active' = active \ {s} /\ op' = [op EXCEPT !.todo = @ \ {s}]
      BY <1>2 DEF StopService
    <2> QED
      BY <1>1, <1>2, <2>1, OpIsBusy, TodoFields, StageServices DEF StopService, transferVars
  <1>3. CASE StartService
    <2>1. PICK s \in op.todo : active' = active \cup {s} /\ op' = [op EXCEPT !.todo = @ \ {s}]
      BY <1>3 DEF StartService
    <2>2. /\ op'.pc = op.pc /\ op'.services = op.services /\ op'.kind = op.kind /\ op'.plan = op.plan
          /\ op'.pending = op.pending /\ op'.todo = op.todo \ {s}
      BY <1>1, <2>1, TodoFields
    <2>3. active' \cup op'.todo = Services
      BY <1>3, <2>1, <2>2 DEF StartService, ServiceInv, RecordInv
    <2> QED
      BY <1>3, <2>2, <2>3, OpIsBusy, StageServices DEF StartService, transferVars
  <1>4. CASE Complete
    <2>1. /\ op # Idle /\ op' = Idle /\ active' = active /\ UNCHANGED <<board, client>>
          /\ pending' = [pending EXCEPT ![Tool(op.kind)] = None]
      BY <1>4, OpIsBusy DEF Complete, transferVars
    <2>2. active = Services /\ op.services = Services
      BY <1>4, <2>1 DEF Complete, ServiceInv, RecordInv
    <2>3. PrinterReady
      BY <1>4, <2>2 DEF Complete, Services
    <2>4. \A b \in Boards : Sound(board'[b])
      BY <2>1, <2>3 DEF PrinterReady, Runs, Sound
    <2>5. \A t \in Tools : ~Blocked(t)'
      BY <2>1, <1>1, ToolNames, OpNames DEF Blocked, ServiceInv, RecordInv, TypeInv, RecordsTyped
    <2>6. OperationInv' /\ RunsInv'
      BY <1>4, <2>1, IdleFields DEF OperationInv, RunsInv, ServiceInv, Complete
    <2>7. RecordInv'
      BY <2>1, <2>2, <2>4, <2>5, IdleFields, ToolNames DEF RecordInv
    <2> QED
      BY <2>6, <2>7
  <1>5. CASE Incomplete
    BY <1>5, OpIsBusy, LeavesServices DEF Incomplete, ServiceInv, OperationInv
  <1>6. CASE NextBoard
    <2>1. op # Idle /\ client.pc = "idle" /\ UNCHANGED <<board, client, pending, active>>
      BY <1>6, OpIsBusy DEF NextBoard, transferVars, ServiceInv, OperationInv
    <2>2. CASE Gives(op)
      BY <1>6, <2>1, <2>2, GivesServices DEF NextBoard
    <2>3. ASSUME NEW b \in op.plan, IsOp(op'), op'.pc = IF op.kind = "rescue" THEN "record" ELSE "snapshot",
                 op'.board = b, op'.plan = op.plan \ {b}, op'.services = op.services, op'.kind = op.kind,
                 op'.pending = op.pending
          PROVE  OperationInv' /\ RecordInv' /\ RunsInv'
      <3>1. Tool(op.kind) = ToolOf(op'.board)
        BY <2>3 DEF ServiceInv, OperationInv
      <3> QED
        BY <1>6, <2>1, <2>3, <3>1, StageServices DEF NextBoard
    <2> QED
      BY <1>1, <1>6, <2>2, <2>3, NextBoardFields
  <1>7. CASE Snapshot
    <2>1. op' = [op EXCEPT !.pc = "stop"] \/ op' = [op EXCEPT !.pc = "record"]
      BY <1>7 DEF Snapshot, Skip
    <2>2. /\ op'.pc \in {"stop", "record"} /\ op'.services = op.services /\ op'.kind = op.kind /\ op'.plan = op.plan
          /\ op'.board = op.board /\ op'.pending = op.pending
      BY <1>1, <2>1, StageFields, OpNames
    <2>3. Tool(op.kind) = ToolOf(op'.board)
      BY <1>7, <2>2 DEF Snapshot, ServiceInv, OperationInv
    <2> QED
      BY <1>7, <2>2, <2>3, OpIsBusy, StageServices DEF Snapshot, transferVars
  <1>8. CASE SnapshotFails \/ StopFails
    <2>1. op.pc \in {"stop", "snapshot", "record"} /\ op # Idle /\ client.pc = "idle"
      BY <1>8, OpIsBusy DEF SnapshotFails, StopFails, ServiceInv, OperationInv
    <2> QED
      BY <1>8, <2>1, GivesServices DEF SnapshotFails, StopFails, Fails
  <1>9. CASE Program
    <2>1. op # Idle /\ op.services = Services /\ Blocked(Tool(op.kind)) /\ Tool(op.kind) = ToolOf(op.board)
      BY <1>9, OpIsBusy DEF Program, ServiceInv, OperationInv, RecordInv
    <2>2. /\ op'.pc = "transfer" /\ op'.services = op.services /\ op'.kind = op.kind /\ op'.plan = op.plan
          /\ op'.board = op.board /\ op'.pending = TRUE
      BY <1>1, <1>9, ProgramFields
    <2>3. client'.on = op.board
      <3>1. client' = Transfer(op.board, Image(op.kind)) /\ Image(op.kind) \in Images
        BY <1>1, <1>9, ProgramFields
      <3> QED
        BY <1>1, <3>1, TransferFields
    <2>4. \A x \in Boards \ {op.board} : board'[x] = board[x]
      BY <1>1, <1>9, ProgramFields DEF TypeInv, BoardsTyped
    <2>5. SameRecords
      <3> DEFINE r == [phase |-> "programming", board |-> op.board, services |-> op.services]
      <3>1. IsRecord(r) /\ r.phase # "none" /\ r.services = Services
        BY <1>1, <1>9, <2>1, ProgramFields
      <3>2. pending' = [pending EXCEPT ![Tool(op.kind)] = r]
        BY <1>9 DEF Program
      <3> HIDE DEF r
      <3> QED
        BY <2>1, <3>1, <3>2, AnotherRecord, OpNames
    <2>6. op' # Idle
      BY <2>2, IdleFields
    <2>7. RecordInv'
      BY <1>1, <2>1, <2>2, <2>4, <2>5, <2>6, BoardServices
    <2>8. OperationInv'
      BY <2>1, <2>2, <2>3, OpIsBusy, <1>9 DEF ServiceInv, OperationInv, Program
    <2>9. RunsInv'
      BY <1>9, <2>1, <2>2, <2>4 DEF ServiceInv, RunsInv, Program
    <2> QED
      BY <2>7, <2>8, <2>9
  <1>10. CASE Transferring
    <2>1. op.pc = "transfer" /\ op # Idle /\ UNCHANGED <<op, pending, active>> /\ ClientTypes
      BY <1>1, <1>10, OpIsBusy, ClientStepTypes DEF Transferring
    <2>2. client.on = op.board /\ client'.on = client.on /\ Blocked(ToolOf(op.board))
      BY <2>1 DEF ClientTypes, GoesOn, ServiceInv, OperationInv, RecordInv
    <2>3. \A x \in Boards \ {op.board} : board'[x] = board[x]
      BY <1>1, <2>1, <2>2, ProgramsTyped DEF ClientTypes
    <2>4. RecordInv'
      BY <1>1, <2>1, <2>2, <2>3, UnchangedRecords, BoardServices
    <2>5. OperationInv'
      BY <2>1, <2>2 DEF ServiceInv, OperationInv
    <2>6. RunsInv'
      BY <2>1, <2>3 DEF ServiceInv, RunsInv
    <2> QED
      BY <2>4, <2>5, <2>6
  <1>11. CASE Readback
    <2>1. /\ op # Idle /\ op.services = Services /\ Blocked(Tool(op.kind)) /\ Tool(op.kind) = ToolOf(op.board)
          /\ board' = board /\ active' = active /\ Runs(board[op.board])
      BY <1>11, OpIsBusy DEF Readback, Matches, ServiceInv, OperationInv, RecordInv
    <2>2. /\ op'.pc = "stop" /\ op'.services = op.services /\ op'.kind = op.kind /\ op'.plan = op.plan
          /\ op'.board = op.board /\ op'.pending = FALSE /\ client' = NoTransfer(op.board)
      BY <1>1, <1>11, ReadbackFields
    <2>3. client'.pc = "idle"
      BY <1>1, <2>2, NoTransferFields
    <2>4. SameRecords
      <3> DEFINE r == [phase |-> "verified", board |-> op.board, services |-> op.services]
      <3>1. IsRecord(r) /\ r.phase # "none" /\ r.services = Services
        BY <1>1, <1>11, <2>1, ReadbackFields
      <3>2. pending' = [pending EXCEPT ![Tool(op.kind)] = r]
        BY <1>11 DEF Readback
      <3> HIDE DEF r
      <3> QED
        BY <2>1, <3>1, <3>2, AnotherRecord, OpNames
    <2>5. op' # Idle
      BY <2>2, IdleFields
    <2>6. RecordInv'
      BY <1>1, <2>1, <2>2, <2>4, <2>5, BoardServices
    <2>7. OperationInv'
      BY <2>1, <2>2, <2>3, OpIsBusy, <1>11 DEF ServiceInv, OperationInv, Readback
    <2>8. RunsInv'
      BY <1>11, <2>1, <2>2 DEF ServiceInv, RunsInv, Readback
    <2> QED
      BY <2>6, <2>7, <2>8
  <1>12. CASE Unverified
    <2>1. op # Idle /\ client'.pc = "idle"
      BY <1>1, <1>12, OpIsBusy, NoTransferFields DEF Unverified
    <2> QED
      BY <1>12, <2>1, GivesServices DEF Unverified
  <1> QED
    BY <1>2, <1>3, <1>4, <1>5, <1>6, <1>7, <1>8, <1>9, <1>10, <1>11, <1>12 DEF Step

LEMMA OtherServices ==
    ASSUME ServiceInv, TransferLink \/ Interrupt \/ Kill \/ PowerCycle \/ BoardTick
    PROVE  OperationInv' /\ RecordInv' /\ RunsInv'
  <1>1. TypeInv
    BY DEF ServiceInv
  <1>2. CASE TransferLink
    BY <1>2 DEF TransferLink, LinkFails, LinkReturns, ServiceInv, OperationInv, RecordInv, RunsInv, Blocked
  <1>3. CASE Interrupt \/ Kill
    <2>1. /\ op # Idle /\ client'.pc = "idle" /\ UNCHANGED <<board, active, pending>>
          /\ op' = Idle \/ (op.kind = "thr" /\ op.pc # "start" /\ Gives([op EXCEPT !.failed = TRUE]))
      BY <1>1, <1>3, InterruptFields
    <2>2. CASE op' = Idle
      BY <2>1, <2>2, LeavesServices
    <2>3. CASE op.kind = "thr" /\ op.pc # "start" /\ Gives([op EXCEPT !.failed = TRUE])
      <3>1. op.pc # "idle"
        BY <2>1 DEF ServiceInv, OperationInv
      <3>2. CASE op.pending
        <4>1. op' = Idle
          BY <1>1, <2>3, <3>2, FailedFields, GivesFields
        <4> QED
          BY <2>1, <4>1, LeavesServices
      <3>3. CASE ~op.pending
        <4>1. /\ op'.pc = "start" /\ op'.todo = op.services /\ op'.services = op.services /\ op'.kind = op.kind
              /\ op'.plan = op.plan /\ op'.pending = FALSE
          BY <1>1, <2>3, <3>3, FailedFields, GivesFields
        <4>2. op.pc # "transfer" /\ op.services = Services
          BY <2>1, <3>3 DEF ServiceInv, OperationInv, RecordInv
        <4>3. op' # Idle
          BY <4>1, IdleFields
        <4>4. OperationInv'
          BY <2>1, <4>1, <4>3, <2>3 DEF ServiceInv, OperationInv
        <4>5. RecordInv'
          BY <1>1, <2>1, <4>1, <4>2, <4>3 DEF ServiceInv, RecordInv, Blocked, TypeInv
        <4>6. RunsInv'
          BY <2>1, <4>1, <4>2 DEF ServiceInv, RunsInv
        <4> QED
          BY <4>4, <4>5, <4>6
      <3> QED
        BY <3>2, <3>3
    <2> QED
      BY <2>1, <2>2, <2>3
  <1>4. CASE PowerCycle
    <2>1. /\ board' = [b \in Boards |-> Reset(board[b])] /\ op' = Idle /\ client' = NoTransfer(client.on)
          /\ active' = Services /\ pending' = pending
      BY <1>1, <1>4 DEF PowerCycle, TypeInv
    <2>2. client'.pc = "idle"
      BY <1>1, <2>1, NoTransferFields, ItType
    <2>3. ASSUME NEW b \in Boards PROVE Sound(board[b]) => Sound(board'[b])
      <3>1. board'[b] = Reset(board[b]) /\ IsBoard(board[b])
        BY <1>1, <2>1 DEF TypeInv, BoardsTyped
      <3>2. board'[b].mode = "startup" /\ board'[b].flash = board[b].flash
        BY <3>1, ResetFields
      <3> QED
        BY <3>2 DEF Sound, Whole, Holds
    <2>4. OperationInv' /\ RunsInv'
      BY <2>1, <2>2, IdleFields DEF OperationInv, RunsInv
    <2>5. RecordInv'
      BY <2>1, <2>3, IdleFields DEF ServiceInv, RecordInv, Blocked
    <2> QED
      BY <2>4, <2>5
  <1>5. CASE BoardTick
    <2>1. PICK b \in Boards : ~Settled(board[b]) /\ board' = [board EXCEPT ![b] = Tick(board[b])]
      BY <1>5 DEF BoardTick
    <2>2. /\ UNCHANGED <<op, client, pending, active>> /\ IsBoard(board[b])
          /\ board'[b] = Tick(board[b]) /\ \A x \in Boards \ {b} : board'[x] = board[x]
      BY <1>1, <1>5, <2>1 DEF BoardTick, TypeInv, BoardsTyped
    <2>3. Sound(board[b]) => Sound(board'[b])
      <3>1. board[b].mode # "data" => board'[b].flash = board[b].flash /\ board'[b].mode # "data"
        BY <2>2, TickFields
      <3> QED
        BY <3>1 DEF Sound, Whole, Holds
    <2>4. ~Runs(board[b])
      BY <2>1, <2>2, TickFields DEF Settled, Runs
    <2>5. OperationInv'
      BY <2>2 DEF ServiceInv, OperationInv
    <2>6. RecordInv'
      BY <2>2, <2>3 DEF ServiceInv, RecordInv, Blocked
    <2>7. RunsInv'
      BY <2>2, <2>4 DEF ServiceInv, RunsInv
    <2> QED
      BY <2>5, <2>6, <2>7
  <1> QED
    BY <1>2, <1>3, <1>4, <1>5

LEMMA ServiceNext == ServiceInv /\ [Next]_vars => ServiceInv'
  <1> SUFFICES ASSUME ServiceInv, [Next]_vars PROVE OperationInv' /\ RecordInv' /\ RunsInv'
    BY TypeNext DEF ServiceInv
  <1>1. CASE UNCHANGED vars
    BY <1>1 DEF vars, ServiceInv, OperationInv, RecordInv, RunsInv, Blocked
  <1>2. CASE Next
    BY <1>2, FlashThrServices, FlashBoxesServices, RescueStarts, StepServices, OtherServices DEF Next
  <1> QED
    BY <1>1, <1>2

\* An operation owns the one pending record, which names every service it has
\* stopped, and covers every board that does not hold a whole image.
THEOREM ServicesAndRecords == Spec => []ServiceInv
  BY ServiceInit, ServiceNext, PTL DEF Spec

\* A board without a whole image is recorded, for any number of boards.
THEOREM UnverifiedAreRecorded == Spec => []UnverifiedIsRecorded
  <1>1. ServiceInv => UnverifiedIsRecorded
    BY DEF ServiceInv, RecordInv, Sound, UnverifiedIsRecorded, ToolOf, Blocked
  <1> QED
    BY <1>1, ServicesAndRecords, PTL

\* With nothing running and nothing recorded, the services of the undisturbed
\* printer run.
THEOREM ServicesAreRestored == Spec => []ServicesComeBack
  <1>1. ServiceInv => ServicesComeBack
    BY DEF ServiceInv, RecordInv, TypeInv, RecordsTyped, ServicesComeBack
  <1> QED
    BY <1>1, ServicesAndRecords, PTL

\* A rescue that has verified its Box goes on with a Box that runs; it takes no
\* snapshot, and one that failed has seen nothing.
RescuedInv ==
    op.kind = "rescue" =>
        /\ op.pc # "snapshot"
        /\ (op.pc = "stop" /\ op.plan = {}) \/ (op.pc = "start" /\ ~op.failed) => Runs(board[op.board])

LEMMA RescuedInit == Init => RescuedInv
  BY IdleFields DEF Init, RescuedInv

\* A step that ends the operation, or that marks it as failed.
LEMMA GivesRescued ==
    ASSUME TypeInv, RescuedInv, board' = board,
           \/ Gives([op EXCEPT !.failed = TRUE])
           \/ Gives(op) /\ op.pc = "stop" /\ op.plan = {}
    PROVE  RescuedInv'
  <1>1. CASE op.pending
    BY <1>1, FailedFields, GivesFields, IdleFields DEF TypeInv, RescuedInv
  <1>2. CASE ~op.pending
    <2>1. /\ op'.pc = "start" /\ op'.kind = op.kind /\ op'.board = op.board
          /\ op'.failed \/ (op.pc = "stop" /\ op.plan = {})
      BY <1>2, FailedFields, GivesFields DEF TypeInv
    <2> QED
      BY <2>1 DEF RescuedInv
  <1> QED
    BY <1>1, <1>2

LEMMA StepRescued == ASSUME ServiceInv, RescuedInv, Step PROVE RescuedInv'
  <1>1. TypeInv /\ IsOp(op)
    BY DEF ServiceInv, TypeInv
  <1>2. CASE StopService \/ StartService
    <2>1. PICK s \in op.todo : op' = [op EXCEPT !.todo = @ \ {s}]
      BY <1>2 DEF StopService, StartService
    <2> QED
      BY <1>1, <1>2, <2>1, TodoFields DEF StopService, StartService, transferVars, RescuedInv
  <1>3. CASE Complete \/ Incomplete
    BY <1>3, IdleFields DEF Complete, Incomplete, RescuedInv
  <1>4. CASE NextBoard
    <2>1. op.pc = "stop" /\ board' = board
      BY <1>4 DEF NextBoard, transferVars
    <2>2. CASE op.plan = {} /\ Gives(op)
      BY <1>1, <2>1, <2>2, GivesRescued
    <2>3. CASE op'.kind = op.kind /\ op'.pc = IF op.kind = "rescue" THEN "record" ELSE "snapshot"
      BY <2>3 DEF RescuedInv
    <2> QED
      BY <1>1, <1>4, <2>2, <2>3, NextBoardFields
  <1>5. CASE Snapshot
    <2>1. op.kind # "rescue" /\ (op' = [op EXCEPT !.pc = "stop"] \/ op' = [op EXCEPT !.pc = "record"])
      BY <1>5 DEF Snapshot, Skip, RescuedInv
    <2>2. op'.kind = op.kind
      BY <1>1, <2>1 DEF IsOp
    <2> QED
      BY <2>1, <2>2 DEF RescuedInv
  <1>6. CASE SnapshotFails \/ StopFails
    BY <1>1, <1>6, GivesRescued DEF SnapshotFails, StopFails, Fails
  <1>7. CASE Program
    BY <1>1, <1>7, ProgramFields DEF RescuedInv
  <1>8. CASE Transferring
    BY <1>8 DEF Transferring, RescuedInv
  <1>9. CASE Readback
    <2>1. op'.pc = "stop" /\ op'.board = op.board /\ board' = board /\ Runs(board[op.board])
      BY <1>1, <1>9, ReadbackFields DEF Readback, Matches
    <2> QED
      BY <2>1 DEF RescuedInv
  <1>10. CASE Unverified
    BY <1>1, <1>10, GivesRescued DEF Unverified
  <1> QED
    BY <1>2, <1>3, <1>4, <1>5, <1>6, <1>7, <1>8, <1>9, <1>10 DEF Step

LEMMA RescuedNext == ServiceInv /\ RescuedInv /\ [Next]_vars => RescuedInv'
  <1> SUFFICES ASSUME ServiceInv, RescuedInv, [Next]_vars PROVE RescuedInv'
    OBVIOUS
  <1>1. TypeInv
    BY DEF ServiceInv
  <1>2. CASE UNCHANGED vars
    BY <1>2 DEF vars, RescuedInv
  <1>3. CASE FlashThr \/ FlashBoxes("install") \/ FlashBoxes("restore")
    <2>1. PICK plan, services : \E kind \in {"thr", "install", "restore"} : Starts(kind, plan, services)
      BY <1>3 DEF FlashThr, FlashBoxes
    <2>2. op'.kind \in {"thr", "install", "restore"}
      BY <2>1, IdleFields DEF Starts, IsOp
    <2> QED
      BY <2>2 DEF RescuedInv
  <1>4. CASE Rescue
    <2>1. PICK b \in Boxes : Starts("rescue", {b}, RescueServices)
      BY <1>4 DEF Rescue
    <2>2. op'.pc = "stop" /\ op'.plan = {b}
      BY <2>1, IdleFields DEF Starts, IsOp
    <2> QED
      BY <2>2 DEF RescuedInv
  <1>5. CASE Step
    BY <1>5, StepRescued
  <1>6. CASE TransferLink
    BY <1>6 DEF TransferLink, LinkFails, LinkReturns, RescuedInv
  <1>7. CASE Interrupt \/ Kill
    <2>1. CASE op' = Idle
      BY <2>1, IdleFields DEF RescuedInv
    <2>2. CASE Gives([op EXCEPT !.failed = TRUE])
      BY <1>1, <1>7, <2>2, InterruptFields, GivesRescued
    <2> QED
      BY <1>1, <1>7, <2>1, <2>2, InterruptFields
  <1>8. CASE PowerCycle
    BY <1>8, IdleFields DEF PowerCycle, RescuedInv
  <1>9. CASE BoardTick
    <2>1. PICK b \in Boards : ~Settled(board[b]) /\ board' = [board EXCEPT ![b] = Tick(board[b])]
      BY <1>9 DEF BoardTick
    <2>2. IsBoard(board[b]) /\ board'[b] = Tick(board[b]) /\ \A x \in Boards \ {b} : board'[x] = board[x]
      BY <1>1, <2>1 DEF TypeInv, BoardsTyped
    <2>3. ~Runs(board[b])
      BY <2>1, <2>2, TickFields DEF Settled, Runs
    <2>4. op.board \in Boards /\ op' = op
      BY <1>1, <1>9 DEF BoardTick, TypeInv, IsOp
    <2> QED
      BY <2>2, <2>3, <2>4 DEF RescuedInv
  <1> QED
    BY <1>2, <1>3, <1>4, <1>5, <1>6, <1>7, <1>8, <1>9 DEF Next

\* Services start when every board an operation has seen runs a whole image:
\* every board, or the Box of a rescue that succeeded.
THEOREM StartsAreSafe == Spec => StartsOnWholeBoards
  <1>1. ServiceInv /\ RescuedInv /\ [Next]_vars =>
          [op.pc = "start" /\ op'.pc = "start" /\ active' # active
             => \A b \in SeenRunning : Runs(board[b])]_vars
    BY OpIsBusy DEF ServiceInv, RunsInv, RescuedInv, SeenRunning
  <1>2. Spec => []RescuedInv
    BY RescuedInit, RescuedNext, ServicesAndRecords, PTL DEF Spec
  <1> QED
    BY <1>1, <1>2, ServicesAndRecords, PTL DEF Spec, StartsOnWholeBoards

-----------------------------------------------------------------------------
(* Sessions.  The client and the write pointer of the session it talks to   *)
(* agree; a session it lost track of has expired before start is sent again.*)

Intact(b) == \A p \in Index : b.flash[p] # "misplaced"

BoardInv(b) ==
    /\ b.mode \in {"startup", "tail", "identified"} => b.pointer = 0
    /\ b.mode = "data" => b.quiet <= SessionTicks(b)
    /\ b.mode = "exit" => b.quiet <= Exit
    /\ Intact(b)

\* Packet i is the next one, or the last one written.
Synchronous(b, i) == \/ b.pointer = i /\ b.last = i - 1
                     \/ b.pointer = i + 1 /\ b.last = i

\* Ticks from the last packet of a session to its reset.
Expiring(b) == IF b.mode = "data" THEN SessionTicks(b) + Exit + 1 ELSE Exit + 1

SessionOf(b, c) ==
    /\ c.pc \in {"probe", "start", "first"} => c.index = 0
    /\ c.pc \in {"start", "first"} /\ b.mode \in Open => b.pointer = 0
    /\ c.pc = "data" => c.index # 0 /\ (b.mode \in Open => Synchronous(b, c.index))
    /\ c.pc = "end" => c.index = Pages - 1 /\ (b.mode \in Open => b.pointer = Pages)
    /\ c.pc = "restart" =>
         /\ Session + Exit + 1 <= c.waited
         /\ b.mode \in Open /\ b.pointer # 0 => Expiring(b) + c.waited <= ResetBy + 1 + c.wait + b.quiet

SessionInv == (\A b \in Boards : BoardInv(board[b])) /\ SessionOf(It, client)

LEMMA ItInv == ASSUME TypeInv, SessionInv PROVE BoardInv(It) /\ SessionOf(It, client) /\ IsBoard(It) /\ IsClient(client)
  BY ItType DEF SessionInv, It, TypeInv

LEMMA BoardNumbers ==
    ASSUME NEW b, IsBoard(b)
    PROVE  /\ b.pointer \in 0 .. Pages /\ b.last \in 0 .. Pages /\ b.quiet \in Nat /\ b.mode \in Modes
           /\ b.build \in Builds
           /\ SessionTicks(b) \in Nat /\ SessionTicks(b) >= Session /\ SessionTicks(b) <= Session + Slack
  BY SessionType, Numbers DEF IsBoard

LEMMA ClientNumbers ==
    ASSUME NEW c, IsClient(c)
    PROVE  /\ c.index \in Nat /\ c.index < Pages /\ c.wait \in Nat /\ c.waited \in Nat /\ c.heard \in Nat
           /\ c.target \in Images /\ c.target # "misplaced"
  BY Numbers DEF IsClient, Index, Images

LEMMA SameTicks == ASSUME NEW b, NEW t, t.slow = b.slow PROVE SessionTicks(t) = SessionTicks(b)
  BY DEF SessionTicks

LEMMA ResetInv == ASSUME NEW b, IsBoard(b), BoardInv(b) PROVE BoardInv(Reset(b))
  BY ResetFields DEF BoardInv, Intact

LEMMA TickInv == ASSUME NEW b, IsBoard(b), BoardInv(b) PROVE BoardInv(Tick(b))
  <1> DEFINE t == Tick(b)
  <1>1. /\ IsBoard(t) /\ t.slow = b.slow
        /\ b.mode = "app" => t = b
        /\ t.mode = "data" => b.mode = "data"
        /\ b.mode = "data" =>
             IF b.quiet < SessionTicks(b) THEN t.mode = "data" /\ t.quiet = b.quiet + 1 ELSE t.mode = "exit" /\ t.quiet = 1
        /\ b.mode = "exit" =>
             IF b.quiet < Exit THEN t.mode = "exit" /\ t.quiet = b.quiet + 1 ELSE t.mode = "startup" /\ t.pointer = 0
        /\ b.mode \in {"startup", "tail", "identified"} =>
             t.mode \in {"app", "startup", "tail", "identified"} /\ t.pointer \in {b.pointer, 0}
        /\ \A p \in Index : t.flash[p] \in {b.flash[p], "erased"}
    BY TickFields
  <1>2. /\ b.quiet \in Nat /\ b.mode \in Modes /\ SessionTicks(b) \in Nat /\ SessionTicks(t) = SessionTicks(b)
        /\ Exit \in Nat /\ Exit > 0
    BY <1>1, BoardNumbers, SameTicks, Numbers
  <1> HIDE DEF t
  <1>3. Intact(t)
    BY <1>1 DEF BoardInv, Intact
  <1> QED
    BY <1>1, <1>2, <1>3 DEF BoardInv, Modes, t

LEMMA SentIdentity ==
    ASSUME TypeInv
    PROVE  LET n == Sent("identity", 0) IN
           /\ IsBoard(n) /\ n.build = It.build /\ n.slow = It.slow /\ n.flash = It.flash
           /\ n.pointer = It.pointer /\ n.last = It.last
           /\ n.mode = IF It.mode = "startup" /\ link # "dead" THEN "identified" ELSE It.mode
           /\ n.quiet \in {0, It.quiet} /\ (It.mode = "data" /\ link # "dead" => n.quiet = 0)
           /\ It.mode = "exit" => n.quiet = It.quiet
  <1> DEFINE t == Takes(It, "identity", 0, client.target)
  <1>1. CASE link = "dead"
    BY <1>1, ItType DEF Sent
  <1>2. CASE link # "dead"
    <2>1. Sent("identity", 0) = t
      BY <1>2 DEF Sent
    <2>2. IsBoard(It) /\ client.target \in Images /\ 0 \in Index
      BY ItType, Numbers
    <2> QED
      BY <1>2, <2>1, <2>2, TakesIdentity
  <1> QED
    BY <1>1, <1>2

LEMMA SentStart ==
    ASSUME TypeInv
    PROVE  LET n == Sent("start", 0) IN
           /\ IsBoard(n) /\ n.build = It.build /\ n.slow = It.slow
           /\ n.pointer = It.pointer /\ n.last = It.last
           /\ n.mode = IF It.mode = "identified" /\ link # "dead" THEN "data" ELSE It.mode
           /\ \A p \in Index : n.flash[p] \in {It.flash[p], "erased"}
           /\ n.quiet \in {0, It.quiet} /\ (n.mode = "data" /\ link # "dead" => n.quiet = 0)
  <1> DEFINE t == Takes(It, "start", 0, client.target)
  <1>1. CASE link = "dead"
    BY <1>1, ItType DEF Sent
  <1>2. CASE link # "dead"
    <2>1. Sent("start", 0) = t
      BY <1>2 DEF Sent
    <2>2. IsBoard(It) /\ client.target \in Images /\ 0 \in Index
      BY ItType, Numbers
    <2> QED
      BY <1>2, <2>1, <2>2, TakesStart
  <1> QED
    BY <1>1, <1>2

LEMMA SentData ==
    ASSUME TypeInv, NEW i \in Index
    PROVE  LET n == Sent("data", i) IN
           /\ IsBoard(n) /\ n.build = It.build /\ n.slow = It.slow /\ n.mode = It.mode
           /\ link = "dead" => n = It
           /\ link # "dead" =>
                /\ n.last = IF It.mode \in Open THEN i ELSE It.last
                /\ n.pointer = IF It.mode \in Open /\ ~Repeated(It, i) THEN It.pointer + 1 ELSE It.pointer
                /\ \A p \in Index : n.flash[p] = IF It.mode \in Open /\ ~Repeated(It, i) /\ p = It.pointer
                                                 THEN (IF p = i THEN client.target ELSE "misplaced") ELSE It.flash[p]
           /\ n.quiet \in {0, It.quiet} /\ (It.mode = "data" /\ link # "dead" => n.quiet = 0)
  <1> DEFINE t == Takes(It, "data", i, client.target)
  <1>1. CASE link = "dead"
    BY <1>1, ItType DEF Sent
  <1>2. CASE link # "dead"
    <2>1. Sent("data", i) = t
      BY <1>2 DEF Sent
    <2>2. IsBoard(It) /\ client.target \in Images /\ i \in Index
      BY ItType, Numbers
    <2> QED
      BY <1>2, <2>1, <2>2, TakesData
  <1> QED
    BY <1>1, <1>2

LEMMA SentEnd ==
    ASSUME TypeInv, NEW i \in Index
    PROVE  LET n == Sent("end", i) IN
           /\ IsBoard(n) /\ n.build = It.build /\ n.slow = It.slow /\ n.flash = It.flash
           /\ n.pointer = It.pointer /\ n.last = It.last
           /\ n.mode = IF It.mode \in Open /\ link # "dead" THEN "app" ELSE It.mode
           /\ n.quiet \in {0, It.quiet}
  <1> DEFINE t == Takes(It, "end", i, client.target)
  <1>1. CASE link = "dead"
    BY <1>1, ItType DEF Sent
  <1>2. CASE link # "dead"
    <2>1. Sent("end", i) = t
      BY <1>2 DEF Sent
    <2>2. IsBoard(It) /\ client.target \in Images /\ i \in Index
      BY ItType, Numbers
    <2> QED
      BY <1>2, <2>1, <2>2, TakesEnd
  <1> QED
    BY <1>1, <1>2

\* A packet of its session is written at its place, once.
LEMMA SynchronousData ==
    ASSUME TypeInv, NEW i \in Index, It.mode \in Open => (IF i = 0 THEN It.pointer = 0 ELSE Synchronous(It, i)), Intact(It)
    PROVE  LET n == Sent("data", i) IN
           /\ Intact(n)
           /\ It.mode \in Open /\ link # "dead" => n.pointer = i + 1 /\ n.last = i
           /\ \A p \in Index : IF It.mode \in Open /\ link # "dead" /\ p = i /\ It.pointer = i
                                THEN n.flash[p] = client.target ELSE n.flash[p] = It.flash[p]
  <1> DEFINE n == Sent("data", i)
  <1>1. /\ link = "dead" => n = It
        /\ link # "dead" =>
                /\ n.last = IF It.mode \in Open THEN i ELSE It.last
                /\ n.pointer = IF It.mode \in Open /\ ~Repeated(It, i) THEN It.pointer + 1 ELSE It.pointer
                /\ \A p \in Index : n.flash[p] = IF It.mode \in Open /\ ~Repeated(It, i) /\ p = It.pointer
                                                 THEN (IF p = i THEN client.target ELSE "misplaced") ELSE It.flash[p]
    BY SentData
  <1>2. i \in Nat /\ i < Pages /\ Pages \in Nat /\ It.pointer \in Nat /\ It.last \in Nat /\ client.target # "misplaced"
    BY BoardNumbers, ItType, Numbers DEF Index, Images
  <1>3. It.mode \in Open => /\ ~Repeated(It, i) => It.pointer = i
                            /\ Repeated(It, i) => It.pointer = i + 1 /\ It.last = i
    BY <1>2 DEF Repeated, Synchronous
  <1> HIDE DEF n
  <1>4. CASE link = "dead"
    BY <1>1, <1>4 DEF n
  <1>5. CASE link # "dead" /\ It.mode \in Open /\ ~Repeated(It, i)
    BY <1>1, <1>2, <1>3, <1>5 DEF Intact, n
  <1>6. CASE link # "dead" /\ It.mode \in Open /\ Repeated(It, i)
    BY <1>1, <1>2, <1>3, <1>6 DEF Intact, n
  <1>7. CASE link # "dead" /\ It.mode \notin Open
    BY <1>1, <1>7 DEF Intact, n
  <1> QED
    BY <1>4, <1>5, <1>6, <1>7

\* What a packet leaves of a board, whatever it does to its flash.
LEMMA PacketInv ==
    ASSUME NEW b, NEW n, IsBoard(b), IsBoard(n), BoardInv(b), n.slow = b.slow, Intact(n), n.quiet \in {0, b.quiet},
           \/ n.mode = b.mode /\ (b.mode \in {"startup", "tail", "identified"} => n.pointer = b.pointer)
           \/ n.mode = "identified" /\ b.mode = "startup" /\ n.pointer = b.pointer
           \/ n.mode = "data" /\ n.quiet = 0
           \/ n.mode = "app"
    PROVE  BoardInv(n)
  <1>1. SessionTicks(n) = SessionTicks(b) /\ SessionTicks(n) >= 0 /\ Exit >= 0 /\ SessionTicks(n) \in Nat /\ Exit \in Nat
    BY SameTicks, BoardNumbers, Numbers
  <1> QED
    BY <1>1 DEF BoardInv

LEMMA ReloadInv == ASSUME NEW b, IsBoard(b), BoardInv(b) PROVE BoardInv(Reload(b))
  BY ReloadFields, PacketInv DEF BoardInv, Intact

LEMMA IdentityInv == ASSUME TypeInv, SessionInv PROVE BoardInv(Sent("identity", 0))
  <1> DEFINE n == Sent("identity", 0)
  <1>1. /\ IsBoard(n) /\ n.slow = It.slow /\ n.flash = It.flash /\ n.pointer = It.pointer
        /\ n.mode = IF It.mode = "startup" /\ link # "dead" THEN "identified" ELSE It.mode
        /\ n.quiet \in {0, It.quiet}
    BY SentIdentity
  <1>2. BoardInv(It) /\ IsBoard(It)
    BY ItInv
  <1> HIDE DEF n
  <1>3. Intact(n)
    BY <1>1, <1>2 DEF BoardInv, Intact
  <1> QED
    BY <1>1, <1>2, <1>3, PacketInv DEF n

LEMMA StartInv == ASSUME TypeInv, SessionInv PROVE BoardInv(Sent("start", 0))
  <1> DEFINE n == Sent("start", 0)
  <1>1. /\ IsBoard(n) /\ n.slow = It.slow /\ n.pointer = It.pointer
        /\ n.mode = IF It.mode = "identified" /\ link # "dead" THEN "data" ELSE It.mode
        /\ \A p \in Index : n.flash[p] \in {It.flash[p], "erased"}
        /\ n.quiet \in {0, It.quiet} /\ (n.mode = "data" /\ link # "dead" => n.quiet = 0)
    BY SentStart
  <1>2. BoardInv(It) /\ IsBoard(It)
    BY ItInv
  <1> HIDE DEF n
  <1>3. Intact(n)
    BY <1>1, <1>2 DEF BoardInv, Intact
  <1> QED
    BY <1>1, <1>2, <1>3, PacketInv DEF n

LEMMA DataInv ==
    ASSUME TypeInv, SessionInv, NEW i \in Index,
           It.mode \in Open => (IF i = 0 THEN It.pointer = 0 ELSE Synchronous(It, i))
    PROVE  BoardInv(Sent("data", i))
  <1> DEFINE n == Sent("data", i)
  <1>1. BoardInv(It) /\ IsBoard(It)
    BY ItInv
  <1>2. IsBoard(n) /\ n.slow = It.slow /\ n.mode = It.mode /\ n.quiet \in {0, It.quiet}
        /\ (It.mode \notin Open => n.pointer = It.pointer)
    BY SentData
  <1>3. Intact(n)
    BY <1>1, SynchronousData DEF BoardInv
  <1> HIDE DEF n
  <1> QED
    BY <1>1, <1>2, <1>3, PacketInv DEF Open, n

LEMMA EndInv == ASSUME TypeInv, SessionInv, NEW i \in Index PROVE BoardInv(Sent("end", i))
  <1> DEFINE n == Sent("end", i)
  <1>1. /\ IsBoard(n) /\ n.slow = It.slow /\ n.flash = It.flash /\ n.pointer = It.pointer
        /\ n.mode = IF It.mode \in Open /\ link # "dead" THEN "app" ELSE It.mode
        /\ n.quiet \in {0, It.quiet}
    BY SentEnd
  <1>2. BoardInv(It) /\ IsBoard(It)
    BY ItInv
  <1> HIDE DEF n
  <1>3. Intact(n)
    BY <1>1, <1>2 DEF BoardInv, Intact
  <1> QED
    BY <1>1, <1>2, <1>3, PacketInv DEF n

KeepsSession == \E n : Programs(n) /\ BoardInv(n) /\ SessionOf(n, client')

\* No condition on the session of a client in these stages.
Loose == {"idle", "done", "unconfirmed", "failed", "late", "sleep"}

LEMMA LooseSession == ASSUME NEW n, NEW c, c.pc \in Loose PROVE SessionOf(n, c)
  BY DEF SessionOf, Loose

LEMMA PassSession == ASSUME TypeInv, SessionInv, Pass PROVE KeepsSession
  <1> DEFINE t == Tick(It)
  <1>1. /\ IsBoard(t) /\ t.build = It.build /\ t.slow = It.slow
        /\ It.mode = "app" => t = It
        /\ t.mode = "data" => It.mode = "data"
        /\ It.mode = "data" =>
             IF It.quiet < SessionTicks(It) THEN t.mode = "data" /\ t.quiet = It.quiet + 1 /\ t.pointer = It.pointer /\ t.last = It.last
                                            ELSE t.mode = "exit" /\ t.quiet = 1 /\ t.pointer = It.pointer /\ t.last = It.last
        /\ It.mode = "exit" =>
             IF It.quiet < Exit THEN t.mode = "exit" /\ t.quiet = It.quiet + 1 /\ t.pointer = It.pointer /\ t.last = It.last
                                ELSE t.mode = "startup" /\ t.pointer = 0
        /\ It.mode \in {"startup", "tail", "identified"} =>
             t.mode \in {"app", "startup", "tail", "identified"} /\ t.pointer \in {It.pointer, 0}
    BY ItType, TickFields
  <1>2. BoardInv(It) /\ SessionOf(It, client) /\ IsBoard(It) /\ IsClient(client) /\ Now(t)
    BY ItInv DEF Pass
  <1>3. Programs(t) /\ BoardInv(t)
    BY <1>1, <1>2, NowPrograms, TickInv
  <1>4. /\ client.wait > 0 /\ client'.wait = client.wait - 1 /\ client'.pc = client.pc
        /\ client'.index = client.index /\ client'.waited = client.waited
    BY PassFields
  <1>5. /\ It.quiet \in Nat /\ SessionTicks(It) \in Nat /\ SessionTicks(t) = SessionTicks(It)
        /\ Exit \in Nat /\ client.wait \in Nat /\ client.waited \in Nat /\ It.mode \in Modes /\ ResetBy \in Nat
    BY <1>1, <1>2, BoardNumbers, ClientNumbers, SameTicks, Numbers DEF ResetBy
  <1> HIDE DEF t
  <1>6. t.mode \in Open => It.mode \in Open /\ t.pointer = It.pointer /\ t.last = It.last
    BY <1>1, <1>5 DEF Open, Modes
  <1>7. It.mode \in Open /\ It.pointer # 0 /\ t.mode \in Open /\ Expiring(It) + client.waited <= ResetBy + 1 + client.wait + It.quiet
          => Expiring(t) + client.waited <= ResetBy + 1 + (client.wait - 1) + t.quiet
    <2>1. CASE It.mode = "data" /\ It.quiet < SessionTicks(It)
      BY <1>1, <1>5, <2>1 DEF Expiring
    <2>2. CASE It.mode = "data" /\ ~(It.quiet < SessionTicks(It))
      <3>1. It.quiet = SessionTicks(It)
        BY <1>2, <1>5, <2>2 DEF BoardInv
      <3> QED
        BY <1>1, <1>5, <2>2, <3>1 DEF Expiring
    <2>3. CASE It.mode = "exit"
      BY <1>1, <1>5, <2>3 DEF Expiring, Open
    <2> QED
      BY <2>1, <2>2, <2>3 DEF Open
  <1>8. SessionOf(t, client')
    BY <1>2, <1>4, <1>6, <1>7 DEF SessionOf, Synchronous
  <1> QED
    BY <1>3, <1>8 DEF KeepsSession

LEMMA FailSession == ASSUME TypeInv, Fail, NEW n PROVE SessionOf(n, client')
  <1>1. client'.pc = "failed"
    BY GotoFields, StageNames DEF Fail, Goto
  <1> QED
    BY <1>1, LooseSession DEF Loose

LEMMA GotoLoose ==
    ASSUME TypeInv, NEW pc \in Loose, NEW t \in Nat, GotoAfter(t, pc), NEW n
    PROVE  SessionOf(n, client')
  <1>1. pc \in Stages
    BY StageNames DEF Loose
  <1>2. client'.pc = pc
    BY <1>1, GotoFields
  <1> QED
    BY <1>2, LooseSession

LEMMA AmbiguousSession == ASSUME TypeInv, Ambiguous, NEW n PROVE SessionOf(n, client')
  BY FailSession, GotoLoose DEF Ambiguous, Goto, Loose

\* A client that is asked for its identity is out of a session.
LEMMA FreshSession ==
    ASSUME TypeInv, Fresh, NEW n, n.mode \notin Open
    PROVE  SessionOf(n, client')
  BY FreshFields DEF SessionOf

LEMMA ProbeSession == ASSUME TypeInv, SessionInv, Probe PROVE KeepsSession
  <1> DEFINE n == Sent("identity", 0)
  <1>1. Programs(n) /\ BoardInv(n)
    BY SentPrograms, IdentityInv, Numbers DEF Probe
  <1>2. client.pc = "probe" /\ client.index = 0
    BY ItInv DEF Probe, SessionOf
  <1>3. CASE Heard("identity") /\ Goto("start")
    <2>1. n.mode \notin Open
      BY <1>3, SentIdentity DEF Heard, Answers, Open
    <2>2. client'.pc = "start" /\ client'.index = 0
      BY <1>2, <1>3, GotoFields, StageNames DEF Goto
    <2> QED
      BY <1>1, <2>1, <2>2 DEF KeepsSession, SessionOf
  <1>4. CASE Retry(LongWait)
    <2>1. client'.pc = "probe" /\ client'.index = 0
      BY <1>2, <1>4, RetryFields, LongWaitType
    <2> QED
      BY <1>1, <2>1 DEF KeepsSession, SessionOf
  <1>5. CASE Fail
    BY <1>1, <1>5, FailSession DEF KeepsSession
  <1> QED
    BY <1>3, <1>4, <1>5 DEF Probe

LEMMA StartImageSession == ASSUME TypeInv, SessionInv, StartImage PROVE KeepsSession
  <1> DEFINE n == Sent("start", 0)
  <1>1. Programs(n) /\ BoardInv(n)
    BY SentPrograms, StartInv, Numbers DEF StartImage
  <1>2. client.pc = "start" /\ client.index = 0
    BY ItInv DEF StartImage, SessionOf
  <1>3. n.mode \in Open => n.pointer = 0
    BY <1>2, ItInv, SentStart DEF SessionOf, BoardInv, Open
  <1>4. CASE \E t \in Nat : GotoAfter(t, "first")
    <2>1. client'.pc = "first" /\ client'.index = 0
      BY <1>2, <1>4, GotoFields, StageNames
    <2> QED
      BY <1>1, <1>3, <2>1 DEF KeepsSession, SessionOf
  <1>5. CASE \E t \in Nat : Retry(t)
    <2>1. client'.pc = "start" /\ client'.index = 0
      BY <1>2, <1>5, RetryFields
    <2> QED
      BY <1>1, <1>3, <2>1 DEF KeepsSession, SessionOf
  <1>6. CASE Fail
    BY <1>1, <1>6, FailSession DEF KeepsSession
  <1>7. GotoAfter(0, "first") \/ GotoAfter(1, "first") \/ Fail \/ Retry(LongWait) \/ Retry(1)
    BY DEF StartImage, Goto
  <1> QED
    BY <1>4, <1>5, <1>6, <1>7, LongWaitType

\* A packet that was written or had been is followed by the next one.
LEMMA OnwardSession ==
    ASSUME TypeInv, Onward, NEW n, n.mode \in Open => n.pointer = client.index + 1 /\ n.last = client.index
    PROVE  SessionOf(n, client')
  <1>1. client.index \in Nat /\ client.index < Pages /\ Pages \in Nat
    BY ItType, Numbers DEF Index
  <1> QED
    BY <1>1, OnwardFields DEF SessionOf, Synchronous

LEMMA RejectedSession ==
    ASSUME TypeInv, SessionInv, Now(Reload(It)), client'.pc = client.pc, client'.index = client.index, client.pc # "restart"
    PROVE  KeepsSession
  <1>1. Programs(Reload(It)) /\ BoardInv(Reload(It))
    BY ReloadPrograms, ReloadInv, ItInv
  <1>2. LET r == Reload(It) IN r.mode = It.mode /\ r.pointer = It.pointer /\ r.last = It.last
    BY ReloadFields, ItInv
  <1>3. SessionOf(Reload(It), client')
    BY <1>2, ItInv DEF SessionOf, Synchronous
  <1> QED
    BY <1>1, <1>3 DEF KeepsSession

LEMMA FirstPacketSession == ASSUME TypeInv, SessionInv, FirstPacket PROVE KeepsSession
  <1> DEFINE n == Sent("data", 0)
  <1>1. client.pc = "first" /\ client.index = 0 /\ (It.mode \in Open => It.pointer = 0)
    BY ItInv DEF FirstPacket, SessionOf
  <1>2. ASSUME Now(n) PROVE Programs(n) /\ BoardInv(n)
    BY <1>1, <1>2, SentPrograms, DataInv, Numbers
  <1>3. CASE Heard("data") /\ Now(n) /\ Onward
    <2>1. n.mode = It.mode
      BY SentData, Numbers
    <2>2. n.mode \in Open => n.pointer = 1 /\ n.last = 0
      BY <1>1, <1>3, <2>1, SynchronousData, Numbers, ItInv DEF Heard, BoardInv
    <2>3. SessionOf(n, client')
      BY <1>1, <1>3, <2>2, OnwardSession
    <2> QED
      BY <1>2, <1>3, <2>3 DEF KeepsSession
  <1>4. CASE Now(n) /\ Ambiguous
    BY <1>2, <1>4, AmbiguousSession DEF KeepsSession
  <1>5. CASE Now(Reload(It)) /\ Retry(0)
    BY <1>1, <1>5, RetryFields, RejectedSession
  <1>6. CASE Now(Reload(It)) /\ Ambiguous
    BY <1>6, AmbiguousSession, ReloadPrograms, ReloadInv, ItInv DEF KeepsSession
  <1> QED
    BY <1>3, <1>4, <1>5, <1>6 DEF FirstPacket

\* The packet of a client in the data stage, and of one that asks for the last
\* packet again.
LEMMA NextPacketSession ==
    ASSUME TypeInv, SessionInv, client.pc \in {"data", "end"}
    PROVE  LET n == Sent("data", client.index) IN
           /\ BoardInv(n) /\ n.mode = It.mode
           /\ It.mode \in Open /\ link # "dead" => n.pointer = client.index + 1 /\ n.last = client.index
           /\ \A c : c.pc = client.pc /\ c.index = client.index => SessionOf(n, c)
  <1> DEFINE i == client.index
             n == Sent("data", i)
  <1>1. i \in Index /\ i \in Nat /\ i < Pages /\ Pages \in Nat /\ It.pointer \in Nat
    BY ItType, Numbers, BoardNumbers DEF Index
  <1>2. CASE client.pc = "data"
    <2>1. i # 0 /\ (It.mode \in Open => Synchronous(It, i))
      BY <1>2, ItInv DEF SessionOf
    <2>2. BoardInv(n) /\ n.mode = It.mode
      BY <1>1, <2>1, DataInv, SentData
    <2>3. It.mode \in Open /\ link # "dead" => n.pointer = i + 1 /\ n.last = i
      BY <1>1, <2>1, SynchronousData, ItInv DEF BoardInv
    <2>4. link = "dead" => n = It
      BY <1>1, SentData
    <2>5. n.mode \in Open => Synchronous(n, i)
      BY <2>1, <2>2, <2>3, <2>4 DEF Synchronous
    <2> HIDE DEF n
    <2>6. \A c : c.pc = "data" /\ c.index = i => SessionOf(n, c)
      BY <2>1, <2>5 DEF SessionOf
    <2> QED
      BY <1>2, <2>2, <2>3, <2>6 DEF n
  <1>3. CASE client.pc = "end"
    <2>1. i = Pages - 1 /\ (It.mode \in Open => It.pointer = Pages)
      BY <1>3, ItInv DEF SessionOf
    <2>2. /\ IsBoard(n) /\ n.slow = It.slow /\ n.mode = It.mode /\ n.quiet \in {0, It.quiet}
          /\ link = "dead" => n = It
          /\ link # "dead" =>
                /\ n.last = IF It.mode \in Open THEN i ELSE It.last
                /\ n.pointer = It.pointer
                /\ \A p \in Index : n.flash[p] = It.flash[p]
      BY <1>1, <2>1, SentData DEF Repeated
    <2>3. BoardInv(It) /\ IsBoard(It)
      BY ItInv
    <2>5. n.pointer = It.pointer /\ Intact(n)
      BY <2>2, <2>3 DEF BoardInv, Intact
    <2> HIDE DEF n
    <2>6. BoardInv(n)
      BY <2>2, <2>3, <2>5, PacketInv
    <2>7. \A c : c.pc = "end" /\ c.index = i => SessionOf(n, c)
      BY <2>1, <2>2, <2>5 DEF SessionOf
    <2> QED
      BY <1>1, <1>3, <2>1, <2>2, <2>5, <2>6, <2>7 DEF n
  <1> QED
    BY <1>2, <1>3

LEMMA LaterPacketSession == ASSUME TypeInv, SessionInv, LaterPacket PROVE KeepsSession
  <1> DEFINE n == Sent("data", client.index)
  <1>1. client.pc = "data" /\ (Now(n) => Programs(n))
    BY ItType, SentPrograms DEF LaterPacket
  <1>2. CASE Heard("data") /\ Now(n) /\ Onward
    <2>1. Programs(n) /\ BoardInv(n) /\ (n.mode \in Open => n.pointer = client.index + 1 /\ n.last = client.index)
      BY <1>1, <1>2, NextPacketSession DEF Heard
    <2>2. SessionOf(n, client')
      BY <1>2, <2>1, OnwardSession
    <2> QED
      BY <2>1, <2>2 DEF KeepsSession
  <1>3. CASE Now(n) /\ Retry(LongWait)
    BY <1>1, <1>3, NextPacketSession, RetryFields, LongWaitType DEF KeepsSession
  <1>4. CASE Now(n) /\ Fail
    BY <1>1, <1>4, NextPacketSession, FailSession DEF KeepsSession
  <1>5. CASE Now(Reload(It)) /\ Retry(LongWait)
    BY <1>1, <1>5, RetryFields, RejectedSession, LongWaitType
  <1>6. CASE Now(Reload(It)) /\ Fail
    BY <1>6, FailSession, ReloadPrograms, ReloadInv, ItInv DEF KeepsSession
  <1> QED
    BY <1>2, <1>3, <1>4, <1>5, <1>6 DEF LaterPacket

LEMMA EndSession == ASSUME TypeInv, SessionInv, End PROVE KeepsSession
  <1>1. Programs(Sent("end", 0)) /\ BoardInv(Sent("end", 0))
    BY SentPrograms, EndInv, Numbers DEF End
  <1>2. Goto("done") \/ Fail
    BY DEF End
  <1>3. SessionOf(Sent("end", 0), client')
    BY <1>2, FailSession, GotoLoose DEF Goto, Loose
  <1> QED
    BY <1>1, <1>3 DEF KeepsSession

LEMMA HoldAsksSession == ASSUME TypeInv, SessionInv, HoldAsks PROVE KeepsSession
  <1>1. client.pc \in {"data", "end"} /\ Heard(Asked) /\ Now(Sent(Asked, client.index)) /\ client.index \in Index
    BY ItType DEF HoldAsks
  <1>2. Programs(Sent(Asked, client.index)) /\ BoardInv(Sent(Asked, client.index))
    BY <1>1, SentPrograms, EndInv, NextPacketSession DEF Asked
  <1>3. CASE Goto("late") \/ Goto("done")
    BY <1>2, <1>3, GotoLoose DEF Goto, Loose, KeepsSession
  <1>4. CASE client.pc = "data" /\ Onward
    <2>1. Asked = "data"
      BY <1>4 DEF Asked
    <2>2. LET n == Sent("data", client.index) IN n.mode \in Open => n.pointer = client.index + 1 /\ n.last = client.index
      BY <1>1, <2>1, NextPacketSession DEF Heard
    <2>3. SessionOf(Sent("data", client.index), client')
      BY <1>4, <2>2, OnwardSession
    <2> QED
      BY <1>2, <2>1, <2>3 DEF KeepsSession
  <1> QED
    BY <1>1, <1>3, <1>4 DEF HoldAsks, Accepted

LEMMA HoldRejectedSession == ASSUME TypeInv, SessionInv, HoldRejected PROVE KeepsSession
  <1>1. /\ client.pc \in {"data", "end"} /\ Now(Reload(It))
        /\ client' = [client EXCEPT !.heard = 0, !.fooled = @ \/ Silent]
    BY DEF HoldRejected
  <1>2. client'.pc = client.pc /\ client'.index = client.index
    BY <1>1, ItInv DEF IsClient
  <1> QED
    BY <1>1, <1>2, RejectedSession

\* A round of waiting leaves a session as it is, or finds that it is over.
LEMMA QueriedInv ==
    ASSUME TypeInv, NEW asks \in BOOLEAN, BoardInv(Packeted(asks))
    PROVE  BoardInv(Queried(asks))
  <1> DEFINE b == Packeted(asks)
             n == Queried(asks)
  <1>1. /\ IsBoard(n) /\ n.slow = It.slow /\ n.flash = b.flash /\ n.pointer = b.pointer
        /\ n.mode = IF b.mode = "startup" /\ link # "dead" THEN "identified" ELSE b.mode
        /\ n.quiet \in {0, b.quiet}
    BY QueriedFields
  <1>2. IsBoard(b) /\ b.slow = It.slow
    BY PacketedTypes
  <1> HIDE DEF b, n
  <1>3. Intact(n)
    BY <1>1 DEF BoardInv, Intact, b
  <1> QED
    BY <1>1, <1>2, <1>3, PacketInv DEF b, n

\* What a round's packet may be: the packet of the session, or its end.
LEMMA PacketedSession ==
    ASSUME TypeInv, SessionInv, client.pc \in {"data", "end"}, NEW asks \in BOOLEAN
    PROVE  LET b == Packeted(asks) IN
           /\ IsBoard(b) /\ b.build = It.build /\ b.slow = It.slow /\ BoardInv(b)
           /\ \A c : c.pc = client.pc /\ c.index = client.index => SessionOf(b, c)
  <1>1. client.index \in Index
    BY ItType
  <1>2. IsBoard(Packeted(asks)) /\ Packeted(asks).build = It.build /\ Packeted(asks).slow = It.slow
    BY PacketedTypes
  <1>3. CASE ~asks
    <2>1. BoardInv(It) /\ SessionOf(It, client)
      BY ItInv
    <2>2. \A c : c.pc = client.pc /\ c.index = client.index => SessionOf(It, c)
      BY <2>1 DEF SessionOf
    <2> QED
      BY <1>2, <1>3, <2>1, <2>2 DEF Packeted
  <1>4. CASE asks /\ Asked = "data"
    <2>1. Packeted(asks) = Sent("data", client.index)
      BY <1>4 DEF Packeted
    <2> QED
      BY <1>2, <2>1, NextPacketSession
  <1>5. CASE asks /\ Asked = "end"
    <2> DEFINE n == Sent("end", client.index)
    <2>1. Packeted(asks) = n /\ client.pc = "end"
      BY <1>5 DEF Packeted, Asked
    <2>2. BoardInv(n)
      BY <1>1, EndInv
    <2>3. n.pointer = It.pointer /\ n.mode = IF It.mode \in Open /\ link # "dead" THEN "app" ELSE It.mode
      BY <1>1, SentEnd
    <2> HIDE DEF n
    <2>4. \A c : c.pc = "end" /\ c.index = client.index => SessionOf(n, c)
      BY <2>1, <2>3, ItInv DEF SessionOf, Open
    <2> QED
      BY <1>2, <2>1, <2>2, <2>4
  <1> QED
    BY <1>3, <1>4, <1>5 DEF Asked

LEMMA HoldWaitsSession == ASSUME TypeInv, SessionInv, HoldWaits PROVE KeepsSession
  <1>1. client.pc \in {"data", "end"}
    BY DEF HoldWaits
  <1>2. PICK asks \in BOOLEAN, t \in {0, 1} :
          /\ Now(Queried(asks)) /\ link' = link
          /\ (link = "up" /\ Answers(Packeted(asks), "identity") /\ Fresh) \/ Round(t)
    BY WaitsFields
  <1> DEFINE b == Packeted(asks)
             n == Queried(asks)
  <1>3. /\ IsBoard(b) /\ BoardInv(b) /\ \A c : c.pc = client.pc /\ c.index = client.index => SessionOf(b, c)
    BY <1>1, PacketedSession
  <1>4. /\ IsBoard(n) /\ n.build = It.build /\ n.slow = It.slow /\ n.pointer = b.pointer /\ n.last = b.last
        /\ n.mode = IF b.mode = "startup" /\ link # "dead" THEN "identified" ELSE b.mode
    BY QueriedFields
  <1>5. Programs(n) /\ BoardInv(n)
    BY <1>2, <1>3, <1>4, NowPrograms, QueriedInv
  <1>6. CASE link = "up" /\ Answers(b, "identity") /\ Fresh
    <2>1. n.mode \notin Open
      BY <1>4, <1>6 DEF Answers, Open
    <2> QED
      BY <1>5, <1>6, <2>1, FreshSession DEF KeepsSession
  <1>7. CASE Round(t)
    <2>1. client'.pc = client.pc /\ client'.index = client.index
      BY <1>7, RoundFields
    <2>2. SessionOf(b, client')
      BY <1>3, <2>1
    <2> HIDE DEF b, n
    <2>3. SessionOf(n, client')
      BY <1>1, <1>4, <2>1, <2>2 DEF SessionOf, Open, Synchronous
    <2> QED
      BY <1>5, <2>3 DEF KeepsSession, n
  <1> QED
    BY <1>2, <1>6, <1>7

LEMMA HoldEndsSession == ASSUME TypeInv, SessionInv, HoldEnds PROVE KeepsSession
  <1>1. board' = board /\ (Goto("unconfirmed") \/ Goto("failed"))
    BY DEF HoldEnds
  <1> QED
    BY <1>1, StayPrograms, ItInv, GotoLoose DEF Goto, Loose, KeepsSession

LEMMA LateProbeSession == ASSUME TypeInv, SessionInv, LateProbe PROVE KeepsSession
  <1> DEFINE n == Sent("identity", 0)
  <1>1. Programs(n) /\ BoardInv(n) /\ client.pc = "late"
    BY SentPrograms, IdentityInv, Numbers DEF LateProbe
  <1>2. CASE Heard("identity") /\ Fresh
    <2>1. n.mode \notin Open
      BY <1>2, SentIdentity DEF Heard, Answers, Open
    <2> QED
      BY <1>1, <1>2, <2>1, FreshSession DEF KeepsSession
  <1>3. CASE Retry(1)
    <2>1. client'.pc = "late"
      BY <1>1, <1>3, RetryFields
    <2> QED
      BY <1>1, <2>1, LooseSession DEF KeepsSession, Loose
  <1>4. CASE Goto("sleep")
    BY <1>1, <1>4, GotoLoose DEF KeepsSession, Goto, Loose
  <1> QED
    BY <1>2, <1>3, <1>4 DEF LateProbe

\* A client that lost track sleeps longer than any session lasts.
LEMMA AwaitResetSession == ASSUME TypeInv, SessionInv, AwaitReset PROVE KeepsSession
  <1>1. Programs(It) /\ BoardInv(It)
    BY StayPrograms, ItInv DEF AwaitReset
  <1>2. client'.pc = "restart" /\ client'.wait = Session + Exit + 1 /\ client'.waited = Session + Exit + 1
    BY AwaitResetFields
  <1>3. /\ It.quiet \in Nat /\ SessionTicks(It) \in Nat /\ SessionTicks(It) <= Session + Slack
        /\ Session \in Nat /\ Exit \in Nat /\ Slack \in Nat
    BY ItType, BoardNumbers, Numbers
  <1>4. SessionOf(It, client')
    BY <1>2, <1>3 DEF SessionOf, Expiring, ResetBy
  <1> QED
    BY <1>1, <1>4 DEF KeepsSession

\* Once the client is certain, no session with a moved pointer is left; before,
\* such a session can only be over its expiry already.
LEMMA RestartFinds ==
    ASSUME TypeInv, SessionInv, client.pc = "restart", client.wait = 0, It.mode \in Open, It.pointer # 0
    PROVE  It.mode = "exit" /\ ~Certain(Heard("identity"))
  <1>1. /\ Session + Exit + 1 <= client.waited
        /\ Expiring(It) + client.waited <= ResetBy + 1 + It.quiet
    BY ItInv, BoardNumbers, Numbers DEF SessionOf, ResetBy
  <1>2. /\ It.quiet \in Nat /\ SessionTicks(It) \in Nat /\ client.waited \in Nat /\ BoardInv(It)
        /\ Session \in Nat /\ Exit \in Nat /\ Slack \in Nat /\ Slack <= Exit
    BY ItInv, BoardNumbers, ClientNumbers, Numbers
  <1>3. It.mode = "exit"
    <2>1. ASSUME It.mode = "data" PROVE FALSE
      BY <1>1, <1>2, <2>1 DEF Expiring, ResetBy, BoardInv
    <2> QED
      BY <2>1 DEF Open
  <1>4. ~Heard("identity")
    BY <1>3 DEF Heard, Answers
  <1>5. ~(client.waited > ResetBy)
    BY <1>1, <1>2, <1>3 DEF Expiring, ResetBy, BoardInv
  <1> QED
    BY <1>3, <1>4, <1>5 DEF Certain

LEMMA ErasedFields ==
    ASSUME TypeInv, SessionInv
    PROVE  /\ IsBoard(Erased) /\ Erased.build = It.build /\ Erased.slow = It.slow /\ Erased.pointer = It.pointer
           /\ BoardInv(Erased)
           /\ Erased.mode \in Open => It.mode \in {"startup", "identified"} \cup Open
  <1> DEFINE t == Takes(Woken, "start", 0, "stock")
  <1>1. /\ IsBoard(Woken) /\ Woken.build = It.build /\ Woken.slow = It.slow /\ Woken.pointer = It.pointer
        /\ Woken.mode = IF It.mode = "startup" /\ link # "dead" THEN "identified" ELSE It.mode
        /\ BoardInv(Woken)
    BY SentIdentity, IdentityInv DEF Woken
  <1>2. /\ IsBoard(t) /\ t.build = Woken.build /\ t.slow = Woken.slow /\ t.pointer = Woken.pointer
        /\ t.mode = IF Woken.mode = "identified" THEN "data" ELSE Woken.mode
        /\ IF Erases(Woken) THEN \A p \in Index : t.flash[p] = "erased" ELSE t.flash = Woken.flash
        /\ t.quiet \in {0, Woken.quiet} /\ (t.mode = "data" => t.quiet = 0)
    BY <1>1, TakesStart, Numbers DEF Images
  <1>3. Erased = IF link = "dead" THEN Woken ELSE t
    BY DEF Erased
  <1> HIDE DEF t
  <1>4. Intact(t)
    BY <1>1, <1>2 DEF BoardInv, Intact
  <1>5. BoardInv(t)
    BY <1>1, <1>2, <1>4, PacketInv
  <1> QED
    BY <1>1, <1>2, <1>3, <1>5 DEF Open

LEMMA RestartSession == ASSUME TypeInv, SessionInv, Restart, client.wait = 0 PROVE KeepsSession
  <1>1. client.pc = "restart" /\ Session + Exit + 1 <= client.waited /\ client.waited \in Nat /\ ResetBy \in Nat
        /\ Session + Exit + 1 \in Nat
    BY RestartFields, ItInv, ClientNumbers, Numbers DEF SessionOf, ResetBy
  <1>2. ASSUME Certain(Heard("identity")), Now(Erased)
        PROVE  Programs(Erased) /\ BoardInv(Erased) /\ (Erased.mode \in Open => Erased.pointer = 0)
    <2>1. Programs(Erased) /\ BoardInv(Erased)
      BY <1>2, ErasedFields, NowPrograms
    <2>2. It.mode \in Open => It.pointer = 0
      BY <1>1, <1>2, RestartFinds
    <2>3. It.mode \in {"startup", "identified"} => It.pointer = 0
      BY ItInv DEF BoardInv
    <2> QED
      BY <2>1, <2>2, <2>3, ErasedFields
  <1>3. CASE Certain(Heard("identity")) /\ Now(Erased) /\ Restarts
    BY <1>2, <1>3, RestartsFields DEF KeepsSession, SessionOf
  <1>4. CASE Certain(Heard("identity")) /\ Now(Erased) /\ NextRound
    <2>1. client'.pc = "restart" /\ Session + Exit + 1 <= client'.waited
      BY <1>1, <1>4, NextRoundFields
    <2> QED
      BY <1>2, <1>4, <2>1 DEF KeepsSession, SessionOf
  <1>5. CASE ~Certain(Heard("identity")) /\ Now(Woken) /\ NextRound
    <2>1. Programs(Woken) /\ BoardInv(Woken)
      BY <1>5, SentPrograms, IdentityInv, Numbers DEF Woken
    <2>2. client'.pc = "restart" /\ client'.waited = client.waited + client'.wait /\ client'.wait \in {0, 1}
      BY <1>1, <1>5, NextRoundFields
    <2>3. ASSUME Woken.mode \in Open, Woken.pointer # 0
          PROVE  Expiring(Woken) + client'.waited <= ResetBy + 1 + client'.wait + Woken.quiet
      <3>1. It.mode \in Open /\ It.pointer # 0 /\ Woken.mode = It.mode
        BY <2>3, SentIdentity DEF Woken, Open
      <3>2. It.mode = "exit"
        BY <1>1, <3>1, RestartFinds
      <3>3. Woken.quiet = It.quiet /\ It.quiet \in Nat /\ Exit \in Nat
        BY <3>2, SentIdentity, ItType, BoardNumbers, Numbers DEF Woken
      <3>4. Exit + 1 + client.waited <= ResetBy + 1 + It.quiet
        BY <1>1, <3>1, <3>2, <3>3, ItInv DEF SessionOf, Expiring
      <3> QED
        BY <1>1, <2>2, <3>1, <3>2, <3>3, <3>4 DEF Expiring
    <2>4. SessionOf(Woken, client')
      BY <1>1, <2>2, <2>3 DEF SessionOf
    <2> QED
      BY <2>1, <2>4 DEF KeepsSession
  <1> QED
    BY <1>3, <1>4, <1>5, RestartFields

LEMMA RestartFailsSession == ASSUME TypeInv, SessionInv, RestartFails PROVE KeepsSession
  <1>1. Programs(It) /\ BoardInv(It)
    BY StayPrograms, ItInv DEF RestartFails
  <1> QED
    BY <1>1, RestartFailsFields, LooseSession DEF KeepsSession, Loose

LEMMA ClientStepSession == ASSUME TypeInv, SessionInv, ClientStep PROVE SessionInv'
  <1>1. KeepsSession
    BY PassSession, ProbeSession, StartImageSession, FirstPacketSession, LaterPacketSession, EndSession,
       HoldAsksSession, HoldRejectedSession, HoldWaitsSession, HoldEndsSession, LateProbeSession,
       AwaitResetSession, RestartSession, RestartFailsSession
    DEF ClientStep
  <1>2. PICK n : Programs(n) /\ BoardInv(n) /\ SessionOf(n, client')
    BY <1>1 DEF KeepsSession
  <1>3. client'.on = client.on
    BY ClientStepTypes DEF ClientTypes, GoesOn
  <1>4. It' = n /\ \A b \in Boards \ {client.on} : board'[b] = board[b]
    BY <1>2, <1>3, ProgramsTyped
  <1>5. board'[client.on] = n
    BY <1>3, <1>4 DEF It
  <1> QED
    BY <1>2, <1>4, <1>5 DEF SessionInv

\* Outside a transfer nothing is asked of the session.
LEMMA IdleSession ==
    ASSUME \A b \in Boards : BoardInv(board'[b]), client'.pc \in Loose
    PROVE  SessionInv'
  <1>1. SessionOf(It', client')
    BY LooseSession
  <1> QED
    BY <1>1 DEF SessionInv

LEMMA SessionInit == Init => SessionInv
  <1> SUFFICES ASSUME Init PROVE SessionInv
    OBVIOUS
  <1>1. client.pc \in Loose
    BY NoTransferFields, OpNames DEF Init, Loose
  <1>2. ASSUME NEW b \in Boards PROVE BoardInv(board[b])
    <2>1. PICK fleet \in Fleets, slow \in BOOLEAN, image \in [Boards -> Images] :
            board = [x \in Boards |->
                      [build |-> fleet[x], slow |-> slow /\ fleet[x] = "second", mode |-> "app",
                       flash |-> [p \in Index |-> image[x]], pointer |-> 0, last |-> Pages, quiet |-> 0]]
      BY DEF Init
    <2>2. board[b].mode = "app" /\ \A p \in Index : board[b].flash[p] \in Images
      BY <2>1
    <2> QED
      BY <2>2 DEF BoardInv, Intact, Images
  <1> QED
    BY <1>1, <1>2, LooseSession DEF SessionInv

LEMMA SessionNext == ServiceInv /\ SessionInv /\ [Next]_vars => SessionInv'
  <1> SUFFICES ASSUME ServiceInv, SessionInv, [Next]_vars PROVE SessionInv'
    OBVIOUS
  <1>1. TypeInv /\ \A b \in Boards : BoardInv(board[b]) /\ IsBoard(board[b])
    BY DEF ServiceInv, SessionInv, TypeInv, BoardsTyped
  <1>2. CASE UNCHANGED <<board, client>>
    BY <1>2 DEF SessionInv, It
  <1>3. CASE Program
    <2>1. op.board \in Boards /\ client' = Transfer(op.board, Image(op.kind)) /\ Image(op.kind) \in Images
      BY <1>1, <1>3, ProgramFields
    <2>2. client'.pc = "probe" /\ client'.index = 0
      <3>1. NoTransfer(op.board).index = 0 /\ IsClient(NoTransfer(op.board))
        BY <2>1, NoTransferFields DEF NoTransfer
      <3> QED
        BY <2>1, <3>1, TransferFields DEF Transfer, IsClient
    <2>3. PICK entered \in Entered(board[op.board]) : board' = [board EXCEPT ![op.board] = entered]
      BY <1>1, <1>3, ProgramFields
    <2>4. BoardInv(entered)
      BY <1>1, <2>1, EnteredFields, ResetInv
    <2>5. \A b \in Boards : BoardInv(board'[b])
      BY <1>1, <2>1, <2>3, <2>4 DEF TypeInv, BoardsTyped
    <2>6. SessionOf(It', client')
      BY <2>2 DEF SessionOf
    <2> QED
      BY <2>5, <2>6 DEF SessionInv
  <1>4. CASE Transferring
    BY <1>1, <1>4, ClientStepSession DEF Transferring
  <1>5. CASE Readback \/ Unverified
    <2>1. board' = board /\ client' = NoTransfer(op.board) /\ op.board \in Boards
      BY <1>1, <1>5 DEF Readback, Unverified, TypeInv, IsOp
    <2> QED
      BY <1>1, <2>1, NoTransferFields, IdleSession DEF Loose
  <1>6. CASE Interrupt \/ Kill
    BY <1>1, <1>6, InterruptFields, IdleSession DEF Loose
  <1>7. CASE PowerCycle
    <2>1. board' = [b \in Boards |-> Reset(board[b])] /\ client'.pc = "idle"
      BY <1>1, <1>7, ItType, NoTransferFields DEF PowerCycle
    <2> QED
      BY <1>1, <2>1, ResetInv, IdleSession DEF Loose
  <1>8. CASE BoardTick
    <2>1. PICK b \in Boards : board' = [board EXCEPT ![b] = Tick(board[b])]
      BY <1>8 DEF BoardTick
    <2>2. client'.pc \in Loose
      BY <1>8 DEF BoardTick, InProgress, Finished, Loose
    <2>3. \A x \in Boards : BoardInv(board'[x])
      BY <1>1, <2>1, TickInv DEF TypeInv, BoardsTyped
    <2> QED
      BY <2>2, <2>3, IdleSession
  <1>9. FlashThr \/ FlashBoxes("install") \/ FlashBoxes("restore") \/ Rescue => UNCHANGED <<board, client>>
    BY DEF FlashThr, FlashBoxes, Rescue, Starts
  <1>10. Step => UNCHANGED <<board, client>> \/ Program \/ Transferring \/ Readback \/ Unverified
    BY DEF Step, StopService, StartService, Complete, Incomplete, NextBoard, Snapshot, SnapshotFails, StopFails, Fails,
           transferVars
  <1>11. TransferLink => UNCHANGED <<board, client>>
    BY DEF TransferLink, LinkFails, LinkReturns
  <1> QED
    BY <1>2, <1>3, <1>4, <1>5, <1>6, <1>7, <1>8, <1>9, <1>10, <1>11 DEF Next, vars

\* The session of every transfer is the one its client believes in.
THEOREM SessionsAgree == Spec => []SessionInv
  BY ServiceInit, ServiceNext, SessionInit, SessionNext, PTL DEF Spec

\* No page of any board ever holds another page's packet.
THEOREM NothingIsMisplaced == Spec => []NothingMisplaced
  <1>1. SessionInv => NothingMisplaced
    BY DEF SessionInv, BoardInv, Intact, NothingMisplaced
  <1> QED
    BY <1>1, SessionsAgree, PTL

-----------------------------------------------------------------------------
(* Contents.  The pages below the write pointer of a session its client     *)
(* trusts hold the image, so an acknowledged end stands for all of it.      *)

Programmed(b, image) == \A p \in Index : p < b.pointer => b.flash[p] = image

\* Of a recovering client: it has heard of its session lately enough.
Trusts(c) == ~c.fooled /\ c.heard < Stale

RecoveringContent(b, c) ==
    c.pc \in {"data", "end"} /\ b.mode \in Open /\ Trusts(c) =>
        Programmed(b, c.target) /\ (b.mode = "data" => b.quiet + c.wait <= c.heard)

\* Of the Box client, which never waits within a session.
BoxContent(b, c) ==
    /\ c.pc \in {"start", "first", "data", "end"} => c.wait = 0
    /\ c.pc = "start" => b.mode \in {"identified", "tail"}
    /\ c.pc = "first" => b.mode \in {"data", "tail"}
    /\ c.pc \in {"data", "end"} => b.mode = "data" /\ Programmed(b, c.target)

ContentOf(b, c) ==
    /\ b.build = "second" => RecoveringContent(b, c)
    /\ b.build = "box" => BoxContent(b, c)
    /\ c.pc \in {"late", "sleep", "restart"} => b.build = "second"
    /\ c.pc = "done" => b.build = "first" \/ c.fooled \/ (b.mode = "app" /\ Holds(b, c.target))
    /\ c.pc # "idle" => Admitted(b)

\* Only a board whose bootloader is known is ever programmed.
AdmittedInv ==
    /\ \A b \in backups : Admitted(board[b])
    /\ op.pc \in {"record", "transfer"} => Admitted(board[op.board])
    /\ op.kind = "rescue" => \A b \in op.plan : Admitted(board[b])

ContentInv == AdmittedInv /\ ContentOf(It, client)

KeepsContent == \E n : Programs(n) /\ ContentOf(n, client')

\* A client that is out of a session, or has lost it.
LEMMA LostContent ==
    ASSUME NEW b, NEW c, Admitted(b),
           \/ c.pc \in {"idle", "unconfirmed", "failed", "probe"}
           \/ b.build = "second" /\ c.pc \in {"start", "first", "late", "sleep", "restart"}
           \/ b.build # "box" /\ c.pc \in {"start", "first"}
           \/ b.build = "first" /\ c.pc \in {"data", "end", "done"}
    PROVE  ContentOf(b, c)
  BY DEF ContentOf, RecoveringContent, BoxContent

LEMMA BusyContent ==
    ASSUME TypeInv, ContentInv, client.pc # "idle"
    PROVE  /\ Admitted(It) /\ It.build \in {"first", "second", "box"}
           /\ \A n : Programs(n) => Admitted(n) /\ n.build = It.build
  BY ItType, BoardNumbers DEF ContentInv, ContentOf, Admitted, Builds, Programs

\* Packet i leaves every page below the pointer programmed.
LEMMA DataProgrammed ==
    ASSUME TypeInv, SessionInv, NEW i \in Index, It.mode \in Open,
           IF i = 0 THEN It.pointer = 0 ELSE Synchronous(It, i),
           Programmed(It, client.target)
    PROVE  Programmed(Sent("data", i), client.target)
  <1> DEFINE n == Sent("data", i)
  <1>1. /\ link # "dead" => n.pointer = i + 1
        /\ \A p \in Index : IF link # "dead" /\ p = i /\ It.pointer = i
                            THEN n.flash[p] = client.target ELSE n.flash[p] = It.flash[p]
    BY SynchronousData, ItInv DEF BoardInv
  <1>2. link = "dead" => n = It
    BY SentData
  <1>3. i \in Nat /\ It.pointer \in Nat /\ \A p \in Index : p \in Nat
    BY ItType, BoardNumbers, Numbers DEF Index
  <1> HIDE DEF n
  <1>4. CASE link = "dead"
    BY <1>2, <1>4 DEF n
  <1>5. CASE link # "dead"
    BY <1>1, <1>3, <1>5 DEF Programmed, Synchronous, n
  <1> QED
    BY <1>4, <1>5

LEMMA PassContent == ASSUME TypeInv, SessionInv, ContentInv, Pass PROVE KeepsContent
  <1> DEFINE t == Tick(It)
  <1>1. /\ IsBoard(t) /\ t.build = It.build /\ t.slow = It.slow
        /\ It.mode # "data" => t.flash = It.flash
        /\ t.mode = "data" => It.mode = "data"
        /\ It.mode = "data" /\ It.quiet < SessionTicks(It) =>
             t.flash = It.flash /\ t.mode = "data" /\ t.quiet = It.quiet + 1 /\ t.pointer = It.pointer
        /\ It.mode = "exit" =>
             IF It.quiet < Exit THEN t.pointer = It.pointer ELSE t.mode = "startup"
        /\ It.mode \in {"startup", "tail", "identified"} => t.mode \in {"app", "startup", "tail", "identified"}
        /\ It.mode = "app" => t = It
    BY ItType, TickFields
  <1>2. /\ client.wait > 0 /\ client'.wait = client.wait - 1 /\ client'.pc = client.pc
        /\ client'.target = client.target /\ client'.heard = client.heard /\ client'.fooled = client.fooled
        /\ client.pc \notin Finished
    BY PassFields DEF Pass, InProgress
  <1>3. Programs(t)
    BY <1>1, NowPrograms DEF Pass
  <1>4. /\ It.quiet \in Nat /\ SessionTicks(It) \in Nat /\ SessionTicks(It) >= Session /\ Session \in Nat
        /\ client.wait \in Nat /\ client.heard \in Nat /\ It.mode \in Modes
    BY ItInv, BoardNumbers, ClientNumbers, Numbers
  <1>5. ContentOf(It, client) /\ Admitted(It) /\ Admitted(t)
    BY <1>1, <1>2, BusyContent DEF ContentInv, Finished, Admitted
  <1> HIDE DEF t
  <1>6. ASSUME t.build = "second" PROVE RecoveringContent(t, client')
    <2> SUFFICES ASSUME client.pc \in {"data", "end"}, t.mode \in Open, Trusts(client)
                 PROVE  Programmed(t, client.target) /\ (t.mode = "data" => t.quiet + client'.wait <= client.heard)
      BY <1>2 DEF RecoveringContent, Trusts
    <2>1. It.mode \in Open
      BY <1>1, <1>4 DEF Open, Modes
    <2>2. Programmed(It, client.target) /\ (It.mode = "data" => It.quiet + client.wait <= client.heard)
      BY <1>1, <1>5, <1>6, <2>1 DEF ContentOf, RecoveringContent
    <2>3. It.mode = "data" => It.quiet < SessionTicks(It)
      BY <1>4, <2>2 DEF Trusts, Stale
    <2>4. t.flash = It.flash /\ t.pointer = It.pointer
      BY <1>1, <2>1, <2>3 DEF Open
    <2> QED
      BY <1>1, <1>2, <1>4, <2>2, <2>3, <2>4 DEF Programmed
  <1>7. t.build = "box" => BoxContent(t, client')
    BY <1>1, <1>2, <1>4, <1>5 DEF ContentOf, BoxContent
  <1>8. ContentOf(t, client')
    BY <1>1, <1>2, <1>5, <1>6, <1>7 DEF ContentOf, Finished
  <1> QED
    BY <1>3, <1>8 DEF KeepsContent

LEMMA FailContent == ASSUME TypeInv, Fail, NEW n, Admitted(n) PROVE ContentOf(n, client')
  BY GotoFields, StageNames, LostContent DEF Fail, Goto

LEMMA FreshContent ==
    ASSUME TypeInv, Fresh, NEW n, Admitted(n), n.build = "second"
    PROVE  ContentOf(n, client')
  BY FreshFields, LostContent

LEMMA AmbiguousContent ==
    ASSUME TypeInv, Ambiguous, NEW n, Admitted(n), n.build = It.build
    PROVE  ContentOf(n, client')
  <1>1. CASE Recovering
    BY <1>1, GotoFields, StageNames, LostContent DEF Ambiguous, Goto, Recovering
  <1>2. CASE ~Recovering
    BY <1>2, FailContent DEF Ambiguous
  <1> QED
    BY <1>1, <1>2

\* An identity request that is answered finds the Box before its session.
LEMMA ProbeContent == ASSUME TypeInv, ContentInv, Probe PROVE KeepsContent
  <1> DEFINE n == Sent("identity", 0)
  <1>1. Programs(n) /\ Admitted(n) /\ client.pc = "probe"
    BY SentPrograms, BusyContent, Numbers DEF Probe
  <1>2. CASE Heard("identity") /\ Goto("start")
    <2>1. client'.pc = "start" /\ client'.wait = 0
      BY <1>2, GotoFields, StageNames DEF Goto
    <2>2. n.mode \in {"identified", "tail"}
      BY <1>2, SentIdentity DEF Heard, Answers
    <2>3. ContentOf(n, client')
      BY <1>1, <2>1, <2>2 DEF ContentOf, RecoveringContent, BoxContent
    <2> QED
      BY <1>1, <2>3 DEF KeepsContent
  <1>3. CASE Retry(LongWait)
    BY <1>1, <1>3, RetryFields, LongWaitType, LostContent DEF KeepsContent
  <1>4. CASE Fail
    BY <1>1, <1>4, FailContent DEF KeepsContent
  <1> QED
    BY <1>2, <1>3, <1>4 DEF Probe

LEMMA StartImageContent == ASSUME TypeInv, ContentInv, StartImage PROVE KeepsContent
  <1> DEFINE n == Sent("start", 0)
  <1>1. Programs(n) /\ Admitted(n) /\ n.build = It.build /\ client.pc = "start"
    BY SentPrograms, SentStart, BusyContent, Numbers DEF StartImage
  <1>2. CASE Heard("start") /\ Goto("first")
    <2>1. client'.pc = "first" /\ client'.wait = 0
      BY <1>2, GotoFields, StageNames DEF Goto
    <2>2. It.build = "box" => It.mode \in {"identified", "tail"}
      BY <1>1 DEF ContentInv, ContentOf, BoxContent
    <2>3. It.build = "box" => n.mode \in {"data", "tail"}
      BY <1>2, <2>2, SentStart DEF Heard
    <2>4. ContentOf(n, client')
      BY <1>1, <2>1, <2>3 DEF ContentOf, RecoveringContent, BoxContent
    <2> QED
      BY <1>1, <2>4 DEF KeepsContent
  <1>3. CASE Recovering /\ \E t \in Nat : Retry(t) \/ GotoAfter(t, "first")
    <2>1. client'.pc \in {"start", "first"}
      BY <1>1, <1>3, RetryFields, GotoFields, StageNames
    <2> QED
      BY <1>1, <1>3, <2>1, LostContent DEF KeepsContent, Recovering
  <1>4. CASE Fail
    BY <1>1, <1>4, FailContent DEF KeepsContent
  <1>5. \/ Heard("start") /\ Goto("first")
        \/ Recovering /\ (Retry(LongWait) \/ Retry(1) \/ GotoAfter(1, "first"))
        \/ Fail
    BY DEF StartImage
  <1> QED
    BY <1>2, <1>3, <1>4, <1>5, LongWaitType

\* The first packet of an image is the first page below the pointer.
LEMMA FirstPacketContent == ASSUME TypeInv, SessionInv, ContentInv, FirstPacket, client.wait = 0 PROVE KeepsContent
  <1> DEFINE n == Sent("data", 0)
  <1>1. client.pc = "first" /\ client.index = 0 /\ (It.mode \in Open => It.pointer = 0)
    BY ItInv DEF FirstPacket, SessionOf
  <1>2. ASSUME Now(n) PROVE Programs(n) /\ Admitted(n) /\ n.build = It.build /\ n.mode = It.mode
    BY <1>1, <1>2, SentPrograms, SentData, BusyContent, Numbers
  <1>3. CASE Heard("data") /\ Now(n) /\ Onward
    <2>1. It.mode \in Open /\ link # "dead"
      BY <1>3 DEF Heard, Answers
    <2>2. client'.pc \in {"data", "end"} /\ client'.wait = 0 /\ client'.heard = 0 /\ client'.target = client.target
      BY <1>3, OnwardFields
    <2>3. Programmed(It, client.target)
      BY <1>1, <2>1, Numbers DEF Programmed, Index
    <2>4. Programmed(n, client.target)
      BY <1>1, <2>1, <2>3, DataProgrammed, Numbers
    <2>5. n.mode = "data" => n.quiet = 0
      BY <1>2, <1>3, <2>1, SentData, Numbers
    <2>6. It.build = "box" => It.mode = "data"
      BY <1>1, <2>1 DEF ContentInv, ContentOf, BoxContent, Open
    <2> HIDE DEF n
    <2>7. ContentOf(n, client')
      BY <1>2, <1>3, <2>2, <2>4, <2>5, <2>6 DEF ContentOf, RecoveringContent, BoxContent
    <2> QED
      BY <1>2, <1>3, <2>7 DEF KeepsContent
  <1>4. CASE Now(n) /\ Ambiguous
    BY <1>2, <1>4, AmbiguousContent DEF KeepsContent
  <1>5. Now(Reload(It)) => LET r == Reload(It) IN
          Programs(r) /\ Admitted(r) /\ r.build = It.build /\ r.mode = It.mode
    BY <1>1, ReloadPrograms, ReloadFields, ItType, BusyContent
  <1>6. CASE Now(Reload(It)) /\ Retry(0)
    <2>1. client'.pc = "first" /\ client'.wait = 0
      BY <1>1, <1>6, RetryFields
    <2>2. It.build = "box" => It.mode \in {"data", "tail"}
      BY <1>1 DEF ContentInv, ContentOf, BoxContent
    <2>3. ContentOf(Reload(It), client')
      BY <1>5, <1>6, <2>1, <2>2 DEF ContentOf, RecoveringContent, BoxContent
    <2> QED
      BY <1>5, <1>6, <2>3 DEF KeepsContent
  <1>7. CASE Now(Reload(It)) /\ Ambiguous
    BY <1>5, <1>7, AmbiguousContent DEF KeepsContent
  <1> QED
    BY <1>3, <1>4, <1>6, <1>7 DEF FirstPacket

\* A later packet of a client that does not recover: of the Box, in its session.
LEMMA LaterPacketContent == ASSUME TypeInv, SessionInv, ContentInv, LaterPacket, client.wait = 0 PROVE KeepsContent
  <1> DEFINE i == client.index
             n == Sent("data", i)
  <1>1. /\ client.pc = "data" /\ It.build # "second" /\ i \in Index /\ i # 0 /\ Admitted(It)
        /\ It.mode \in Open => Synchronous(It, i)
    BY ItInv, ItType, BusyContent DEF LaterPacket, SessionOf, Recovering
  <1>2. It.build = "box" => It.mode = "data" /\ Programmed(It, client.target)
    BY <1>1 DEF ContentInv, ContentOf, BoxContent
  <1>3. n.build = It.build /\ n.mode = It.mode /\ (Now(n) => Programs(n))
    BY <1>1, SentData, SentPrograms
  <1>4. It.build = "box" => Programmed(n, client.target)
    BY <1>1, <1>2, DataProgrammed DEF Open
  <1>5. LET r == Reload(It) IN
        /\ r.build = It.build /\ r.mode = It.mode /\ r.flash = It.flash /\ r.pointer = It.pointer
        /\ Now(r) => Programs(r)
    BY ReloadFields, ReloadPrograms, ItType
  <1> HIDE DEF n
  <1>6. It.build = "box" => Programmed(Reload(It), client.target)
    BY <1>2, <1>5 DEF Programmed
  <1>7. ASSUME NEW b \in {n, Reload(It)}, Now(b), client'.pc \in {"data", "end"}, client'.target = client.target,
               It.build = "box" => client'.wait = 0
        PROVE  KeepsContent
    <2>1. b.build = It.build /\ b.mode = It.mode /\ Programs(b) /\ (It.build = "box" => Programmed(b, client.target))
      BY <1>3, <1>4, <1>5, <1>6, <1>7
    <2>2. ContentOf(b, client')
      BY <1>1, <1>2, <1>7, <2>1 DEF ContentOf, BoxContent, Admitted
    <2> QED
      BY <2>1, <2>2 DEF KeepsContent
  <1>8. ASSUME NEW b \in {n, Reload(It)}, Now(b), Fail PROVE KeepsContent
    <2>1. Programs(b) /\ Admitted(b)
      BY <1>1, <1>3, <1>5, <1>8 DEF Admitted
    <2> QED
      BY <1>8, <2>1, FailContent DEF KeepsContent
  <1>9. CASE Now(n) /\ Onward
    BY <1>7, <1>9, OnwardFields
  <1>10. CASE (Now(n) \/ Now(Reload(It))) /\ Retry(LongWait)
    <2>1. client'.pc = "data" /\ client'.target = client.target /\ client'.wait = LongWait
      BY <1>1, <1>10, RetryFields, LongWaitType
    <2>2. It.build = "box" => LongWait = 0
      BY DEF LongWait
    <2> QED
      BY <1>7, <1>10, <2>1, <2>2
  <1>11. CASE (Now(n) \/ Now(Reload(It))) /\ Fail
    BY <1>8, <1>11
  <1> QED
    BY <1>9, <1>10, <1>11 DEF LaterPacket, n

\* An end that is acknowledged to its session finds every page programmed.
LEMMA EndHolds ==
    ASSUME TypeInv, SessionInv, client.pc = "end", It.mode \in Open, Programmed(It, client.target), link # "dead",
           NEW i \in Index
    PROVE  LET n == Sent("end", i) IN n.mode = "app" /\ Holds(n, client.target)
  <1>1. It.pointer = Pages
    BY ItInv DEF SessionOf
  <1>2. Holds(It, client.target)
    BY <1>1, Numbers DEF Programmed, Holds, Index
  <1> QED
    BY <1>2, SentEnd DEF Holds

LEMMA EndContent == ASSUME TypeInv, SessionInv, ContentInv, End PROVE KeepsContent
  <1> DEFINE n == Sent("end", 0)
  <1>1. Programs(n) /\ Admitted(n) /\ n.build = It.build /\ client.pc = "end" /\ It.build # "second"
    BY SentPrograms, SentEnd, BusyContent, Numbers DEF End, Recovering
  <1>2. CASE Heard("end") /\ Goto("done")
    <2>1. client'.pc = "done" /\ client'.target = client.target
      BY <1>2, GotoFields, StageNames DEF Goto
    <2>2. It.build = "box" => n.mode = "app" /\ Holds(n, client.target)
      <3>1. It.build = "box" => It.mode = "data" /\ Programmed(It, client.target)
        BY <1>1 DEF ContentInv, ContentOf, BoxContent
      <3> QED
        BY <1>1, <1>2, <3>1, EndHolds, Numbers DEF Heard, Open
    <2>3. It.build \in {"first", "box"}
      BY <1>1, BusyContent
    <2> HIDE DEF n
    <2>4. ContentOf(n, client')
      BY <1>1, <2>1, <2>2, <2>3 DEF ContentOf, RecoveringContent, BoxContent
    <2> QED
      BY <1>1, <2>4 DEF KeepsContent
  <1>3. CASE Fail
    BY <1>1, <1>3, FailContent DEF KeepsContent
  <1> QED
    BY <1>2, <1>3 DEF End

\* What a recovering client believes of its session, while it trusts it.
LEMMA RecoveringHolds ==
    ASSUME TypeInv, SessionInv, ContentInv, client.wait = 0, client.pc \in {"data", "end"}, Recovering, It.mode \in Open,
           Trusts(client)
    PROVE  Programmed(It, client.target) /\ (It.mode = "data" => It.quiet <= client.heard)
  <1>1. Programmed(It, client.target) /\ (It.mode = "data" => It.quiet + client.wait <= client.heard)
    BY DEF ContentInv, ContentOf, RecoveringContent, Recovering
  <1> QED
    BY <1>1, ItInv, BoardNumbers

LEMMA NotSilent == ASSUME TypeInv PROVE Silent <=> ~(client.heard < Stale)
  BY ItType, Numbers DEF Silent, Stale, TypeInv, IsClient

LEMMA HoldAsksContent == ASSUME TypeInv, SessionInv, ContentInv, HoldAsks, client.wait = 0 PROVE KeepsContent
  <1> DEFINE i == client.index
             n == Sent(Asked, i)
  <1>1. /\ client.pc \in {"data", "end"} /\ Recovering /\ Heard(Asked) /\ Now(n) /\ Accepted(Silent)
        /\ i \in Index /\ Asked \in {"data", "end"}
    BY ItType DEF HoldAsks, Asked
  <1>2. Programs(n) /\ Admitted(n) /\ n.build = "second"
    BY <1>1, SentPrograms, BusyContent DEF Recovering
  <1>3. It.mode \in Open /\ link # "dead"
    BY <1>1 DEF Heard, Answers
  <1>4. CASE Goto("late")
    BY <1>2, <1>4, GotoFields, StageNames, LostContent DEF Goto, KeepsContent
  <1>5. CASE client.pc = "end" /\ ~Silent /\ Goto("done")
    <2>1. client'.pc = "done" /\ client'.target = client.target /\ client'.fooled = client.fooled
      BY <1>5, GotoFields, StageNames DEF Goto
    <2>2. ~client.fooled => Programmed(It, client.target)
      BY <1>1, <1>3, <1>5, RecoveringHolds, NotSilent DEF Trusts
    <2>3. Asked = "end"
      BY <1>5 DEF Asked
    <2>4. ~client.fooled => n.mode = "app" /\ Holds(n, client.target)
      BY <1>1, <1>3, <1>5, <2>2, <2>3, EndHolds
    <2> HIDE DEF n
    <2>5. ContentOf(n, client')
      BY <1>2, <2>1, <2>4 DEF ContentOf, RecoveringContent
    <2> QED
      BY <1>2, <2>5 DEF KeepsContent
  <1>6. CASE client.pc = "data" /\ ~Silent /\ Onward
    <2>1. /\ client'.pc \in {"data", "end"} /\ client'.wait = 0 /\ client'.heard = 0
          /\ client'.target = client.target /\ client'.fooled = client.fooled
      BY <1>6, OnwardFields
    <2>2. Asked = "data" /\ i # 0 /\ Synchronous(It, i)
      BY <1>3, <1>6, ItInv DEF Asked, SessionOf
    <2>3. ~client.fooled => Programmed(n, client.target)
      BY <1>1, <1>3, <1>6, <2>2, RecoveringHolds, NotSilent, DataProgrammed DEF Trusts
    <2>4. n.mode = "data" => n.quiet = 0
      BY <1>1, <1>3, <2>2, SentData
    <2> HIDE DEF n
    <2>5. ContentOf(n, client')
      BY <1>2, <2>1, <2>3, <2>4 DEF ContentOf, RecoveringContent, Trusts
    <2> QED
      BY <1>2, <2>5 DEF KeepsContent
  <1> QED
    BY <1>1, <1>4, <1>5, <1>6 DEF Accepted

\* A rejection renews the session; one that comes too late fools the client.
LEMMA HoldRejectedContent == ASSUME TypeInv, SessionInv, ContentInv, HoldRejected, client.wait = 0 PROVE KeepsContent
  <1> DEFINE r == Reload(It)
  <1>1. /\ client.pc \in {"data", "end"} /\ Recovering /\ It.mode \in Open /\ Now(r)
        /\ client' = [client EXCEPT !.heard = 0, !.fooled = @ \/ Silent]
    BY DEF HoldRejected, Damaged
  <1>2. /\ client'.pc = client.pc /\ client'.wait = 0 /\ client'.heard = 0 /\ client'.target = client.target
        /\ client'.fooled = (client.fooled \/ Silent)
    BY <1>1, ItInv DEF IsClient
  <1>3. /\ r.build = "second" /\ r.flash = It.flash /\ r.pointer = It.pointer /\ r.mode = It.mode
        /\ r.mode = "data" => r.quiet = 0
        /\ Programs(r) /\ Admitted(r)
    BY <1>1, ReloadFields, ReloadPrograms, ItType DEF Recovering, Admitted
  <1>4. ~client'.fooled => Programmed(It, client.target)
    BY <1>1, <1>2, RecoveringHolds, NotSilent DEF Trusts
  <1> HIDE DEF r
  <1>5. ContentOf(r, client')
    BY <1>1, <1>2, <1>3, <1>4 DEF ContentOf, RecoveringContent, Trusts, Programmed
  <1> QED
    BY <1>3, <1>5 DEF KeepsContent

\* A round without an answer: its time is counted twice, by the session and by
\* the client, and a packet that arrived all the same was the right one.
LEMMA HoldWaitsContent == ASSUME TypeInv, SessionInv, ContentInv, HoldWaits, client.wait = 0 PROVE KeepsContent
  <1>1. client.pc \in {"data", "end"} /\ Recovering /\ client.index \in Index
    BY ItType DEF HoldWaits
  <1>2. PICK asks \in BOOLEAN, t \in {0, 1} :
          /\ ~Silent => asks
          /\ Now(Queried(asks))
          /\ Fresh \/ Round(t)
    BY WaitsFields
  <1> DEFINE b == Packeted(asks)
             n == Queried(asks)
  <1>3. /\ IsBoard(n) /\ n.build = "second" /\ n.slow = It.slow /\ n.pointer = b.pointer /\ n.flash = b.flash
        /\ n.mode = IF b.mode = "startup" /\ link # "dead" THEN "identified" ELSE b.mode
        /\ n.quiet \in {0, b.quiet}
    BY <1>1, QueriedFields DEF Recovering
  <1>4. Programs(n) /\ Admitted(n)
    BY <1>1, <1>2, <1>3, NowPrograms DEF Recovering, Admitted
  <1>5. CASE Fresh
    BY <1>3, <1>4, <1>5, FreshContent DEF KeepsContent
  <1>6. CASE Round(t)
    <2>1. /\ client'.pc = client.pc /\ client'.wait = t /\ client'.target = client.target
          /\ client'.fooled = client.fooled
          /\ client'.heard = IF client.heard < Stale THEN client.heard + t ELSE client.heard
      BY <1>6, RoundFields
    <2>2. client.heard \in Nat /\ Stale \in Nat /\ It.quiet \in Nat
      BY ItInv, ClientNumbers, BoardNumbers, Numbers DEF Stale
    <2>3. ASSUME n.mode \in Open, Trusts(client')
          PROVE  Programmed(n, client.target) /\ (n.mode = "data" => n.quiet + t <= client'.heard)
      <3>1. Trusts(client) /\ client.heard < Stale /\ asks
        BY <1>2, <2>1, <2>2, <2>3, NotSilent DEF Trusts
      <3>2. b = Sent(client.pc, client.index) /\ b.mode \in Open
        BY <1>1, <1>3, <2>3, <3>1, NotSilent DEF Packeted, Asked, Open
      <3>3. It.mode \in Open /\ b.mode = It.mode /\ b.quiet \in {0, It.quiet} /\ (client.pc = "end" => b.pointer = It.pointer /\ b.flash = It.flash)
        BY <1>1, <3>2, SentData, SentEnd DEF Open
      <3>4. Programmed(It, client.target) /\ (It.mode = "data" => It.quiet <= client.heard)
        BY <1>1, <3>1, <3>3, RecoveringHolds
      <3>5. Programmed(b, client.target)
        <4>1. CASE client.pc = "data"
          <5>1. client.index # 0 /\ Synchronous(It, client.index)
            BY <3>3, <4>1, ItInv DEF SessionOf
          <5> QED
            BY <1>1, <3>2, <3>3, <3>4, <4>1, <5>1, DataProgrammed
        <4>2. CASE client.pc = "end"
          BY <3>3, <3>4, <4>2 DEF Programmed
        <4> QED
          BY <1>1, <4>1, <4>2
      <3> HIDE DEF b, n
      <3>6. Programmed(n, client.target)
        BY <1>3, <3>5 DEF Programmed
      <3>7. n.mode = "data" => n.quiet + t <= client'.heard
        BY <1>3, <2>1, <2>2, <3>1, <3>3, <3>4
      <3> QED
        BY <3>6, <3>7
    <2> HIDE DEF b, n
    <2>4. ContentOf(n, client')
      BY <1>1, <1>3, <1>4, <2>1, <2>3 DEF ContentOf, RecoveringContent
    <2> QED
      BY <1>4, <2>4 DEF KeepsContent, n
  <1> QED
    BY <1>2, <1>5, <1>6

LEMMA HoldEndsContent == ASSUME TypeInv, ContentInv, HoldEnds PROVE KeepsContent
  <1>1. Programs(It) /\ Admitted(It) /\ (Goto("unconfirmed") \/ Goto("failed"))
    BY StayPrograms, BusyContent DEF HoldEnds
  <1> QED
    BY <1>1, GotoFields, StageNames, LostContent DEF Goto, KeepsContent

LEMMA LateProbeContent == ASSUME TypeInv, ContentInv, LateProbe PROVE KeepsContent
  <1> DEFINE n == Sent("identity", 0)
  <1>1. client.pc = "late" /\ Programs(n) /\ Admitted(n) /\ n.build = "second"
    BY SentPrograms, BusyContent, Numbers DEF LateProbe, ContentInv, ContentOf
  <1> HIDE DEF n
  <1>2. client'.pc \in {"start", "failed", "late", "sleep"}
    BY <1>1, FreshFields, RetryFields, GotoFields, StageNames DEF LateProbe, Goto
  <1> QED
    BY <1>1, <1>2, LostContent DEF KeepsContent

LEMMA RestartingContent ==
    ASSUME TypeInv, ContentInv, AwaitReset \/ Restart \/ RestartFails
    PROVE  KeepsContent
  <1>1. client.pc \in {"sleep", "restart"}
    BY DEF AwaitReset, Restart, RestartFails
  <1>2. client'.pc \in {"restart", "first", "failed", "sleep"}
    BY AwaitResetFields, RestartFields, RestartsFields, NextRoundFields, RestartFailsFields
  <1>3. (\E n : Programs(n)) /\ It.build = "second"
    BY <1>1, AwaitResetTypes, RestartTypes, RestartFailsTypes DEF ClientTypes, ContentInv, ContentOf
  <1>4. PICK n : Programs(n)
    BY <1>3
  <1>5. n.build = "second" /\ Admitted(n)
    BY <1>1, <1>3, <1>4, BusyContent
  <1> QED
    BY <1>2, <1>4, <1>5, LostContent DEF KeepsContent

LEMMA ClientStepContent ==
    ASSUME TypeInv, SessionInv, ContentInv, ClientStep
    PROVE  ContentOf(It, client)' /\ \A b \in Boards : board'[b].build = board[b].build
  <1>1. KeepsContent
    BY PassContent, ProbeContent, StartImageContent, FirstPacketContent, LaterPacketContent, EndContent,
       HoldAsksContent, HoldRejectedContent, HoldWaitsContent, HoldEndsContent, LateProbeContent, RestartingContent
    DEF ClientStep
  <1>2. PICK n : Programs(n) /\ ContentOf(n, client')
    BY <1>1 DEF KeepsContent
  <1>3. client'.on = client.on
    BY ClientStepTypes DEF ClientTypes, GoesOn
  <1>4. It' = n /\ \A b \in Boards \ {client.on} : board'[b] = board[b]
    BY <1>2, <1>3, ProgramsTyped
  <1>5. board'[client.on] = n /\ n.build = board[client.on].build
    BY <1>2, <1>3, <1>4 DEF It, Programs
  <1> QED
    BY <1>2, <1>4, <1>5

LEMMA ContentInit == Init => ContentInv
  <1> SUFFICES ASSUME Init PROVE ContentInv
    OBVIOUS
  <1>1. client.pc = "idle" /\ op = Idle /\ backups = {}
    BY NoTransferFields, OpNames DEF Init
  <1> QED
    BY <1>1, IdleFields DEF ContentInv, AdmittedInv, ContentOf, RecoveringContent, BoxContent

LEMMA IdleContent == ASSUME NEW b, NEW c, c.pc = "idle" PROVE ContentOf(b, c)
  BY DEF ContentOf, RecoveringContent, BoxContent

\* No step changes the bootloader of a board.
SameBuilds == \A b \in Boards : board'[b].build = board[b].build

LEMMA AdmittedKept ==
    ASSUME TypeInv, AdmittedInv, SameBuilds, backups' = backups, op'.plan \subseteq Boards, op'.board \in Boards,
           op'.kind = "rescue" => \A b \in op'.plan : Admitted(board[b]),
           op'.pc \in {"record", "transfer"} => Admitted(board[op'.board])
    PROVE  AdmittedInv'
  <1>1. backups \subseteq Boards
    BY DEF TypeInv, Boxes
  <1> QED
    BY <1>1 DEF AdmittedInv, SameBuilds, Admitted

\* A step of an operation that leaves its plan and its board.
LEMMA AdmittedStage ==
    ASSUME TypeInv, AdmittedInv, SameBuilds, backups' = backups, IsOp(op'), op'.kind = op.kind, op'.plan \subseteq op.plan,
           op'.pc \in {"record", "transfer"} => op'.board = op.board /\ op.pc \in {"record", "transfer"}
    PROVE  AdmittedInv'
  <1>1. op'.plan \subseteq Boards /\ op'.board \in Boards
    BY DEF IsOp
  <1> QED
    BY <1>1, AdmittedKept DEF AdmittedInv

LEMMA AdmittedIdle == ASSUME TypeInv, AdmittedInv, SameBuilds, backups' = backups, op' = Idle PROVE AdmittedInv'
  BY AdmittedKept, IdleFields DEF IsOp

LEMMA AdmittedGives ==
    ASSUME TypeInv, AdmittedInv, SameBuilds, backups' = backups, Gives(op) \/ Gives([op EXCEPT !.failed = TRUE])
    PROVE  AdmittedInv'
  <1>1. \/ op' = Idle
        \/ IsOp(op') /\ op'.kind = op.kind /\ op'.plan = op.plan /\ op'.pc = "start"
    BY FailedFields, GivesFields DEF TypeInv
  <1> QED
    BY <1>1, AdmittedIdle, AdmittedStage

LEMMA BeginFrame ==
    ASSUME FlashThr \/ FlashBoxes("install") \/ FlashBoxes("restore") \/ Rescue
    PROVE  UNCHANGED <<board, client, backups>>
  <1>1. FlashThr => UNCHANGED <<board, client, backups>>
    BY DEF FlashThr, Starts
  <1>2. \A kind : FlashBoxes(kind) => UNCHANGED <<board, client, backups>>
    BY DEF FlashBoxes, Starts
  <1>3. Rescue => UNCHANGED <<board, client, backups>>
    BY DEF Rescue, Starts
  <1> QED
    BY <1>1, <1>2, <1>3

LEMMA AdmittedBegins ==
    ASSUME TypeInv, AdmittedInv, FlashThr \/ FlashBoxes("install") \/ FlashBoxes("restore") \/ Rescue
    PROVE  AdmittedInv'
  <1>1. SameBuilds /\ backups' = backups
    <2>1. board' = board /\ backups' = backups
      BY BeginFrame
    <2> QED
      BY <2>1 DEF SameBuilds
  <1>2. CASE FlashThr
    <2>1. Starts("thr", {Thr}, active) /\ {Thr} \in SUBSET Boards /\ active \in SUBSET Services
      BY <1>2, OpNames DEF FlashThr, TypeInv
    <2>2. IsOp(op') /\ op'.kind = "thr" /\ op'.pc = "stop"
      BY <2>1, StartsFields, OpNames
    <2> QED
      BY <1>1, <2>2, AdmittedKept DEF IsOp
  <1>3. ASSUME NEW kind \in {"install", "restore"}, FlashBoxes(kind) PROVE AdmittedInv'
    <2>1. PICK plan \in SUBSET Boards : Starts(kind, plan, active)
      BY <1>3 DEF FlashBoxes, Boxes
    <2>2. IsOp(op') /\ op'.kind = kind /\ op'.pc = "stop"
      BY <2>1, StartsFields, OpNames DEF TypeInv
    <2> QED
      BY <1>1, <2>2, AdmittedKept DEF IsOp
  <1>4. CASE Rescue
    <2>1. PICK b \in Boxes : CanRescue(b) /\ Starts("rescue", {b}, RescueServices)
      BY <1>4 DEF Rescue
    <2>2. RescueServices \in SUBSET Services /\ {b} \in SUBSET Boards
      BY ToolNames DEF RescueServices, TypeInv, RecordsTyped, IsRecord, Boxes
    <2>3. IsOp(op') /\ op'.pc = "stop" /\ op'.plan = {b}
      BY <2>1, <2>2, StartsFields, OpNames
    <2>4. Admitted(board[b])
      BY <2>1 DEF CanRescue, AdmittedInv
    <2> QED
      BY <1>1, <2>3, <2>4, AdmittedKept DEF IsOp
  <1> QED
    BY <1>2, <1>3, <1>4

\* A board is recorded after its snapshot, or to be rescued from its backup.
LEMMA AdmittedSteps ==
    ASSUME TypeInv, AdmittedInv, Step, SameBuilds
    PROVE  AdmittedInv'
  <1>1. IsOp(op)
    BY DEF TypeInv
  <1>2. CASE StopService \/ StartService
    <2>1. PICK s \in Services : op' = [op EXCEPT !.todo = @ \ {s}]
      BY <1>1, <1>2 DEF StopService, StartService, IsOp
    <2>2. op.pc \in {"stop", "start"} /\ backups' = backups
      BY <1>2 DEF StopService, StartService
    <2> QED
      BY <2>1, <2>2, TodoFields, AdmittedStage
  <1>3. CASE Complete \/ Incomplete
    BY <1>3, AdmittedIdle DEF Complete, Incomplete
  <1>4. CASE NextBoard
    <2>1. backups' = backups
      BY <1>4 DEF NextBoard, transferVars
    <2>2. CASE Gives(op)
      BY <2>1, <2>2, AdmittedGives
    <2>3. CASE \E b \in op.plan :
                 /\ IsOp(op') /\ op'.pc = IF op.kind = "rescue" THEN "record" ELSE "snapshot"
                 /\ op'.board = b /\ op'.plan = op.plan \ {b} /\ op'.services = op.services /\ op'.kind = op.kind
                 /\ op'.pending = op.pending
      <3>1. op'.kind = "rescue" => \A b \in op'.plan \cup {op'.board} : Admitted(board[b])
        BY <2>3 DEF AdmittedInv
      <3> QED
        BY <2>1, <2>3, <3>1, AdmittedKept DEF IsOp
    <2> QED
      BY <1>4, <2>2, <2>3, NextBoardFields
  <1>5. CASE Snapshot
    <2>1. PICK pc \in {"stop", "record"} : op' = [op EXCEPT !.pc = pc]
      BY <1>5 DEF Snapshot, Skip
    <2>2. IsOp(op') /\ op'.pc = pc /\ op'.kind = op.kind /\ op'.plan = op.plan /\ op'.board = op.board
      BY <2>1, StageFields, OpNames
    <2>3. \A b \in backups' : b \in backups \/ (b = op.board /\ Admitted(board[b]))
      BY <1>5 DEF Snapshot
    <2>4. pc = "record" => Admitted(board[op.board])
      <3>1. CASE ~Admitted(board[op.board])
        <4>1. op'.pc = "stop"
          BY <1>1, <1>5, <3>1, OpNames, StageFields DEF Snapshot, Skip
        <4> QED
          BY <2>2, <4>1
      <3> QED
        BY <3>1
    <2>5. board' = board /\ op.board \in Boards
      BY <1>1, <1>5 DEF Snapshot, transferVars, IsOp
    <2> QED
      BY <2>1, <2>2, <2>3, <2>4, <2>5 DEF AdmittedInv, Admitted
  <1>6. CASE SnapshotFails \/ StopFails
    BY <1>6, AdmittedGives DEF SnapshotFails, StopFails, Fails
  <1>7. CASE Program
    BY <1>7, ProgramFields, AdmittedStage DEF Program
  <1>8. CASE Transferring
    <2>1. op' = op /\ backups' = backups
      BY <1>8 DEF Transferring
    <2> QED
      BY <1>1, <2>1, AdmittedStage
  <1>9. CASE Readback
    BY <1>9, ReadbackFields, AdmittedStage DEF Readback
  <1>10. CASE Unverified
    BY <1>10, AdmittedGives DEF Unverified
  <1> QED
    BY <1>2, <1>3, <1>4, <1>5, <1>6, <1>7, <1>8, <1>9, <1>10 DEF Step

\* Once a transfer is over, its board goes on by itself.
LEMMA SettlingContent ==
    ASSUME NEW b, NEW c, NEW n, ContentOf(b, c), c.pc \in Finished, n = b \/ (b.mode # "app" /\ n.build = b.build)
    PROVE  ContentOf(n, c)
  BY DEF ContentOf, RecoveringContent, BoxContent, Finished, Admitted

LEMMA ContentNext == ServiceInv /\ SessionInv /\ ContentInv /\ [Next]_vars => ContentInv'
  <1> SUFFICES ASSUME ServiceInv, SessionInv, ContentInv, [Next]_vars PROVE ContentInv'
    OBVIOUS
  <1>1. TypeInv /\ AdmittedInv /\ IsOp(op) /\ \A b \in Boards : IsBoard(board[b])
    BY DEF ServiceInv, ContentInv, TypeInv, BoardsTyped
  <1>2. CASE UNCHANGED vars
    BY <1>2 DEF vars, ContentInv, AdmittedInv, It
  <1>3. CASE FlashThr \/ FlashBoxes("install") \/ FlashBoxes("restore") \/ Rescue
    <2>1. UNCHANGED <<board, client>>
      BY <1>3, BeginFrame
    <2> QED
      BY <1>1, <1>3, <2>1, AdmittedBegins DEF ContentInv, It
  <1>4. CASE Transferring
    <2>1. ContentOf(It, client)' /\ SameBuilds
      BY <1>1, <1>4, ClientStepContent DEF Transferring, SameBuilds
    <2> QED
      BY <1>1, <1>4, <2>1, AdmittedSteps DEF ContentInv, Step
  <1>5. CASE Program
    <2>1. op.board \in Boards /\ client' = Transfer(op.board, Image(op.kind)) /\ Image(op.kind) \in Images
      BY <1>1, <1>5, ProgramFields
    <2>2. client'.pc = "probe" /\ client'.on = op.board
      BY <2>1, TransferFields
    <2>3. PICK entered \in Entered(board[op.board]) : board' = [board EXCEPT ![op.board] = entered]
      BY <1>1, <1>5, ProgramFields
    <2>4. entered.build = board[op.board].build
      BY <1>1, <2>1, EnteredFields
    <2>5. SameBuilds /\ It' = entered
      BY <1>1, <2>1, <2>2, <2>3, <2>4 DEF TypeInv, BoardsTyped, SameBuilds, It
    <2>6. Admitted(entered)
      BY <1>1, <1>5, <2>4 DEF AdmittedInv, Program, Admitted
    <2>7. ContentOf(It, client)'
      BY <2>2, <2>5, <2>6, LostContent
    <2> QED
      BY <1>1, <1>5, <2>5, <2>7, AdmittedSteps DEF ContentInv, Step
  <1>6. CASE Readback \/ Unverified
    <2>1. board' = board /\ client' = NoTransfer(op.board) /\ op.board \in Boards
      BY <1>1, <1>6 DEF Readback, Unverified, IsOp
    <2>2. ContentOf(It, client)' /\ SameBuilds
      BY <2>1, NoTransferFields, IdleContent DEF SameBuilds
    <2> QED
      BY <1>1, <1>6, <2>2, AdmittedSteps DEF ContentInv, Step
  <1>7. CASE Step /\ UNCHANGED <<board, client>>
    BY <1>1, <1>7, AdmittedSteps DEF ContentInv, SameBuilds, It
  <1>8. CASE Interrupt \/ Kill
    <2>1. board' = board /\ client'.pc = "idle" /\ backups' = backups
          /\ (op' = Idle \/ Gives([op EXCEPT !.failed = TRUE]))
      BY <1>1, <1>8, InterruptFields
    <2> QED
      BY <1>1, <2>1, AdmittedIdle, AdmittedGives, IdleContent DEF ContentInv, SameBuilds
  <1>9. CASE PowerCycle
    <2>1. /\ board' = [b \in Boards |-> Reset(board[b])] /\ client'.pc = "idle" /\ op' = Idle /\ backups' = backups
      BY <1>1, <1>9, ItType, NoTransferFields DEF PowerCycle
    <2>2. SameBuilds
      BY <1>1, <2>1, ResetFields DEF SameBuilds
    <2> QED
      BY <1>1, <2>1, <2>2, AdmittedIdle, IdleContent DEF ContentInv
  <1>10. CASE BoardTick
    <2>1. PICK b \in Boards : ~Settled(board[b]) /\ board' = [board EXCEPT ![b] = Tick(board[b])]
      BY <1>10 DEF BoardTick
    <2>2. SameBuilds
      BY <1>1, <2>1, TickFields DEF TypeInv, BoardsTyped, SameBuilds
    <2>3. op' = op /\ backups' = backups /\ client' = client /\ client.pc \in Finished
      BY <1>10 DEF BoardTick, InProgress
    <2>4. AdmittedInv'
      BY <1>1, <2>2, <2>3, AdmittedStage
    <2>5. It' = It \/ (It.mode # "app" /\ It'.build = It.build)
      BY <1>1, <2>1, <2>2, <2>3, ItType, TickFields DEF It, Settled, TypeInv, BoardsTyped, SameBuilds
    <2>6. ContentOf(It', client')
      <3>1. ContentOf(It, client)
        BY DEF ContentInv
      <3> QED
        BY <2>3, <2>5, <3>1, SettlingContent
    <2> QED
      BY <2>4, <2>6 DEF ContentInv
  <1>11. CASE TransferLink
    BY <1>11 DEF TransferLink, LinkFails, LinkReturns, ContentInv, AdmittedInv, It
  <1>12. Step => UNCHANGED <<board, client>> \/ Program \/ Transferring \/ Readback \/ Unverified
    BY DEF Step, StopService, StartService, Complete, Incomplete, NextBoard, Snapshot, SnapshotFails, StopFails, Fails,
           transferVars
  <1> QED
    BY <1>2, <1>3, <1>4, <1>5, <1>6, <1>7, <1>8, <1>9, <1>10, <1>11, <1>12 DEF Next

\* A transfer that was acknowledged to its end, to the Box client or the
\* recovering client that nothing fooled, left the whole image on its board.
THEOREM AcknowledgedIsWhole == Spec => []DoneMeansWhole
  <1>1. ContentInv => DoneMeansWhole
    BY DEF ContentInv, ContentOf, DoneMeansWhole, Acknowledged, It
  <1> QED
    BY <1>1, ServiceInit, ServiceNext, SessionInit, SessionNext, ContentInit, ContentNext, PTL DEF Spec
=============================================================================
