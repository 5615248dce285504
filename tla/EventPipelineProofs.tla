------------------------- MODULE EventPipelineProofs -------------------------
(***************************************************************************)
(* The safety of EventPipeline, for any transactions, streams, size of the *)
(* pool of database connections, and number of starts.                     *)
(*                                                                         *)
(* A delivery is in one place at a time: in an inbox, with a handler task, *)
(* with the database, or in the table.  That is Travels and Places below,  *)
(* on which the properties of EventPipeline rest.                          *)
(***************************************************************************)
EXTENDS EventPipeline, TransactionsProofs

\* On its way to the handler an update is read once from each stream.
Travels ==
    /\ dispatched \subseteq happened \X Conn
    /\ \A c \in Conn : \A n \in DOMAIN inbox[c] :
          /\ inbox[c][n] \in happened
          /\ <<inbox[c][n], c>> \notin dispatched
    /\ \A c \in Conn : \A m, n \in DOMAIN inbox[c] :
          inbox[c][m] = inbox[c][n] => m = n

\* From there it is in one place at a time.
Places ==
    /\ spawned \cup inserting \cup orphans \subseteq dispatched
    /\ spawned \cap inserting = {}
    /\ spawned \cap orphans = {}
    /\ inserting \cap orphans = {}
    /\ \A n \in DOMAIN rows :
          rows[n].of \in dispatched \ (spawned \cup inserting \cup orphans)

\* What reaches the database is wanted.
Chosen ==
    /\ inserting \cup orphans \subseteq Wanted \X Conn
    /\ \A n \in DOMAIN rows : rows[n].of \in Wanted \X Conn

\* Streams ask for the filter only once the subscription is registered, which
\* a program that is down or being set up does not have.
Asked ==
    /\ requested # {} => subscription = "registered"
    /\ stage \in {"down", "setup"} => subscription = "none"

IInv ==
    /\ TypeOK
    /\ Travels
    /\ Places
    /\ Chosen
    /\ Asked
    /\ OneRowPerDelivery
    /\ NothingForgotten
    /\ MarkedStayInactive
    /\ RegisteredBeforeCarried

-----------------------------------------------------------------------------
(* Types.                                                                  *)

LEMMA InsertedType ==
    ASSUME NEW d \in Delivery, rows \in Seq(Row)
    PROVE  Inserted(d) \in Seq(Row)
  BY DEF Inserted, Row

LEMMA MarkRowsType ==
    ASSUME rows \in Seq(Row), MarkRows
    PROVE  rows' \in Seq(Row) /\ marked' \in Nat
<1>1. DOMAIN rows = 1..Len(rows) /\ Len(rows) \in Nat
  OBVIOUS
<1>2. \A n \in DOMAIN rows : [rows[n] EXCEPT !.active = FALSE] \in Row
  <2>1. SUFFICES ASSUME NEW n \in DOMAIN rows
                 PROVE  [rows[n] EXCEPT !.active = FALSE] \in Row
    OBVIOUS
  <2>2. rows[n] \in Row
    BY ElementType
  <2> QED
    BY <2>2 DEF Row
<1>3. rows' = [n \in 1..Len(rows) |-> [rows[n] EXCEPT !.active = FALSE]]
  BY <1>1 DEF MarkRows
<1>4. rows' \in [1..Len(rows) -> Row]
  BY <1>1, <1>2, <1>3
<1>5. rows' \in Seq(Row)
  BY <1>1, <1>4
<1> QED
  BY <1>1, <1>5 DEF MarkRows

LEMMA InitType == Init => TypeOK
<1> SUFFICES ASSUME Init PROVE TypeOK
  OBVIOUS
<1>1. [c \in Conn |-> <<>>] \in [Conn -> Seq(Update)]
  OBVIOUS
<1>2. confirmed \in BOOLEAN /\ orphanMark \in BOOLEAN
  BY DEF Init
<1>3. rows \in Seq(Row)
  BY DEF Init
<1> QED
  BY <1>1, <1>2, <1>3 DEF Init, StreamInit, TypeOK, Stage

LEMMA ProgramType ==
    ASSUME TypeOK, Program
    PROVE  TypeOK'
<1>1. CASE Start
  <2>1. starts' \in Nat
    BY <1>1 DEF TypeOK, Start
  <2>2. confirmed' \in BOOLEAN
    BY <1>1, Zenon DEF Start
  <2> QED
    BY <1>1, <2>1, <2>2 DEF TypeOK, Stage, Start, streamVars, taskVars,
                            tableVars, historyVars
<1>2. CASE Setup \/ CtrlC
  BY <1>2 DEF TypeOK, Stage, Setup, Accept, CtrlC, streamVars, taskVars,
              tableVars, historyVars
<1>3. CASE Exit
  BY <1>3 DEF TypeOK, Stage, Exit, ProcessEnds
<1>4. CASE Crash
  <2>1. confirmed' \in BOOLEAN /\ orphanMark' \in BOOLEAN
    BY <1>4, Zenon DEF Crash
  <2> QED
    BY <1>4, <2>1 DEF TypeOK, Stage, Crash, ProcessEnds
<1> QED
  BY <1>1, <1>2, <1>3, <1>4 DEF Program

LEMMA MarkType ==
    ASSUME TypeOK, Mark \/ OrphanMarkEnds
    PROVE  TypeOK'
<1>1. CASE MarkStarts \/ MarkSucceeds \/ MarkFails
  BY <1>1 DEF TypeOK, Stage, MarkStarts, MarkSucceeds, MarkFails, streamVars,
              taskVars, tableVars, historyVars
<1>2. CASE MarkTakesEffect
  <2>1. rows' \in Seq(Row) /\ marked' \in Nat
    BY <1>2, MarkRowsType DEF TypeOK, MarkTakesEffect
  <2> QED
    BY <1>2, <2>1 DEF TypeOK, Stage, MarkTakesEffect, streamVars, taskVars,
                      historyVars
<1>3. CASE OrphanMarkEnds
  <2>1. rows' \in Seq(Row) /\ marked' \in Nat
    BY <1>3, MarkRowsType DEF TypeOK, OrphanMarkEnds
  <2> QED
    BY <1>3, <2>1 DEF TypeOK, OrphanMarkEnds, programVars, streamVars,
                      taskVars, historyVars
<1> QED
  BY <1>1, <1>2, <1>3 DEF Mark

LEMMA StreamType ==
    ASSUME TypeOK, NEW c \in Conn, OpenStream(c) \/ StreamStops(c)
    PROVE  TypeOK'
<1>1. CASE OpenStream(c)
  BY <1>1 DEF TypeOK, OpenStream, Open, Requesting, StreamSame, programVars,
              taskVars, tableVars, historyVars
<1>2. CASE StreamStops(c)
  <2>1. inbox' \in [Conn -> Seq(Update)]
    <3>1. [inbox EXCEPT ![c] = <<>>] \in [Conn -> Seq(Update)]
      BY DEF TypeOK
    <3> QED
      BY <1>2, <3>1 DEF TypeOK, StreamStops
  <2> QED
    BY <1>2, <2>1 DEF TypeOK, StreamStops, StopServing, StreamSame, programVars,
              taskVars, tableVars, historyVars
<1> QED
  BY <1>1, <1>2

LEMMA ReadType ==
    ASSUME TypeOK, NEW c \in Conn, Read(c)
    PROVE  /\ inbox' \in [Conn -> Seq(Update)]
           /\ inbox[c] \in Seq(Update)
           /\ 1 \in DOMAIN inbox[c]
           /\ Head(inbox[c]) \in Update
           /\ Head(inbox[c]) = inbox[c][1]
<1>1. inbox[c] \in Seq(Update) /\ inbox[c] # <<>>
  BY DEF TypeOK, Read
<1>2. Tail(inbox[c]) \in Seq(Update)
  BY <1>1
<1> QED
  BY <1>1, <1>2 DEF TypeOK, Read

LEMMA StreamTaskType ==
    ASSUME TypeOK, NEW c \in Conn, StreamTask(c)
    PROVE  TypeOK'
<1>1. CASE Dispatch(c)
  <2>1. /\ inbox' \in [Conn -> Seq(Update)]
        /\ <<Head(inbox[c]), c>> \in Delivery
    BY <1>1, ReadType DEF Dispatch, Delivery
  <2> QED
    BY <1>1, <2>1 DEF TypeOK, Dispatch, programVars, streamVars, tableVars
<1>2. CASE Skip(c)
  <2>1. inbox' \in [Conn -> Seq(Update)]
    BY <1>2, ReadType DEF Skip
  <2> QED
    BY <1>2, <2>1 DEF TypeOK, Skip, StreamSame, programVars, feedVars,
                      streamVars, taskVars, tableVars, historyVars
<1>3. CASE StreamTaskEnds(c)
  BY <1>3 DEF TypeOK, StreamTaskEnds, EndTask, StreamSame, programVars,
              taskVars, tableVars, historyVars
<1> QED
  BY <1>1, <1>2, <1>3 DEF StreamTask

LEMMA SendType ==
    ASSUME TypeOK, NEW u \in Update, Send(u)
    PROVE  TypeOK'
<1>1. \A c \in Conn : Append(inbox[c], u) \in Seq(Update)
  BY DEF TypeOK
<1>2. inbox' \in [Conn -> Seq(Update)]
  BY <1>1 DEF TypeOK, Send
<1> QED
  BY <1>2 DEF TypeOK, Send, programVars, streamVars, taskVars, tableVars,
              historyVars

LEMMA HandlerType ==
    ASSUME TypeOK, NEW d \in Delivery, Handler(d) \/ Orphan(d)
    PROVE  TypeOK'
<1>1. Inserted(d) \in Seq(Row)
  BY InsertedType DEF TypeOK
<1>2. CASE HandlerReturns(d) \/ InsertStarts(d) \/ AcquireFails(d)
  BY <1>2 DEF TypeOK, HandlerReturns, InsertStarts, AcquireFails, HandlerSame,
              programVars, streamVars
<1>3. CASE InsertSucceeds(d) \/ InsertFails(d)
  BY <1>1, <1>3 DEF TypeOK, InsertSucceeds, InsertFails, HandlerSame,
                    programVars, streamVars
<1>4. CASE OrphanCommits(d) \/ OrphanLost(d)
  BY <1>1, <1>4 DEF TypeOK, OrphanCommits, OrphanLost, programVars, streamVars,
                    taskVars, historyVars
<1> QED
  BY <1>2, <1>3, <1>4 DEF Handler, Orphan

LEMMA TypeStep ==
    ASSUME TypeOK, [Next]_vars
    PROVE  TypeOK'
<1>1. CASE ApplyCommand \/ LetStreamGo
  BY <1>1 DEF TypeOK, ApplyCommand, Register, LetStreamGo, LetGo, StreamSame,
              programVars, streamVars, taskVars, tableVars, historyVars
<1>2. CASE PushRequest
  BY <1>2 DEF TypeOK, PushRequest, Ask, Requesting, StreamSame, programVars,
              streamVars, taskVars, tableVars, historyVars
<1>3. CASE UNCHANGED vars
  BY <1>3 DEF TypeOK, vars, programVars, feedVars, streamVars, taskVars,
              tableVars, historyVars
<1> QED
  BY <1>1, <1>2, <1>3, ProgramType, MarkType, StreamType, StreamTaskType, SendType,
     HandlerType DEF Next, Finished

-----------------------------------------------------------------------------
(* Where deliveries are.                                                   *)

DeliveryInv ==
    /\ Travels
    /\ Places
    /\ Chosen
    /\ OneRowPerDelivery
    /\ NothingForgotten
    /\ MarkedStayInactive

\* The variables DeliveryInv reads, but for the inboxes.
placeVars == <<taskVars, rows, orphans, marked, happened, historyVars>>

\* Steps that leave what DeliveryInv speaks of as it is.
LEMMA QuietStep ==
    ASSUME DeliveryInv, UNCHANGED <<inbox, placeVars>>
    PROVE  DeliveryInv'
  BY DEF DeliveryInv, Travels, Places, Chosen, OneRowPerDelivery,
         NothingForgotten, MarkedStayInactive, Stored, placeVars, taskVars,
         historyVars

\* Updates of one stream are lost, or the first one is read.
LEMMA TravelsShorter ==
    ASSUME TypeOK, Travels, NEW c \in Conn, NEW q,
           \/ q = inbox[c]
           \/ q = <<>>
           \/ inbox[c] # <<>> /\ q = Tail(inbox[c]),
           inbox' = [inbox EXCEPT ![c] = q],
           UNCHANGED <<dispatched, happened>>
    PROVE  Travels'
<1>1. inbox[c] \in Seq(Update)
  BY DEF TypeOK
<1>2. /\ \A n \in DOMAIN q : \E k \in DOMAIN inbox[c] : q[n] = inbox[c][k]
      /\ \A m, n \in DOMAIN q : q[m] = q[n] => m = n
  <2>1. CASE q = inbox[c] \/ q = <<>>
    BY <1>1, <2>1 DEF Travels
  <2>2. CASE inbox[c] # <<>> /\ q = Tail(inbox[c])
    <3>1. /\ DOMAIN q = 1..Len(inbox[c]) - 1
          /\ DOMAIN inbox[c] = 1..Len(inbox[c])
          /\ \A n \in DOMAIN q : q[n] = inbox[c][n + 1]
      BY <1>1, <2>2
    <3>2. \A n \in DOMAIN q : n \in Nat /\ n + 1 \in DOMAIN inbox[c]
      BY <1>1, <3>1
    <3>3. \A m, n \in DOMAIN q : q[m] = q[n] => m + 1 = n + 1
      BY <3>1, <3>2 DEF Travels
    <3> QED
      BY <3>1, <3>2, <3>3
  <2> QED
    BY <2>1, <2>2
<1>3. \A e \in Conn : inbox'[e] = IF e = c THEN q ELSE inbox[e]
  BY DEF TypeOK
<1> QED
  BY <1>2, <1>3 DEF Travels

LEMMA InboxStep ==
    ASSUME IInv, NEW c \in Conn,
           OpenStream(c) \/ StreamStops(c) \/ Skip(c)
    PROVE  DeliveryInv'
<1>1. UNCHANGED placeVars
  BY DEF OpenStream, StreamStops, Skip, StreamSame, placeVars, taskVars,
         tableVars, historyVars
<1>2. PICK q : /\ \/ q = inbox[c]
                  \/ q = <<>>
                  \/ inbox[c] # <<>> /\ q = Tail(inbox[c])
               /\ inbox' = [inbox EXCEPT ![c] = q]
  <2>1. inbox = [inbox EXCEPT ![c] = inbox[c]]
    BY DEF IInv, TypeOK
  <2> QED
    BY <2>1 DEF OpenStream, StreamStops, Skip, Read
<1>3. Travels'
  BY <1>1, <1>2, TravelsShorter DEF IInv, placeVars, historyVars
<1> QED
  BY <1>1, <1>3
  DEF IInv, DeliveryInv, Places, Chosen, OneRowPerDelivery, NothingForgotten,
      MarkedStayInactive, Stored, placeVars, taskVars, historyVars

\* What is sent was not sent before, so it is nowhere yet.
LEMMA SendStep ==
    ASSUME IInv, NEW u \in Update, Send(u)
    PROVE  DeliveryInv'
<1>1. /\ UNCHANGED <<taskVars, rows, orphans, marked, historyVars>>
      /\ happened' = happened \cup {u}
      /\ u \notin happened
  BY DEF Send, tableVars
<1>2. \A c \in Conn : inbox'[c] = inbox[c] \/ inbox'[c] = Append(inbox[c], u)
  BY DEF Send
<1>3. ASSUME NEW c \in Conn, inbox'[c] = Append(inbox[c], u)
      PROVE  /\ \A n \in DOMAIN inbox'[c] :
                    /\ inbox'[c][n] \in happened \cup {u}
                    /\ <<inbox'[c][n], c>> \notin dispatched
             /\ \A m, n \in DOMAIN inbox'[c] :
                    inbox'[c][m] = inbox'[c][n] => m = n
  <2>1. inbox[c] \in Seq(Update)
    BY DEF IInv, TypeOK
  <2>2. /\ DOMAIN inbox'[c] = 1..Len(inbox[c]) + 1
        /\ DOMAIN inbox[c] = 1..Len(inbox[c])
        /\ Len(inbox[c]) \in Nat
        /\ \A n \in DOMAIN inbox'[c] :
              inbox'[c][n] = IF n = Len(inbox[c]) + 1 THEN u ELSE inbox[c][n]
    BY <1>3, <2>1
  <2>3. \A n \in DOMAIN inbox[c] :
            /\ inbox[c][n] \in happened
            /\ <<inbox[c][n], c>> \notin dispatched
    BY DEF IInv, Travels
  <2>4. <<u, c>> \notin dispatched
    BY <1>1 DEF IInv, Travels
  <2>5. \A n \in DOMAIN inbox'[c] :
            n = Len(inbox[c]) + 1 \/ n \in DOMAIN inbox[c]
    BY <2>2
  <2>6. \A m, n \in DOMAIN inbox[c] : inbox[c][m] = inbox[c][n] => m = n
    BY DEF IInv, Travels
  <2> QED
    BY <1>1, <2>2, <2>3, <2>4, <2>5, <2>6
<1>4. Travels'
  BY <1>1, <1>2, <1>3 DEF IInv, Travels, historyVars
<1> QED
  BY <1>1, <1>4
  DEF IInv, DeliveryInv, Places, Chosen, OneRowPerDelivery, NothingForgotten,
      MarkedStayInactive, Stored, taskVars, historyVars

\* What is read was not read before, so it has no task and no row.
LEMMA DispatchStep ==
    ASSUME IInv, NEW c \in Conn, Dispatch(c)
    PROVE  DeliveryInv'
<1> DEFINE d == <<Head(inbox[c]), c>>
<1>1. /\ UNCHANGED <<inserting, rows, orphans, marked, happened, failed,
                     dropped>>
      /\ spawned' = spawned \cup {d}
      /\ dispatched' = dispatched \cup {d}
      /\ inbox' = [inbox EXCEPT ![c] = Tail(inbox[c])]
      /\ inbox[c] # <<>>
  BY DEF Dispatch, Read, tableVars
<1>2. /\ inbox[c] \in Seq(Update)
      /\ 1 \in DOMAIN inbox[c]
      /\ Head(inbox[c]) = inbox[c][1]
  BY ReadType DEF Dispatch, IInv
<1>3. d \notin dispatched /\ d \in happened \X Conn
  BY <1>2 DEF IInv, Travels
<1>4. /\ DOMAIN Tail(inbox[c]) = 1..Len(inbox[c]) - 1
      /\ DOMAIN inbox[c] = 1..Len(inbox[c])
      /\ Len(inbox[c]) \in Nat
      /\ \A n \in DOMAIN Tail(inbox[c]) :
            Tail(inbox[c])[n] = inbox[c][n + 1]
  BY <1>1, <1>2
<1>5. \A n \in DOMAIN Tail(inbox[c]) :
          /\ n + 1 \in DOMAIN inbox[c]
          /\ n + 1 # 1
          /\ n \in Nat
  BY <1>4
<1>6. \A m, n \in DOMAIN inbox[c] : inbox[c][m] = inbox[c][n] => m = n
  BY DEF IInv, Travels
<1>7. \A n \in DOMAIN Tail(inbox[c]) :
          /\ Tail(inbox[c])[n] \in happened
          /\ <<Tail(inbox[c])[n], c>> \notin dispatched
          /\ Tail(inbox[c])[n] # Head(inbox[c])
  BY <1>2, <1>4, <1>5, <1>6 DEF IInv, Travels
<1>8. \A m, n \in DOMAIN Tail(inbox[c]) :
          Tail(inbox[c])[m] = Tail(inbox[c])[n] => m = n
  <2>1. \A m, n \in DOMAIN Tail(inbox[c]) :
            Tail(inbox[c])[m] = Tail(inbox[c])[n] => m + 1 = n + 1
    BY <1>4, <1>5, <1>6
  <2> QED
    BY <1>5, <2>1
<1>9. \A e \in Conn :
          inbox'[e] = IF e = c THEN Tail(inbox[c]) ELSE inbox[e]
  BY <1>1 DEF IInv, TypeOK
<1>10. Travels'
  <2>1. dispatched' \subseteq happened' \X Conn
    BY <1>1, <1>3 DEF IInv, Travels
  <2>2. ASSUME NEW e \in Conn, NEW n \in DOMAIN inbox'[e]
        PROVE  /\ inbox'[e][n] \in happened'
               /\ <<inbox'[e][n], e>> \notin dispatched'
    <3>1. CASE e = c
      <4>1. /\ n \in DOMAIN Tail(inbox[c])
            /\ inbox'[e][n] = Tail(inbox[c])[n]
        BY <1>9, <2>2, <3>1
      <4>2. <<Tail(inbox[c])[n], c>> # d
        BY <1>7, <4>1
      <4> HIDE DEF d
      <4> QED
        BY <1>1, <1>7, <3>1, <4>1, <4>2
    <3>2. CASE e # c
      <4>1. inbox'[e] = inbox[e] /\ <<inbox[e][n], e>> # d
        BY <1>9, <3>2
      <4>2. /\ n \in DOMAIN inbox[e]
            /\ inbox[e][n] \in happened
            /\ <<inbox[e][n], e>> \notin dispatched
        BY <2>2, <4>1 DEF IInv, Travels
      <4> HIDE DEF d
      <4>3. <<inbox[e][n], e>> \notin dispatched'
        BY <1>1, <4>1, <4>2
      <4>4. happened' = happened
        BY <1>1
      <4> QED
        BY <4>1, <4>2, <4>3, <4>4
    <3> QED
      BY <3>1, <3>2
  <2>3. ASSUME NEW e \in Conn, NEW m \in DOMAIN inbox'[e],
               NEW n \in DOMAIN inbox'[e], inbox'[e][m] = inbox'[e][n]
        PROVE  m = n
    BY <1>8, <1>9, <2>3 DEF IInv, Travels
  <2> QED
    BY <2>1, <2>2, <2>3 DEF Travels
<1>11. Places' /\ Chosen' /\ OneRowPerDelivery' /\ MarkedStayInactive'
  <2> HIDE DEF d
  <2> QED
    BY <1>1, <1>3
    DEF IInv, Places, Chosen, OneRowPerDelivery, MarkedStayInactive
<1>12. NothingForgotten'
  <2> HIDE DEF d
  <2> QED
    BY <1>1 DEF IInv, NothingForgotten, Stored
<1> QED
  BY <1>10, <1>11, <1>12 DEF DeliveryInv

\* A mark changes no row but for whether it is active.
LEMMA MarkRowsStep ==
    ASSUME IInv, MarkRows,
           UNCHANGED <<inbox, taskVars, orphans, happened, historyVars>>
    PROVE  DeliveryInv'
<1>1. /\ rows \in Seq(Row)
      /\ rows' = [n \in DOMAIN rows |-> [rows[n] EXCEPT !.active = FALSE]]
      /\ marked' = Len(rows)
  BY DEF MarkRows, IInv, TypeOK
<1>2. /\ DOMAIN rows' = DOMAIN rows
      /\ DOMAIN rows = 1..Len(rows)
      /\ Len(rows) \in Nat
  BY <1>1
<1>3. \A n \in DOMAIN rows :
          rows'[n].of = rows[n].of /\ rows'[n].active = FALSE
  <2>1. SUFFICES ASSUME NEW n \in DOMAIN rows
                 PROVE  rows'[n].of = rows[n].of /\ rows'[n].active = FALSE
    OBVIOUS
  <2>2. rows[n] \in Row
    BY <1>1, ElementType
  <2> QED
    BY <1>1, <2>2 DEF Row
<1>4. Len(rows') = Len(rows)
  <2>1. rows' \in Seq(Row)
    BY MarkRowsType DEF IInv, TypeOK
  <2> QED
    BY <1>2, <2>1
<1>5. MarkedStayInactive'
  BY <1>1, <1>2, <1>3, <1>4 DEF MarkedStayInactive
<1>6. NothingForgotten'
  BY <1>2, <1>3 DEF IInv, NothingForgotten, Stored, taskVars, historyVars
<1>7. Travels' /\ Places' /\ Chosen' /\ OneRowPerDelivery'
  BY <1>2, <1>3 DEF IInv, Travels, Places, Chosen, OneRowPerDelivery,
                    taskVars, historyVars
<1> QED
  BY <1>5, <1>6, <1>7 DEF DeliveryInv

LEMMA ProcessEndsStep ==
    ASSUME IInv, ProcessEnds,
           UNCHANGED <<rows, marked, happened, dispatched, failed>>
    PROVE  DeliveryInv'
<1>1. Travels'
  BY DEF IInv, Travels, ProcessEnds
<1>2. Places' /\ Chosen' /\ OneRowPerDelivery' /\ MarkedStayInactive'
  BY DEF IInv, Places, Chosen, OneRowPerDelivery, MarkedStayInactive,
         ProcessEnds
<1>3. NothingForgotten'
  BY DEF IInv, NothingForgotten, Stored, ProcessEnds
<1> QED
  BY <1>1, <1>2, <1>3 DEF DeliveryInv

\* A statement that ends with a row.
LEMMA RowStep ==
    ASSUME IInv, NEW d \in inserting \cup orphans,
           rows' = Inserted(d),
           inserting' = inserting \ {d},
           orphans' = orphans \ {d},
           UNCHANGED <<inbox, spawned, marked, happened, historyVars>>
    PROVE  DeliveryInv'
<1>1. /\ rows \in Seq(Row)
      /\ Len(rows) \in Nat
      /\ DOMAIN rows = 1..Len(rows)
  BY DEF IInv, TypeOK
<1>2. rows' = Append(rows, [of |-> d, active |-> TRUE])
  BY DEF Inserted
<1>3. /\ DOMAIN rows' = 1..Len(rows) + 1
      /\ Len(rows') = Len(rows) + 1
      /\ \A n \in DOMAIN rows : rows'[n] = rows[n]
      /\ rows'[Len(rows) + 1].of = d
  BY <1>1, <1>2
<1>4. \A n \in DOMAIN rows' : n \in DOMAIN rows \/ n = Len(rows) + 1
  BY <1>1, <1>3
<1>5. d \in dispatched /\ d \notin spawned /\ d \in Wanted \X Conn
  BY DEF IInv, Places, Chosen
<1>6. \A n \in DOMAIN rows : rows[n].of # d
  BY DEF IInv, Places
<1>7. Travels'
  BY DEF IInv, Travels, historyVars
<1>8. Places'
  BY <1>3, <1>4, <1>5 DEF IInv, Places, historyVars
<1>9. Chosen'
  BY <1>3, <1>4, <1>5 DEF IInv, Chosen
<1>10. OneRowPerDelivery'
  BY <1>3, <1>4, <1>6 DEF IInv, OneRowPerDelivery
<1>11. NothingForgotten'
  <2>1. \A e : Stored(e) \/ e = d => Stored(e)'
    BY <1>1, <1>3 DEF Stored
  <2> QED
    BY <2>1 DEF IInv, NothingForgotten, historyVars
<1>12. MarkedStayInactive'
  BY <1>1, <1>3 DEF IInv, MarkedStayInactive, TypeOK
<1> QED
  BY <1>7, <1>8, <1>9, <1>10, <1>11, <1>12 DEF DeliveryInv

LEMMA HandlerStep ==
    ASSUME IInv, NEW d \in Delivery, Handler(d)
    PROVE  DeliveryInv'
<1>1. CASE InsertSucceeds(d)
  <2>1. orphans' = orphans \ {d}
    BY <1>1 DEF InsertSucceeds, IInv, Places
  <2> QED
    BY <1>1, <2>1, RowStep DEF InsertSucceeds, HandlerSame, historyVars
<1>2. CASE ~InsertSucceeds(d)
  <2>1. UNCHANGED <<inbox, rows, marked, happened, dispatched, dropped>>
    BY <1>2 DEF Handler, HandlerReturns, InsertStarts, AcquireFails,
                InsertFails, HandlerSame
  <2>2. Travels' /\ OneRowPerDelivery' /\ MarkedStayInactive'
    BY <2>1 DEF IInv, Travels, OneRowPerDelivery, MarkedStayInactive
  <2>3. CASE HandlerReturns(d)
    <3>1. /\ spawned' = spawned \ {d} /\ d[1] \notin Wanted
          /\ UNCHANGED <<inserting, orphans, failed>>
      BY <2>3 DEF HandlerReturns
    <3> QED
      BY <2>1, <2>2, <3>1 DEF IInv, DeliveryInv, Places, Chosen,
                              NothingForgotten, Stored
  <2>4. CASE InsertStarts(d)
    <3>1. /\ d \in spawned /\ spawned' = spawned \ {d}
          /\ inserting' = inserting \cup {d} /\ d \in Wanted \X Conn
          /\ UNCHANGED <<orphans, failed>>
      BY <2>4 DEF InsertStarts, Delivery
    <3> QED
      BY <2>1, <2>2, <3>1 DEF IInv, DeliveryInv, Places, Chosen,
                              NothingForgotten, Stored
  <2>5. CASE AcquireFails(d)
    <3>1. /\ spawned' = spawned \ {d} /\ failed' = failed \cup {d}
          /\ UNCHANGED <<inserting, orphans>>
      BY <2>5 DEF AcquireFails
    <3> QED
      BY <2>1, <2>2, <3>1 DEF IInv, DeliveryInv, Places, Chosen,
                              NothingForgotten, Stored
  <2>6. CASE InsertFails(d)
    <3>1. /\ d \in inserting /\ inserting' = inserting \ {d}
          /\ orphans' = orphans \cup {d} /\ failed' = failed \cup {d}
          /\ UNCHANGED spawned
      BY <2>6 DEF InsertFails
    <3> QED
      BY <2>1, <2>2, <3>1 DEF IInv, DeliveryInv, Places, Chosen,
                              NothingForgotten, Stored
  <2> QED
    BY <1>2, <2>3, <2>4, <2>5, <2>6 DEF Handler
<1> QED
  BY <1>1, <1>2

LEMMA OrphanStep ==
    ASSUME IInv, NEW d \in Delivery, Orphan(d)
    PROVE  DeliveryInv'
<1>1. CASE OrphanCommits(d)
  <2>1. inserting' = inserting \ {d}
    BY <1>1 DEF OrphanCommits, taskVars, IInv, Places
  <2> QED
    BY <1>1, <2>1, RowStep DEF OrphanCommits, taskVars
<1>2. CASE OrphanLost(d)
  <2>1. /\ orphans' = orphans \ {d} /\ dropped' = dropped \cup {d}
        /\ UNCHANGED <<inbox, spawned, inserting, rows, marked, happened,
                       dispatched, failed>>
    BY <1>2 DEF OrphanLost, taskVars
  <2>2. Travels' /\ OneRowPerDelivery' /\ MarkedStayInactive'
    BY <2>1 DEF IInv, Travels, OneRowPerDelivery, MarkedStayInactive
  <2> QED
    BY <2>1, <2>2 DEF IInv, DeliveryInv, Places, Chosen, NothingForgotten,
                      Stored
<1> QED
  BY <1>1, <1>2 DEF Orphan

-----------------------------------------------------------------------------
(* What streams ask for.                                                   *)

LEMMA AskedStep ==
    ASSUME IInv, [Next]_vars
    PROVE  Asked'
<1>1. CASE Exit \/ Crash
  BY <1>1 DEF Asked, Exit, Crash, ProcessEnds
<1>2. CASE ApplyCommand
  BY <1>2 DEF IInv, Asked, ApplyCommand, Register
<1>3. CASE PushRequest
  BY <1>3 DEF IInv, Asked, PushRequest, Ask, Requesting, StreamSame,
              programVars
<1>4. ASSUME NEW c \in Conn, OpenStream(c)
      PROVE  Asked'
  BY <1>4 DEF IInv, Asked, OpenStream, Open, Requesting, StreamSame,
              programVars
<1>5. ASSUME NEW c \in Conn, StreamStops(c) \/ StreamTask(c)
      PROVE  Asked'
  BY <1>5 DEF IInv, Asked, StreamStops, StopServing, StreamTask,
              StreamTaskEnds, EndTask, Dispatch, Skip, feedVars, StreamSame,
              programVars
<1>6. CASE Start \/ CtrlC \/ Mark \/ OrphanMarkEnds \/ LetStreamGo
  BY <1>6 DEF IInv, Asked, Start, CtrlC, Mark, MarkStarts, MarkTakesEffect,
              MarkSucceeds, MarkFails, OrphanMarkEnds, LetStreamGo, LetGo,
              StreamSame, programVars
<1>7. CASE Setup
  BY <1>7 DEF IInv, Asked, Setup, Accept
<1>8. ASSUME NEW u \in Update, Send(u)
      PROVE  Asked'
  BY <1>8 DEF IInv, Asked, Send, programVars
<1>9. ASSUME NEW d \in Delivery, Handler(d) \/ Orphan(d)
      PROVE  Asked'
  BY <1>9 DEF IInv, Asked, Handler, HandlerReturns, InsertStarts,
              AcquireFails, InsertSucceeds, InsertFails, HandlerSame, Orphan,
              OrphanCommits, OrphanLost, programVars
<1>10. CASE UNCHANGED vars
  BY <1>10 DEF IInv, Asked, vars, programVars, feedVars
<1> QED
  BY <1>1, <1>2, <1>3, <1>4, <1>5, <1>6, <1>7, <1>8, <1>9, <1>10
  DEF Next, Program, Finished

LEMMA CarriedStep ==
    ASSUME IInv, Asked', [Next]_vars
    PROVE  RegisteredBeforeCarried'
<1>1. CASE Exit \/ Crash
  BY <1>1 DEF RegisteredBeforeCarried, Exit, Crash, ProcessEnds
<1>2. ASSUME NEW u \in Update, Send(u)
      PROVE  RegisteredBeforeCarried'
  <2>1. \A c \in Conn : inbox'[c] = inbox[c] \/ c \in requested
    BY <1>2 DEF Send, IInv, TypeOK
  <2> QED
    BY <1>2, <2>1
    DEF Send, IInv, Asked, RegisteredBeforeCarried, programVars
<1>3. ASSUME NEW c \in Conn,
             OpenStream(c) \/ StreamStops(c) \/ Dispatch(c) \/ Skip(c)
      PROVE  RegisteredBeforeCarried'
  <2>1. subscription' = subscription
    BY <1>3 DEF OpenStream, StreamStops, Dispatch, Skip, StreamSame,
                programVars
  <2>2. \A e \in Conn : inbox[e] = <<>> => inbox'[e] = <<>>
    BY <1>3 DEF OpenStream, StreamStops, Dispatch, Skip, Read, IInv, TypeOK
  <2> QED
    BY <2>1, <2>2 DEF IInv, RegisteredBeforeCarried
<1>4. CASE UNCHANGED <<subscription, inbox>>
  BY <1>4 DEF IInv, RegisteredBeforeCarried
<1>5. CASE Setup \/ ApplyCommand
  BY <1>5 DEF IInv, Asked, RegisteredBeforeCarried, Setup, Accept, ApplyCommand,
              Register
<1>6. CASE Start \/ CtrlC \/ Mark \/ OrphanMarkEnds \/ LetStreamGo
           \/ PushRequest
  BY <1>6, <1>4
  DEF Start, CtrlC, Mark, MarkStarts, MarkTakesEffect, MarkSucceeds, MarkFails,
      OrphanMarkEnds, LetStreamGo, PushRequest, StreamSame, programVars
<1>7. ASSUME NEW c \in Conn, StreamTaskEnds(c)
      PROVE  RegisteredBeforeCarried'
  BY <1>4, <1>7 DEF StreamTaskEnds, StreamSame, programVars
<1>8. ASSUME NEW d \in Delivery, Handler(d) \/ Orphan(d)
      PROVE  RegisteredBeforeCarried'
  BY <1>4, <1>8
  DEF Handler, HandlerReturns, InsertStarts, AcquireFails, InsertSucceeds,
      InsertFails, HandlerSame, Orphan, OrphanCommits, OrphanLost, programVars
<1>9. CASE UNCHANGED vars
  BY <1>4, <1>9 DEF vars, programVars
<1> QED
  BY <1>1, <1>2, <1>3, <1>5, <1>6, <1>7, <1>8, <1>9
  DEF Next, Program, StreamTask, Finished

-----------------------------------------------------------------------------
LEMMA DeliveryStep ==
    ASSUME IInv, [Next]_vars
    PROVE  DeliveryInv'
<1>1. DeliveryInv
  BY DEF IInv, DeliveryInv
<1>2. CASE \/ Start \/ Setup \/ CtrlC \/ MarkStarts \/ MarkSucceeds
           \/ MarkFails \/ ApplyCommand \/ PushRequest \/ LetStreamGo
           \/ UNCHANGED vars
  <2>1. UNCHANGED <<inbox, placeVars>>
    BY <1>2 DEF Start, Setup, CtrlC, MarkStarts, MarkSucceeds, MarkFails,
                ApplyCommand, PushRequest, LetStreamGo, StreamSame, vars,
                placeVars, taskVars, tableVars, historyVars
  <2> QED
    BY <1>1, <2>1, QuietStep
<1>3. ASSUME NEW c \in Conn, StreamTaskEnds(c)
      PROVE  DeliveryInv'
  <2>1. UNCHANGED <<inbox, placeVars>>
    BY <1>3 DEF StreamTaskEnds, StreamSame, placeVars, taskVars, tableVars,
                historyVars
  <2> QED
    BY <1>1, <2>1, QuietStep
<1>4. CASE MarkTakesEffect
  BY <1>4, MarkRowsStep DEF MarkTakesEffect
<1>5. CASE OrphanMarkEnds
  <2>1. CASE MarkRows
    BY <1>5, <2>1, MarkRowsStep DEF OrphanMarkEnds
  <2>2. CASE UNCHANGED <<rows, marked>>
    BY <1>1, <1>5, <2>2, QuietStep
    DEF OrphanMarkEnds, placeVars, taskVars, historyVars
  <2> QED
    BY <1>5, <2>1, <2>2 DEF OrphanMarkEnds
<1>6. CASE Exit \/ Crash
  BY <1>6, ProcessEndsStep DEF Exit, Crash
<1> QED
  BY <1>2, <1>3, <1>4, <1>5, <1>6, InboxStep, SendStep, DispatchStep,
     HandlerStep, OrphanStep
  DEF Next, Program, Mark, StreamTask, Finished

LEMMA InductiveInvariant == Spec => []IInv
<1>1. Init => IInv
  <2> SUFFICES ASSUME Init PROVE IInv
    OBVIOUS
  <2>1. TypeOK
    BY InitType
  <2>2. rows = <<>> /\ Len(rows) = 0 /\ marked = 0 /\ DOMAIN rows = {}
    BY DEF Init
  <2>3. \A c \in Conn : inbox[c] = <<>> /\ DOMAIN inbox[c] = {}
    BY DEF Init
  <2>4. OneRowPerDelivery /\ MarkedStayInactive /\ RegisteredBeforeCarried
    BY <2>2, <2>3
    DEF OneRowPerDelivery, MarkedStayInactive, RegisteredBeforeCarried
  <2>5. Travels /\ Places /\ Chosen /\ Asked /\ NothingForgotten
    BY <2>2, <2>3 DEF Init, StreamInit, Travels, Places, Chosen, Asked,
                      NothingForgotten
  <2> QED
    BY <2>1, <2>4, <2>5 DEF IInv
<1>2. IInv /\ [Next]_vars => IInv'
  <2> SUFFICES ASSUME IInv, [Next]_vars PROVE IInv'
    OBVIOUS
  <2>1. TypeOK'
    BY TypeStep DEF IInv
  <2>2. DeliveryInv' /\ Asked'
    BY DeliveryStep, AskedStep
  <2>3. RegisteredBeforeCarried'
    BY <2>2, CarriedStep
  <2> QED
    BY <2>1, <2>2, <2>3 DEF IInv, DeliveryInv
<1> QED
  BY <1>1, <1>2, PTL DEF Spec

-----------------------------------------------------------------------------
\* The variables stay in their types.
THEOREM PipelineTypeCorrect == Spec => []TypeOK
  BY InductiveInvariant, PTL DEF IInv

\* insert_pool is given transactions that meet the criteria only, whatever is
\* lost, fails or starts again.
THEOREM RowsAreMigrationsAlways == Spec => []RowsAreMigrations
<1>1. IInv => RowsAreMigrations
  <2> SUFFICES ASSUME IInv, NEW n \in DOMAIN rows
               PROVE  LET tx == Content[rows[n].of[1]] IN
                      /\ rows[n].of[1] \in happened
                      /\ tx.initialize2
                      /\ \E k \in DOMAIN tx.keys \cap 1..tx.signers :
                              tx.keys[k] = MigrationPubkey
                      /\ \E k \in DOMAIN tx.keys : tx.keys[k] = ProgramId
                      /\ \E k \in DOMAIN tx.keys : tx.keys[k] \in PumpKey
    BY DEF RowsAreMigrations
  <2>1. rows[n].of \in Wanted \X Conn /\ rows[n].of \in dispatched
    BY DEF IInv, Chosen, Places
  <2>2. rows[n].of[1] \in Update /\ Wants(Content[rows[n].of[1]])
    BY <2>1 DEF Wanted
  <2>3. Content[rows[n].of[1]] \in TransactionUpdate
    BY <2>2, PipelineAssumption
  <2>4. rows[n].of[1] \in happened
    BY <2>1 DEF IInv, Travels
  <2> QED
    BY <2>2, <2>3, <2>4, WantedIsMigration
<1> QED
  BY <1>1, InductiveInvariant, PTL

\* insert_pool is called once at most for what a stream delivers.
THEOREM OneRowPerDeliveryAlways == Spec => []OneRowPerDelivery
  BY InductiveInvariant, PTL DEF IInv

\* No update that meets the criteria goes without a trace.
THEOREM NothingForgottenAlways == Spec => []NothingForgotten
  BY InductiveInvariant, PTL DEF IInv

\* mark_all_pools_inactive is for good.
THEOREM MarkedStayInactiveAlways == Spec => []MarkedStayInactive
  BY InductiveInvariant, PTL DEF IInv

\* dispatch_event finds the subscription of whatever the server sends.
THEOREM RegisteredBeforeCarriedAlways == Spec => []RegisteredBeforeCarried
  BY InductiveInvariant, PTL DEF IInv

-----------------------------------------------------------------------------
(* EventPipeline implements PoolTable.                                     *)

Decided == dispatched \ spawned

Given == inserting \cup orphans

TableSame == UNCHANGED <<Decided, Given, rows>>

\* A step of PoolTable, or none.
TableStep == Table!TableNext \/ TableSame

LEMMA TableFrame ==
    ASSUME UNCHANGED <<spawned, inserting, orphans, dispatched, rows>>
    PROVE  TableStep
BY DEF TableStep, TableSame, Decided, Given

LEMMA TablePassesBy ==
    ASSUME NEW items \in SUBSET spawned, spawned \subseteq Delivery,
           spawned \subseteq dispatched,
           spawned' = spawned \ items,
           UNCHANGED <<dispatched, Given, rows>>
    PROVE  TableStep
<1>1. Decided' = Decided \cup items /\ items \cap Decided = {}
  BY DEF Decided
<1>2. Table!PassBy(items)
  BY <1>1 DEF Table!PassBy, Decided, Given
<1> QED
  BY <1>2 DEF TableStep, Table!TableNext

LEMMA HandlerRefines ==
    ASSUME TypeOK, Places, Chosen, NEW d \in Delivery, Handler(d)
    PROVE  TableStep
<1> USE DEF HandlerSame
<1>1. CASE HandlerReturns(d) \/ AcquireFails(d)
  <2>1. /\ d \in spawned /\ spawned' = spawned \ {d}
        /\ UNCHANGED <<dispatched, inserting, orphans, rows>>
    BY <1>1 DEF HandlerReturns, AcquireFails
  <2>2. spawned \subseteq Delivery /\ spawned \subseteq dispatched
    BY DEF TypeOK, Places
  <2> QED
    BY <2>1, <2>2, TablePassesBy DEF Given
<1>2. CASE InsertStarts(d)
  <2>1. /\ d \in spawned /\ d[1] \in Wanted
        /\ spawned' = spawned \ {d}
        /\ inserting' = inserting \cup {d}
        /\ UNCHANGED <<dispatched, orphans, rows>>
    BY <1>2 DEF InsertStarts
  <2>2. d \in Wanted \X Conn
    BY <2>1 DEF Delivery
  <2>3. Decided' = Decided \cup {d} /\ d \notin Decided
    BY <2>1 DEF Decided, Places
  <2>4. Given' = Given \cup {d}
    BY <2>1 DEF Given
  <2>5. Table!Give(d)
    BY <2>1, <2>2, <2>3, <2>4 DEF Table!Give, Decided, Given
  <2> QED
    BY <2>5 DEF TableStep, Table!TableNext
<1>3. CASE InsertSucceeds(d)
  <2>1. /\ d \in inserting
        /\ inserting' = inserting \ {d}
        /\ rows' = Append(rows, [of |-> d, active |-> TRUE])
        /\ UNCHANGED <<dispatched, spawned, orphans>>
    BY <1>3 DEF InsertSucceeds, Inserted
  <2>2. Given' = Given \ {d} /\ d \in Given /\ Decided' = Decided
    BY <2>1 DEF Given, Decided, Places
  <2>3. Table!Commit(d)
    BY <2>1, <2>2 DEF Table!Commit, Decided, Given
  <2> QED
    BY <2>3 DEF TableStep, Table!TableNext
<1>4. CASE InsertFails(d)
  <2>1. /\ d \in inserting
        /\ inserting' = inserting \ {d}
        /\ orphans' = orphans \cup {d}
        /\ UNCHANGED <<dispatched, spawned, rows>>
    BY <1>4 DEF InsertFails
  <2> QED
    BY <2>1 DEF TableStep, TableSame, Decided, Given
<1> QED
  BY <1>1, <1>2, <1>3, <1>4 DEF Handler

LEMMA OrphanRefines ==
    ASSUME Places, NEW d \in Delivery, Orphan(d)
    PROVE  TableStep
<1>1. CASE OrphanCommits(d)
  <2>1. /\ d \in orphans
        /\ orphans' = orphans \ {d}
        /\ rows' = Append(rows, [of |-> d, active |-> TRUE])
        /\ UNCHANGED <<dispatched, spawned, inserting>>
    BY <1>1 DEF OrphanCommits, Inserted, taskVars, historyVars
  <2>2. Given' = Given \ {d} /\ d \in Given /\ Decided' = Decided
    BY <2>1 DEF Given, Decided, Places
  <2>3. Table!Commit(d)
    BY <2>1, <2>2 DEF Table!Commit, Decided, Given
  <2> QED
    BY <2>3 DEF TableStep, Table!TableNext
<1>2. CASE OrphanLost(d)
  <2>1. /\ d \in orphans
        /\ orphans' = orphans \ {d}
        /\ UNCHANGED <<dispatched, spawned, inserting, rows>>
    BY <1>2 DEF OrphanLost, taskVars
  <2>2. Given' = Given \ {d} /\ d \in Given /\ Decided' = Decided
    BY <2>1 DEF Given, Decided, Places
  <2>3. Table!Lose(d)
    BY <2>1, <2>2 DEF Table!Lose, Decided, Given
  <2> QED
    BY <2>3 DEF TableStep, Table!TableNext
<1> QED
  BY <1>1, <1>2 DEF Orphan

LEMMA MarkRefines ==
    ASSUME Mark \/ OrphanMarkEnds
    PROVE  TableStep
<1> USE DEF taskVars, tableVars, historyVars
<1>1. UNCHANGED <<spawned, inserting, orphans, dispatched>>
  BY DEF Mark, MarkStarts, MarkTakesEffect, MarkSucceeds, MarkFails,
     OrphanMarkEnds
<1>2. CASE MarkRows
  <2>1. Table!MarkAll
    BY <1>1, <1>2 DEF MarkRows, Table!MarkAll
  <2> QED
    BY <2>1 DEF TableStep, Table!TableNext
<1>3. CASE ~MarkRows
  <2>1. rows' = rows
    BY <1>3 DEF Mark, MarkStarts, MarkTakesEffect, MarkSucceeds, MarkFails,
       OrphanMarkEnds
  <2> QED
    BY <1>1, <2>1, TableFrame
<1> QED
  BY <1>2, <1>3

\* What is not decided when the program ends is passed by; what the database
\* has, it keeps.
LEMMA EndRefines ==
    ASSUME TypeOK, Places, Exit \/ Crash
    PROVE  TableStep
<1>1. /\ spawned' = {} /\ inserting' = {}
      /\ orphans' = orphans \cup inserting
      /\ UNCHANGED <<dispatched, rows>>
  BY DEF Exit, Crash, ProcessEnds
<1>2. Given' = Given /\ spawned' = spawned \ spawned
  BY <1>1 DEF Given
<1>3. spawned \subseteq Delivery /\ spawned \subseteq dispatched
  BY DEF TypeOK, Places
<1> QED
  BY <1>1, <1>2, <1>3, TablePassesBy

LEMMA TableRefines ==
    ASSUME IInv, [Next]_vars
    PROVE  [Table!TableNext]_(Table!tableState)
<1> SUFFICES TableStep
  BY DEF TableStep, TableSame, Decided, Given, Table!tableState
<1> USE DEF taskVars, tableVars, historyVars
<1>1. TypeOK /\ Places /\ Chosen
  BY DEF IInv
<1>2. CASE \/ Start \/ Setup \/ CtrlC \/ ApplyCommand \/ PushRequest
           \/ LetStreamGo \/ UNCHANGED vars
  BY <1>2, TableFrame DEF Start, Setup, CtrlC, ApplyCommand, PushRequest,
     LetStreamGo, StreamSame, vars
<1>3. CASE Exit \/ Crash
  BY <1>1, <1>3, EndRefines
<1>4. CASE Mark \/ OrphanMarkEnds
  BY <1>4, MarkRefines
<1>5. ASSUME NEW c \in Conn, OpenStream(c) \/ StreamStops(c) \/ StreamTask(c)
      PROVE  TableStep
  <2>1. CASE Dispatch(c)
    <3> DEFINE d == <<Head(inbox[c]), c>>
    <3>1. /\ spawned' = spawned \cup {d}
          /\ dispatched' = dispatched \cup {d}
          /\ UNCHANGED <<inserting, orphans, rows>>
      BY <2>1 DEF Dispatch
    <3>2. d \notin dispatched
      <4>1. 1 \in DOMAIN inbox[c] /\ Head(inbox[c]) = inbox[c][1]
        BY <2>1, ReadType DEF Dispatch, IInv
      <4> QED
        BY <4>1 DEF IInv, Travels
    <3> HIDE DEF d
    <3> QED
      BY <3>1, <3>2 DEF TableStep, TableSame, Decided, Given
  <2>2. CASE ~Dispatch(c)
    BY <1>5, <2>2, TableFrame DEF OpenStream, StreamStops, StreamTask, Skip,
       StreamTaskEnds, StreamSame
  <2> QED
    BY <2>1, <2>2
<1>6. ASSUME NEW u \in Update, Send(u)
      PROVE  TableStep
  BY <1>6, TableFrame DEF Send
<1>7. ASSUME NEW d \in Delivery, Handler(d) \/ Orphan(d)
      PROVE  TableStep
  BY <1>1, <1>7, HandlerRefines, OrphanRefines
<1> QED
  BY <1>2, <1>3, <1>4, <1>5, <1>6, <1>7, Zenon DEF Next, Program, Finished

\* Whoever reads the table can rely on PoolTable: an update is given to the
\* database once at most and leaves one row at most, and apart from new rows the
\* table changes by the marks of all its rows only, through every failed
\* statement, crash and restart.
THEOREM PipelineImplementsPoolTable == Spec => ImplementsPoolTable
<1>1. Init => Table!TableInit
  BY DEF Init, Table!TableInit
<1>2. IInv /\ [Next]_vars => [Table!TableNext]_(Table!tableState)
  BY TableRefines
<1> QED
  BY <1>1, <1>2, InductiveInvariant, PTL
  DEF Spec, ImplementsPoolTable, Table!TableSpec
==============================================================================
