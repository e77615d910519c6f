------------------------- MODULE StreamHandlerProofs -------------------------
(***************************************************************************)
(* Proofs about StreamHandler.tla, for every number of viewports and       *)
(* however the three goroutines, the peer and the hub take turns.          *)
(*                                                                         *)
(* ViewportsInOrder is inductive but for what bounds the viewports the     *)
(* reader has taken (Holding).  Only six kinds of step touch it (Steps);   *)
(* the others are left to the type invariant.                              *)
(***************************************************************************)
EXTENDS StreamHandler, SequenceTheorems, TLAPS

(* What was handled was sent, and so was what the reader holds. *)
Holding == NextWaiting <= sent + 1 /\ (reader = "send" => vp \in 1 .. sent)

IInv == TypeOK /\ Holding /\ ViewportsInOrder

-----------------------------------------------------------------------------
(* What a message read or sent does to the inbox.                          *)
LEMMA TailOf ==
  ASSUME NEW S, NEW s \in Seq(S), s # <<>>
  PROVE  /\ Tail(s) \in Seq(S) /\ Head(s) = s[1] /\ 1 \in DOMAIN s
         /\ \A i \in DOMAIN Tail(s) : i \in Nat /\ i + 1 \in DOMAIN s /\ Tail(s)[i] = s[i + 1]
         /\ \A i \in DOMAIN s : i \in Nat /\ (i = 1 \/ (i - 1 \in DOMAIN Tail(s) /\ 1 < i))
  BY EmptySeq

(* What a message added does to it.                                        *)
LEMMA AppendTo ==
  ASSUME NEW S, NEW s \in Seq(S), NEW e \in S
  PROVE  /\ Append(s, e) \in Seq(S) /\ Len(Append(s, e)) = Len(s) + 1
         /\ DOMAIN Append(s, e) = DOMAIN s \cup {Len(s) + 1}
         /\ \A i \in DOMAIN s : Append(s, e)[i] = s[i] /\ i < Len(s) + 1
         /\ Append(s, e)[Len(s) + 1] = e
  OBVIOUS

(* The steps that move a viewport, or change what becomes of one; no other *)
(* touches the reader, the inbox or what was handled.                      *)
LEMMA Steps ==
  ASSUME TypeOK, [Next]_vars
  PROVE  \/ SendViewport \/ SendOther \/ ReadViewport \/ ReadOther \/ ReadFails \/ TakeViewport
         \/ UNCHANGED <<reader, vp, inbox, sent, handled>>
<1>1. CASE Reader
  BY <1>1 DEF Reader
<1>2. CASE Main
  BY <1>2 DEF Main, TakeClosed, TakeDelta, HandleViewportUpdate, Write, WriteFails, Unregister,
              Close, wire
<1>3. CASE Pinger
  BY <1>3 DEF Pinger, Tick, Pong, PingFails, wire
<1>4. CASE Peer
  BY <1>4 DEF Peer, Stall, Lose, goroutines
<1>5. CASE HubPush \/ UNCHANGED vars
  BY <1>5 DEF HubPush, vars, goroutines, wire
<1> QED
  BY <1>1, <1>2, <1>3, <1>4, <1>5 DEF Next

(* Everything but the sequences: a step at a time. *)
LEMMA SmallTypes ==
  ASSUME TypeOK, Holding, [Next]_vars
  PROVE  /\ main' \in {"select", "handle", "write", "return", "unregistered", "done"}
         /\ reader' \in {"read", "send", "done"}
         /\ pinger' \in {"wait", "ping", "done"}
         /\ viewportChanClosed' <=> reader' = "done"
         /\ conn' \in {"open", "lost", "closed"}
         /\ delta' \in BOOLEAN /\ stalled' \in BOOLEAN
         /\ cause' \in {"", "write", "channel"}
         /\ cause' # "" <=> main' \in {"return", "unregistered", "done"}
<1> USE DEF Next, Reader, ReadViewport, ReadOther, ReadFails, Main, TakeViewport, TakeClosed,
            TakeDelta, HandleViewportUpdate, Write, WriteFails, Unregister, Close, Pinger, Tick,
            Pong, PingFails, Peer, SendViewport, SendOther, Stall, Lose, HubPush, vars,
            goroutines, wire
<1>1. /\ main' \in {"select", "handle", "write", "return", "unregistered", "done"}
      /\ cause' \in {"", "write", "channel"}
      /\ cause' # "" <=> main' \in {"return", "unregistered", "done"}
  <2>1. /\ main \in {"select", "handle", "write", "return", "unregistered", "done"}
        /\ cause \in {"", "write", "channel"}
        /\ cause # "" <=> main \in {"return", "unregistered", "done"}
    BY DEF TypeOK
  <2> QED
    BY <2>1
<1>2. reader' \in {"read", "send", "done"} /\ pinger' \in {"wait", "ping", "done"}
  <2>1. reader \in {"read", "send", "done"} /\ pinger \in {"wait", "ping", "done"}
    BY DEF TypeOK
  <2> QED
    BY <2>1
<1>3. viewportChanClosed' <=> reader' = "done"
  <2>1. viewportChanClosed <=> reader = "done"
    BY DEF TypeOK
  <2> QED
    BY <2>1
<1>4. conn' \in {"open", "lost", "closed"}
  <2>1. conn \in {"open", "lost", "closed"}
    BY DEF TypeOK
  <2> QED
    BY <2>1
<1>5. delta' \in BOOLEAN /\ stalled' \in BOOLEAN
  <2>1. delta \in BOOLEAN /\ stalled \in BOOLEAN
    BY DEF TypeOK
  <2> QED
    BY <2>1
<1> QED
  BY <1>1, <1>2, <1>3, <1>4, <1>5

-----------------------------------------------------------------------------
(* The browser sends the next viewport. *)
LEMMA SendInv ==
  ASSUME IInv, SendViewport
  PROVE  /\ vp' \in 0 .. MaxViewports /\ sent' \in 0 .. MaxViewports
         /\ inbox' \in Seq(0 .. MaxViewports + 1) /\ handled' \in Seq(1 .. MaxViewports)
         /\ Holding' /\ ViewportsInOrder'
<1> USE MaxViewportsAssumption
<1>1. /\ sent < MaxViewports /\ sent' = sent + 1 /\ inbox' = Append(inbox, sent + 1)
      /\ UNCHANGED <<reader, vp, handled>>
  BY DEF SendViewport, goroutines
<1>2. /\ inbox \in Seq(0 .. MaxViewports + 1) /\ handled \in Seq(1 .. MaxViewports)
      /\ sent \in 0 .. MaxViewports /\ vp \in 0 .. MaxViewports /\ Len(handled) \in Nat
  <2>1. /\ inbox \in Seq(0 .. MaxViewports + 1) /\ handled \in Seq(1 .. MaxViewports)
        /\ sent \in 0 .. MaxViewports /\ vp \in 0 .. MaxViewports
    BY DEF IInv, TypeOK
  <2> QED
    BY <2>1
<1>3. sent + 1 \in 1 .. MaxViewports /\ sent + 1 \in 0 .. MaxViewports + 1
  BY <1>1, <1>2
<1>4. /\ inbox' \in Seq(0 .. MaxViewports + 1)
      /\ DOMAIN inbox' = DOMAIN inbox \cup {Len(inbox) + 1}
      /\ \A i \in DOMAIN inbox : inbox'[i] = inbox[i] /\ i < Len(inbox) + 1
      /\ inbox'[Len(inbox) + 1] = sent + 1
  BY <1>1, <1>2, <1>3, AppendTo
<1>5. NextWaiting' = NextWaiting /\ NextWaiting \in Nat
  BY <1>1, <1>2 DEF NextWaiting
<1>6. Holding'
  BY <1>1, <1>2, <1>5 DEF IInv, Holding
<1>7. ASSUME reader # "done"
      PROVE  /\ {inbox'[i] : i \in DOMAIN inbox'} \cap (1 .. MaxViewports) = NextWaiting .. (sent + 1)
             /\ \A i, j \in DOMAIN inbox' :
                  i < j /\ IsViewport(inbox'[i]) /\ IsViewport(inbox'[j]) => inbox'[i] < inbox'[j]
  <2>1. {inbox[i] : i \in DOMAIN inbox} \cap (1 .. MaxViewports) = NextWaiting .. sent
    BY <1>7 DEF IInv, ViewportsInOrder
  <2>2. {inbox'[i] : i \in DOMAIN inbox'} = {inbox[i] : i \in DOMAIN inbox} \cup {sent + 1}
    BY <1>4
  <2>3. NextWaiting <= sent + 1
    BY DEF IInv, Holding
  <2>4. NextWaiting .. (sent + 1) = (NextWaiting .. sent) \cup {sent + 1}
    BY <1>2, <1>5, <2>3
  <2>5. \A i \in DOMAIN inbox : IsViewport(inbox[i]) => inbox[i] \in NextWaiting .. sent
    BY <2>1 DEF IsViewport
  <2>6. {inbox'[i] : i \in DOMAIN inbox'} \cap (1 .. MaxViewports) = NextWaiting .. (sent + 1)
    BY <1>3, <2>1, <2>2, <2>4
  <2>7. ASSUME NEW i \in DOMAIN inbox', NEW j \in DOMAIN inbox', i < j,
               IsViewport(inbox'[i]), IsViewport(inbox'[j])
        PROVE  inbox'[i] < inbox'[j]
    <3>1. i \in DOMAIN inbox
      BY <1>2, <1>4, <2>7
    <3>2. CASE j \in DOMAIN inbox
      BY <1>4, <1>7, <2>7, <3>1, <3>2 DEF IInv, ViewportsInOrder
    <3>3. CASE j \notin DOMAIN inbox
      <4>1. inbox'[j] = sent + 1 /\ inbox'[i] \in NextWaiting .. sent
        BY <1>4, <2>5, <2>7, <3>1, <3>3
      <4> QED
        BY <1>2, <1>5, <4>1
    <3> QED
      BY <3>2, <3>3
  <2> QED
    BY <2>6, <2>7
<1>8. ViewportsInOrder'
  BY <1>1, <1>5, <1>7 DEF IInv, ViewportsInOrder
<1> QED
  BY <1>1, <1>2, <1>4, <1>6, <1>8

(* The reader takes the first message, which is the next viewport.         *)
LEMMA ReadInv ==
  ASSUME IInv, ReadViewport
  PROVE  /\ vp' \in 0 .. MaxViewports /\ sent' \in 0 .. MaxViewports
         /\ inbox' \in Seq(0 .. MaxViewports + 1) /\ handled' \in Seq(1 .. MaxViewports)
         /\ Holding' /\ ViewportsInOrder'
<1> USE MaxViewportsAssumption
<1>1. /\ reader = "read" /\ reader' = "send" /\ inbox # <<>> /\ IsViewport(Head(inbox))
      /\ vp' = Head(inbox) /\ inbox' = Tail(inbox) /\ UNCHANGED <<sent, handled>>
  BY DEF ReadViewport
<1>2. /\ inbox \in Seq(0 .. MaxViewports + 1) /\ handled \in Seq(1 .. MaxViewports)
      /\ sent \in 0 .. MaxViewports /\ Len(handled) \in Nat
  <2>1. /\ inbox \in Seq(0 .. MaxViewports + 1) /\ handled \in Seq(1 .. MaxViewports)
        /\ sent \in 0 .. MaxViewports
    BY DEF IInv, TypeOK
  <2> QED
    BY <2>1
<1>3. /\ inbox' \in Seq(0 .. MaxViewports + 1) /\ vp' = inbox[1] /\ 1 \in DOMAIN inbox
      /\ \A i \in DOMAIN inbox' : i \in Nat /\ i + 1 \in DOMAIN inbox /\ inbox'[i] = inbox[i + 1]
      /\ \A i \in DOMAIN inbox : i \in Nat /\ (i = 1 \/ (i - 1 \in DOMAIN inbox' /\ 1 < i))
  BY <1>1, <1>2, TailOf
<1>4. NextWaiting = Len(handled) + 1 /\ NextWaiting' = Len(handled) + 2
  BY <1>1 DEF NextWaiting
<1>5. /\ {inbox[i] : i \in DOMAIN inbox} \cap (1 .. MaxViewports) = NextWaiting .. sent
      /\ \A i, j \in DOMAIN inbox :
           i < j /\ IsViewport(inbox[i]) /\ IsViewport(inbox[j]) => inbox[i] < inbox[j]
  BY <1>1 DEF IInv, ViewportsInOrder
<1>6. \A i \in DOMAIN inbox : IsViewport(inbox[i]) <=> inbox[i] \in NextWaiting .. sent
  BY <1>5 DEF IsViewport
<1>7. \A i \in DOMAIN inbox' : IsViewport(inbox'[i]) => vp' < inbox'[i]
  <2> SUFFICES ASSUME NEW i \in DOMAIN inbox', IsViewport(inbox'[i]) PROVE vp' < inbox'[i]
    OBVIOUS
  <2>1. 1 < i + 1 /\ i + 1 \in DOMAIN inbox
    BY <1>3
  <2> QED
    BY <1>1, <1>3, <1>5, <2>1
<1>8. vp' = NextWaiting
  <2>1. vp' \in NextWaiting .. sent
    BY <1>1, <1>3, <1>6
  <2>2. NextWaiting \in NextWaiting .. sent
    BY <1>2, <1>4, <2>1
  <2>3. PICK i \in DOMAIN inbox : inbox[i] = NextWaiting /\ IsViewport(inbox[i])
    BY <1>5, <1>6, <2>2
  <2>4. CASE i = 1
    BY <1>3, <2>3, <2>4
  <2>5. CASE i # 1
    <3>1. i - 1 \in DOMAIN inbox' /\ inbox'[i - 1] = NextWaiting
      BY <1>3, <2>3, <2>5
    <3>2. vp' < NextWaiting
      BY <1>7, <2>3, <3>1
    <3> QED
      BY <1>2, <1>4, <2>1, <3>2
  <2> QED
    BY <2>4, <2>5
<1>9. vp' \in 1 .. sent /\ NextWaiting' <= sent + 1
  BY <1>1, <1>2, <1>3, <1>4, <1>6, <1>8
<1>10. Holding'
  BY <1>1, <1>9 DEF Holding
<1>11. {inbox'[i] : i \in DOMAIN inbox'} \cap (1 .. MaxViewports) = NextWaiting' .. sent
  <2>1. ASSUME NEW n \in {inbox'[i] : i \in DOMAIN inbox'} \cap (1 .. MaxViewports)
        PROVE  n \in NextWaiting' .. sent
    <3>1. PICK i \in DOMAIN inbox' : n = inbox'[i]
      BY <2>1
    <3>2. IsViewport(inbox'[i]) /\ inbox'[i] = inbox[i + 1] /\ i + 1 \in DOMAIN inbox
      BY <1>3, <2>1, <3>1 DEF IsViewport
    <3>3. vp' < n /\ n \in NextWaiting .. sent
      BY <1>6, <1>7, <3>1, <3>2
    <3> QED
      BY <1>2, <1>4, <1>8, <3>3
  <2>2. ASSUME NEW n \in NextWaiting' .. sent
        PROVE  n \in {inbox'[i] : i \in DOMAIN inbox'} \cap (1 .. MaxViewports)
    <3>1. n \in NextWaiting .. sent /\ n # NextWaiting /\ n \in 1 .. MaxViewports
      BY <1>2, <1>4, <2>2
    <3>2. PICK i \in DOMAIN inbox : inbox[i] = n
      BY <1>5, <3>1
    <3>3. i # 1
      BY <1>3, <1>8, <3>1, <3>2
    <3>4. i - 1 \in DOMAIN inbox' /\ inbox'[i - 1] = n
      BY <1>3, <3>2, <3>3
    <3> QED
      BY <3>1, <3>4
  <2> QED
    BY <2>1, <2>2
<1>12. \A i, j \in DOMAIN inbox' :
         i < j /\ IsViewport(inbox'[i]) /\ IsViewport(inbox'[j]) => inbox'[i] < inbox'[j]
  <2> SUFFICES ASSUME NEW i \in DOMAIN inbox', NEW j \in DOMAIN inbox', i < j,
                      IsViewport(inbox'[i]), IsViewport(inbox'[j])
               PROVE  inbox'[i] < inbox'[j]
    OBVIOUS
  <2>1. i + 1 < j + 1 /\ i + 1 \in DOMAIN inbox /\ j + 1 \in DOMAIN inbox
    BY <1>3
  <2> QED
    BY <1>3, <1>5, <2>1
<1>13. ViewportsInOrder'
  <2>1. \A i \in DOMAIN handled : handled[i] = i
    BY DEF IInv, ViewportsInOrder
  <2> QED
    BY <1>1, <1>4, <1>8, <1>11, <1>12, <2>1 DEF ViewportsInOrder
<1> QED
  BY <1>1, <1>2, <1>3, <1>9, <1>10, <1>13

(* The main loop takes what the reader holds. *)
LEMMA TakeInv ==
  ASSUME IInv, TakeViewport
  PROVE  /\ vp' \in 0 .. MaxViewports /\ sent' \in 0 .. MaxViewports
         /\ inbox' \in Seq(0 .. MaxViewports + 1) /\ handled' \in Seq(1 .. MaxViewports)
         /\ Holding' /\ ViewportsInOrder'
<1> USE MaxViewportsAssumption
<1>1. /\ reader = "send" /\ reader' = "read" /\ handled' = Append(handled, vp)
      /\ UNCHANGED <<vp, inbox, sent>>
  BY DEF TakeViewport, wire
<1>2. /\ inbox \in Seq(0 .. MaxViewports + 1) /\ handled \in Seq(1 .. MaxViewports)
      /\ sent \in 0 .. MaxViewports /\ vp \in 0 .. MaxViewports
  BY DEF IInv, TypeOK
<1>3. vp \in 1 .. MaxViewports /\ vp = Len(handled) + 1 /\ Len(handled) \in Nat
  BY <1>1, <1>2 DEF IInv, Holding, ViewportsInOrder
<1>4. /\ handled' \in Seq(1 .. MaxViewports) /\ Len(handled') = Len(handled) + 1
      /\ DOMAIN handled' = DOMAIN handled \cup {Len(handled) + 1}
      /\ \A i \in DOMAIN handled : handled'[i] = handled[i]
      /\ handled'[Len(handled) + 1] = vp
  BY <1>1, <1>2, <1>3, AppendTo
<1>5. NextWaiting' = NextWaiting
  BY <1>1, <1>3, <1>4 DEF NextWaiting
<1>6. Holding'
  BY <1>1, <1>5 DEF IInv, Holding
<1>7. \A i \in DOMAIN handled' : handled'[i] = i
  BY <1>3, <1>4 DEF IInv, ViewportsInOrder
<1>8. ViewportsInOrder'
  BY <1>1, <1>5, <1>7 DEF IInv, ViewportsInOrder
<1> QED
  BY <1>1, <1>2, <1>4, <1>6, <1>8

(* Messages that are no viewport come and go, or end the reader.           *)
LEMMA OtherInv ==
  ASSUME IInv, SendOther \/ ReadOther \/ ReadFails
  PROVE  /\ vp' \in 0 .. MaxViewports /\ sent' \in 0 .. MaxViewports
         /\ inbox' \in Seq(0 .. MaxViewports + 1) /\ handled' \in Seq(1 .. MaxViewports)
         /\ Holding' /\ ViewportsInOrder'
<1> USE MaxViewportsAssumption
<1>1. /\ inbox \in Seq(0 .. MaxViewports + 1) /\ handled \in Seq(1 .. MaxViewports)
      /\ sent \in 0 .. MaxViewports /\ vp \in 0 .. MaxViewports
  BY DEF IInv, TypeOK
<1>2. CASE SendOther
  <2>1. /\ inbox = <<>> /\ UNCHANGED <<reader, vp, sent, handled>>
        /\ \E kind \in {Other, Garbage} : inbox' = <<kind>>
    BY <1>2 DEF SendOther, goroutines
  <2>2. PICK kind \in {Other, Garbage} : inbox' = <<kind>>
    BY <2>1
  <2>3. kind \in 0 .. MaxViewports + 1 /\ ~IsViewport(kind) /\ kind \notin 1 .. MaxViewports
    BY DEF Other, Garbage, IsViewport
  <2>4. /\ inbox' \in Seq(0 .. MaxViewports + 1) /\ DOMAIN inbox' = {1} /\ inbox'[1] = kind
        /\ DOMAIN inbox = {}
    BY <2>1, <2>2, <2>3
  <2>5. NextWaiting' = NextWaiting
    BY <2>1 DEF NextWaiting
  <2>6. {inbox'[i] : i \in DOMAIN inbox'} \cap (1 .. MaxViewports) = {}
    BY <2>3, <2>4
  <2>7. {inbox[i] : i \in DOMAIN inbox} \cap (1 .. MaxViewports) = {}
    BY <2>4
  <2>8. ViewportsInOrder'
    BY <2>1, <2>3, <2>4, <2>5, <2>6, <2>7 DEF IInv, ViewportsInOrder
  <2> QED
    BY <1>1, <2>1, <2>4, <2>5, <2>8 DEF IInv, Holding
<1>3. CASE ReadOther
  <2>1. /\ inbox # <<>> /\ Head(inbox) = Other /\ inbox' = Tail(inbox)
        /\ UNCHANGED <<reader, vp, sent, handled>>
    BY <1>3 DEF ReadOther, goroutines
  <2>2. /\ inbox' \in Seq(0 .. MaxViewports + 1) /\ inbox[1] = Other /\ 1 \in DOMAIN inbox
        /\ \A i \in DOMAIN inbox' : i \in Nat /\ i + 1 \in DOMAIN inbox /\ inbox'[i] = inbox[i + 1]
        /\ \A i \in DOMAIN inbox : i \in Nat /\ (i = 1 \/ (i - 1 \in DOMAIN inbox' /\ 1 < i))
    BY <1>1, <2>1, TailOf
  <2>3. NextWaiting' = NextWaiting
    BY <2>1 DEF NextWaiting
  <2>4. inbox[1] \notin 1 .. MaxViewports
    BY <2>2 DEF Other
  <2>5. {inbox'[i] : i \in DOMAIN inbox'} \cap (1 .. MaxViewports) =
          {inbox[i] : i \in DOMAIN inbox} \cap (1 .. MaxViewports)
    <3>1. ASSUME NEW i \in DOMAIN inbox, inbox[i] \in 1 .. MaxViewports
          PROVE  i - 1 \in DOMAIN inbox' /\ inbox'[i - 1] = inbox[i]
      BY <2>2, <2>4, <3>1
    <3> QED
      BY <2>2, <3>1
  <2>6. ASSUME NEW i \in DOMAIN inbox', NEW j \in DOMAIN inbox', i < j, reader # "done",
               IsViewport(inbox'[i]), IsViewport(inbox'[j])
        PROVE  inbox'[i] < inbox'[j]
    <3>1. /\ i + 1 < j + 1 /\ i + 1 \in DOMAIN inbox /\ j + 1 \in DOMAIN inbox
          /\ inbox'[i] = inbox[i + 1] /\ inbox'[j] = inbox[j + 1]
      BY <2>2, <2>6
    <3> QED
      BY <2>6, <3>1 DEF IInv, ViewportsInOrder
  <2>7. ViewportsInOrder'
    BY <2>1, <2>3, <2>5, <2>6 DEF IInv, ViewportsInOrder
  <2> QED
    BY <1>1, <2>1, <2>2, <2>3, <2>7 DEF IInv, Holding
<1>4. CASE ReadFails
  <2>1. reader = "read" /\ reader' = "done" /\ UNCHANGED <<vp, inbox, sent, handled>>
    BY <1>4 DEF ReadFails
  <2>2. NextWaiting' = NextWaiting
    BY <2>1 DEF NextWaiting
  <2> QED
    BY <1>1, <2>1, <2>2 DEF IInv, Holding, ViewportsInOrder
<1> QED
  BY <1>2, <1>3, <1>4

-----------------------------------------------------------------------------
(* At the start nothing was sent. *)
LEMMA InitInv == Init => IInv
<1> SUFFICES ASSUME Init PROVE IInv
  OBVIOUS
<1>1. /\ inbox = <<>> /\ handled = <<>> /\ sent = 0 /\ vp = 0 /\ reader = "read"
  BY DEF Init
<1>2. DOMAIN inbox = {} /\ DOMAIN handled = {} /\ Len(handled) = 0
  BY <1>1
<1>3. NextWaiting = 1
  BY <1>1, <1>2 DEF NextWaiting
<1>4. TypeOK
  <2>1. inbox \in Seq(0 .. MaxViewports + 1) /\ handled \in Seq(1 .. MaxViewports)
    BY <1>1
  <2>2. /\ main = "select" /\ pinger = "wait" /\ ~viewportChanClosed /\ conn = "open"
        /\ delta \in BOOLEAN /\ stalled \in BOOLEAN /\ cause = ""
    BY DEF Init
  <2>3. vp \in 0 .. MaxViewports /\ sent \in 0 .. MaxViewports
    BY <1>1, MaxViewportsAssumption
  <2> QED
    BY <1>1, <2>1, <2>2, <2>3 DEF TypeOK
<1>5. Holding /\ ViewportsInOrder
  BY <1>1, <1>2, <1>3 DEF Holding, ViewportsInOrder
<1> QED
  BY <1>4, <1>5 DEF IInv

(* Every step keeps the invariant. *)
LEMMA NextInv == IInv /\ [Next]_vars => IInv'
<1> SUFFICES ASSUME IInv, [Next]_vars PROVE IInv'
  OBVIOUS
<1>1. TypeOK /\ Holding
  BY DEF IInv
<1>2. /\ vp' \in 0 .. MaxViewports /\ sent' \in 0 .. MaxViewports
      /\ inbox' \in Seq(0 .. MaxViewports + 1) /\ handled' \in Seq(1 .. MaxViewports)
      /\ Holding' /\ ViewportsInOrder'
  <2>1. CASE UNCHANGED <<reader, vp, inbox, sent, handled>>
    BY <2>1 DEF IInv, TypeOK, Holding, ViewportsInOrder, NextWaiting
  <2> QED
    BY <1>1, <2>1, Steps, SendInv, ReadInv, TakeInv, OtherInv
<1>3. TypeOK'
  BY <1>1, <1>2, SmallTypes DEF TypeOK
<1> QED
  BY <1>2, <1>3 DEF IInv

(* The handler always satisfies the inductive invariant.                   *)
THEOREM HandlerInvariant == Spec => []IInv
<1> QED
  BY InitInv, NextInv, PTL DEF Spec

(* TypeOK: among other things, viewportChan is closed exactly when its only*)
(* sender has ended (handler.go 74-97).                                    *)
THEOREM Typing == Spec => []TypeOK
<1>1. IInv => TypeOK
  BY DEF IInv
<1> QED
  BY <1>1, HandlerInvariant, PTL

(* ViewportsInOrder: the hub is handed the browser's viewports in order,   *)
(* none twice, and none is lost while the reader runs (handler.go 74-97).  *)
THEOREM HandedOverInOrder == Spec => []ViewportsInOrder
<1>1. IInv => ViewportsInOrder
  BY DEF IInv
<1> QED
  BY <1>1, HandlerInvariant, PTL
=============================================================================
