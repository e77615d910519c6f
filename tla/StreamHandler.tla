---------------------------- MODULE StreamHandler ----------------------------
(***************************************************************************)
(* server/handler.go: the goroutines of one connection.  The main loop     *)
(* hands viewports to the hub and writes deltas; the reader decodes the    *)
(* browser's messages and passes viewports on over the unbuffered          *)
(* viewportChan; the pinger pings.  Hub.tla models what the main loop does *)
(* to the hub; this module models when each goroutine waits and ends.      *)
(*                                                                         *)
(* ctx is context.Background(), so ctx.Done() never fires and nothing has  *)
(* a deadline.  Viewports are numbered in the order the browser sends them.*)
(*                                                                         *)
(* External: nhooyr.io/websocket.  Reads, writes and pings fail once the   *)
(* connection is lost or closed; a write waits while the peer takes        *)
(* nothing in; a ping waits for its pong, which only a read delivers; a    *)
(* message that is not JSON makes wsjson.Read fail and close.              *)
(***************************************************************************)
EXTENDS Naturals, Sequences

CONSTANT MaxViewports   \* bound: viewports the browser sends

ASSUME MaxViewportsAssumption == MaxViewports \in Nat

VARIABLES
  main,        \* "select", "handle", "write", "return", "unregistered", "done"
  reader,      \* "read", "send", "done"
  pinger,      \* "wait", "ping", "done"
  vp,          \* the viewport the reader is sending
  viewportChanClosed,
  delta,       \* client.ch holds a delta
  conn,        \* "open", "lost" (the peer is gone), "closed" (by this side)
  stalled,     \* the peer takes nothing in
  inbox,       \* messages that have arrived: see IsViewport
  sent,        \* viewports the browser has sent
  handled,     \* the viewports handed to the hub
  cause        \* why the main loop returned: "", "write", "channel"

goroutines == <<main, reader, pinger>>
wire == <<conn, stalled, inbox, sent>>
vars == <<goroutines, vp, viewportChanClosed, delta, wire, handled, cause>>

(* Messages: a viewport's number, one of another type, one that is no JSON.*)
Other == 0
Garbage == MaxViewports + 1
IsViewport(msg) == msg \in 1 .. MaxViewports

Init ==
  /\ main = "select" /\ reader = "read" /\ pinger = "wait"
  /\ vp = 0 /\ viewportChanClosed = FALSE /\ delta = FALSE
  /\ conn = "open" /\ stalled = FALSE /\ inbox = <<>> /\ sent = 0
  /\ handled = <<>> /\ cause = ""

-----------------------------------------------------------------------------
(* The peer *)

SendViewport ==
  /\ conn = "open"
  /\ sent < MaxViewports
  /\ sent' = sent + 1
  /\ inbox' = Append(inbox, sent + 1)
  /\ UNCHANGED <<goroutines, vp, viewportChanClosed, delta, conn, stalled, handled, cause>>

(* Messages of another type, and messages that are no JSON. *)
SendOther ==
  /\ conn = "open"
  /\ inbox = <<>>
  /\ \E kind \in {Other, Garbage} : inbox' = <<kind>>
  /\ UNCHANGED <<goroutines, vp, viewportChanClosed, delta, conn, stalled, sent, handled, cause>>

(* The peer stops taking data in, or takes it in again. *)
Stall ==
  /\ conn = "open"
  /\ stalled' = ~stalled
  /\ UNCHANGED <<goroutines, vp, viewportChanClosed, delta, conn, inbox, sent, handled, cause>>

Lose ==
  /\ conn = "open"
  /\ conn' = "lost"
  /\ UNCHANGED <<goroutines, vp, viewportChanClosed, delta, stalled, inbox, sent, handled, cause>>

-----------------------------------------------------------------------------
(* The reader: handleClientViewportUpdates *)

(* A message that has arrived can still be read after the peer is gone.    *)
ReadViewportDropping ==
  /\ reader = "read"
  /\ conn # "closed"
  /\ inbox # <<>> /\ IsViewport(Head(inbox))
  /\ vp' = Head(inbox)
  /\ inbox' = Tail(inbox)
  /\ reader' = IF main = "select" THEN "send" ELSE "read"
  /\ UNCHANGED <<main, pinger, viewportChanClosed, delta, conn, stalled, sent, handled, cause>>

ReadViewport ==
  /\ reader = "read"
  /\ conn # "closed"
  /\ inbox # <<>> /\ IsViewport(Head(inbox))
  /\ vp' = Head(inbox)
  /\ inbox' = Tail(inbox)
  /\ reader' = "send"
  /\ UNCHANGED <<main, pinger, viewportChanClosed, delta, conn, stalled, sent, handled, cause>>

ReadOther ==
  /\ reader = "read"
  /\ conn # "closed"
  /\ inbox # <<>> /\ Head(inbox) = Other
  /\ inbox' = Tail(inbox)
  /\ UNCHANGED <<goroutines, vp, viewportChanClosed, delta, conn, stalled, sent, handled, cause>>

(* Read fails; the deferred close(viewportChan). *)
ReadFailsSilently ==
  /\ reader = "read"
  /\ \/ conn # "open" /\ UNCHANGED conn
     \/ inbox # <<>> /\ Head(inbox) = Garbage /\ conn' = "closed"
  /\ reader' = "done"
  /\ UNCHANGED <<main, pinger, vp, viewportChanClosed, delta, stalled, inbox, sent, handled, cause>>

ReadFailsOnce ==
  /\ reader = "read"
  /\ \/ conn # "open" /\ UNCHANGED conn
     \/ inbox # <<>> /\ Head(inbox) = Garbage /\ conn' = "closed"
  /\ viewportChanClosed' = TRUE
  /\ UNCHANGED <<goroutines, vp, delta, stalled, inbox, sent, handled, cause>>

ReadFails ==
  /\ reader = "read"
  /\ \/ conn # "open" /\ UNCHANGED conn
     \/ inbox # <<>> /\ Head(inbox) = Garbage /\ conn' = "closed"
  /\ viewportChanClosed' = TRUE
  /\ reader' = "done"
  /\ UNCHANGED <<main, pinger, vp, delta, stalled, inbox, sent, handled, cause>>

-----------------------------------------------------------------------------
(* The main loop *)

(* viewportChan is unbuffered: sender and receiver meet. *)
TakeViewportLast ==
  /\ main = "select" /\ reader = "send" /\ ~delta
  /\ handled' = Append(handled, vp)
  /\ main' = "handle" /\ reader' = "read"
  /\ UNCHANGED <<pinger, vp, viewportChanClosed, delta, wire, cause>>

TakeViewport ==
  /\ main = "select" /\ reader = "send"
  /\ handled' = Append(handled, vp)
  /\ main' = "handle" /\ reader' = "read"
  /\ UNCHANGED <<pinger, vp, viewportChanClosed, delta, wire, cause>>

(* HandleViewportUpdate, which may leave a delta. *)
HandleViewportUpdate ==
  /\ main = "handle"
  /\ main' = "select"
  /\ \E pushed \in BOOLEAN : delta' = (delta \/ pushed)
  /\ UNCHANGED <<reader, pinger, vp, viewportChanClosed, wire, handled, cause>>

TakeClosed ==
  /\ main = "select"
  /\ viewportChanClosed
  /\ main' = "return" /\ cause' = "channel"
  /\ UNCHANGED <<reader, pinger, vp, viewportChanClosed, delta, wire, handled>>

TakeDelta ==
  /\ main = "select"
  /\ delta
  /\ delta' = FALSE
  /\ main' = "write"
  /\ UNCHANGED <<reader, pinger, vp, viewportChanClosed, wire, handled, cause>>

Write ==
  /\ main = "write"
  /\ conn = "open" /\ ~stalled
  /\ main' = "select"
  /\ UNCHANGED <<reader, pinger, vp, viewportChanClosed, delta, wire, handled, cause>>

WriteFails ==
  /\ main = "write"
  /\ conn # "open"
  /\ main' = "return" /\ cause' = "write"
  /\ UNCHANGED <<reader, pinger, vp, viewportChanClosed, delta, wire, handled>>

(* The deferred calls, last one first: Unregister, then Close. *)
Unregister ==
  /\ main = "return"
  /\ main' = "unregistered"
  /\ UNCHANGED <<reader, pinger, vp, viewportChanClosed, delta, wire, handled, cause>>

Close ==
  /\ main = "unregistered"
  /\ main' = "done"
  /\ conn' = "closed"
  /\ UNCHANGED <<reader, pinger, vp, viewportChanClosed, delta, stalled, inbox, sent, handled,
                 cause>>

(* A sweep of the hub leaves a delta while the client is registered. *)
HubPush ==
  /\ main \notin {"unregistered", "done"}
  /\ ~delta
  /\ delta' = TRUE
  /\ UNCHANGED <<goroutines, vp, viewportChanClosed, wire, handled, cause>>

-----------------------------------------------------------------------------
(* The pinger *)

Tick ==
  /\ pinger = "wait"
  /\ pinger' = "ping"
  /\ UNCHANGED <<main, reader, vp, viewportChanClosed, delta, wire, handled, cause>>

Pong ==
  /\ pinger = "ping"
  /\ conn = "open" /\ ~stalled /\ reader = "read"
  /\ pinger' = "wait"
  /\ UNCHANGED <<main, reader, vp, viewportChanClosed, delta, wire, handled, cause>>

PingFailsAgain ==
  /\ pinger = "ping"
  /\ conn # "open"
  /\ pinger' = "wait"
  /\ UNCHANGED <<main, reader, vp, viewportChanClosed, delta, wire, handled, cause>>

PingFails ==
  /\ pinger = "ping"
  /\ conn # "open"
  /\ pinger' = "done"
  /\ UNCHANGED <<main, reader, vp, viewportChanClosed, delta, wire, handled, cause>>

-----------------------------------------------------------------------------
Reader == ReadViewport \/ ReadOther \/ ReadFails

Main ==
  \/ TakeViewport \/ TakeClosed \/ TakeDelta
  \/ HandleViewportUpdate \/ Write \/ WriteFails \/ Unregister \/ Close

Pinger == Tick \/ Pong \/ PingFails

Peer == SendViewport \/ SendOther \/ Stall \/ Lose

Next == Reader \/ Main \/ Pinger \/ Peer \/ HubPush

Spec == Init /\ [][Next]_vars

(* The goroutines run when they can.  A select with several cases ready    *)
(* picks one at random, so no case is passed over for ever.  Neither the   *)
(* peer nor the hub owes anything.                                         *)
FairSpec ==
  /\ Spec
  /\ WF_vars(Reader) /\ WF_vars(Main) /\ WF_vars(Pinger)
  /\ SF_vars(TakeViewport) /\ SF_vars(TakeClosed)

-----------------------------------------------------------------------------
(* Every variable keeps its type; viewportChan is closed exactly when its  *)
(* only sender has ended, so that nothing is ever sent on it closed, and   *)
(* the main loop has a cause to return exactly when it has left the loop.  *)
TypeOK ==
  /\ main \in {"select", "handle", "write", "return", "unregistered", "done"}
  /\ reader \in {"read", "send", "done"}
  /\ pinger \in {"wait", "ping", "done"}
  /\ vp \in 0 .. MaxViewports /\ sent \in 0 .. MaxViewports
  /\ viewportChanClosed <=> reader = "done"
  /\ conn \in {"open", "lost", "closed"}
  /\ delta \in BOOLEAN /\ stalled \in BOOLEAN
  /\ inbox \in Seq(0 .. MaxViewports + 1)
  /\ handled \in Seq(1 .. MaxViewports)
  /\ cause \in {"", "write", "channel"}
  /\ cause # "" <=> main \in {"return", "unregistered", "done"}

(* The first viewport neither handled nor in the reader's hands.           *)
NextWaiting == Len(handled) + (IF reader = "send" THEN 2 ELSE 1)

(* The hub is handed the browser's viewports in the order they were sent,  *)
(* none twice, and none is lost while the reader runs: what it holds is    *)
(* the next one, and the rest wait in the inbox in their order (handler.go *)
(* 74-97).                                                                 *)
ViewportsInOrder ==
  /\ \A i \in DOMAIN handled : handled[i] = i
  /\ reader = "send" => vp = Len(handled) + 1
  /\ reader # "done" =>
       /\ {inbox[i] : i \in DOMAIN inbox} \cap (1 .. MaxViewports) = NextWaiting .. sent
       /\ \A i, j \in DOMAIN inbox :
            i < j /\ IsViewport(inbox[i]) /\ IsViewport(inbox[j]) => inbox[i] < inbox[j]

(* A connection that ends, for whatever reason, ends its main loop and so  *)
(* its place in the hub, and then its pinger, although nothing in them has *)
(* a deadline and ctx never ends (handler.go 32-72).                       *)
HandlerReturns == conn # "open" ~> main = "done" /\ pinger = "done"

(* The reader ends too, unless the main loop returned on a failed write    *)
(* while the reader held a viewport: then nothing receives it, and the     *)
(* goroutine waits for ever (handler.go 68, 89).                           *)
ReaderReturns ==
  main = "done" ~> [](reader = "done" \/ (reader = "send" /\ cause = "write"))

(* While the connection lasts, a viewport is handled in the end, however   *)
(* many deltas compete with it, if the peer keeps taking in what is        *)
(* written (handler.go 54-71).                                             *)
ViewportsHandled ==
  <>[]~stalled =>
    \A n \in 1 .. MaxViewports : sent >= n ~> (Len(handled) >= n \/ conn # "open")
=============================================================================
