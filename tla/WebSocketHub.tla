----------------------------- MODULE WebSocketHub -----------------------------
(***************************************************************************)
(* The hub that pushes updates to browsers.  A client subscribes and       *)
(* unsubscribes through two buffered channels that the event loop of the   *)
(* hub empties in any order; Publish copies the subscribers under the lock *)
(* and sends to them after it; two goroutines per client read and write.   *)
(*                                                                         *)
(* All clients subscribe to one topic: the loop updates the maps of all    *)
(* topics of a client under one lock.                                      *)
(***************************************************************************)
EXTENDS Integers, Sequences

CONSTANTS
    Clients,        \* connections of browsers
    Publishers,     \* goroutines that call Publish
    SendBuffer,     \* sendBufferSize (32)
    ChanSize,       \* capacity of register and of unregister (16)
    MaxPublishes    \* bound on the calls of Publish

ASSUME BufferAssumption == SendBuffer \in Nat \ {0} /\ ChanSize \in Nat \ {0}
ASSUME PublishAssumption == MaxPublishes \in Nat

VARIABLES
    clients,        \* hub: registered clients
    register,       \* hub: channel of clients to register
    unregister,     \* hub: channel of clients to unregister
    stopped,        \* hub: the event loop has ended
    closes,         \* [Clients -> how often its send channel was closed]
    send,           \* [Clients -> messages in its send channel]
    conn,           \* [Clients -> its connection]
    reader,         \* [Clients -> where Run and readPump are]
    writer,         \* [Clients -> where writePump is]
    targets,        \* [Publishers -> clients it still has to send to]
    published       \* calls of Publish so far

hubVars == <<clients, register, unregister, stopped>>
sendVars == <<closes, send>>
clientVars == <<conn, reader, writer>>
publishVars == <<targets, published>>
hubAllVars == <<hubVars, sendVars, clientVars, publishVars>>

-----------------------------------------------------------------------------
HubInit ==
    /\ clients = {}
    /\ register = <<>>
    /\ unregister = <<>>
    /\ stopped = FALSE
    /\ closes = [c \in Clients |-> 0]
    /\ send = [c \in Clients |-> 0]
    /\ conn = [c \in Clients |-> "none"]
    /\ reader = [c \in Clients |-> "none"]
    /\ writer = [c \in Clients |-> "none"]
    /\ targets = [p \in Publishers |-> {}]
    /\ published = 0

-----------------------------------------------------------------------------
(* A client: Run, readPump and writePump.                                  *)

(* NewClient upgrades the request. *)
NewClient(c) ==
    /\ conn[c] = "none"
    /\ conn' = [conn EXCEPT ![c] = "open"]

(* ServeWS lets a request with a valid token in and calls Run. *)
Connect(c) ==
    /\ NewClient(c)
    /\ reader' = [reader EXCEPT ![c] = "subscribing"]
    /\ UNCHANGED <<hubVars, sendVars, writer, publishVars>>

(* Subscribe puts the client into the channel; then the pumps start. *)
Subscribe(c) ==
    /\ reader[c] = "subscribing"
    /\ Len(register) < ChanSize
    /\ register' = Append(register, c)
    /\ reader' = [reader EXCEPT ![c] = "reading"]
    /\ writer' = [writer EXCEPT ![c] = "writing"]
    /\ UNCHANGED <<clients, unregister, stopped, sendVars, conn, publishVars>>

(* The browser closes the connection, or the read deadline passes. *)
ConnectionLost(c) ==
    /\ conn[c] = "open"
    /\ conn' = [conn EXCEPT ![c] = "closed"]
    /\ UNCHANGED <<hubVars, sendVars, reader, writer, publishVars>>

(* ReadMessage fails, and readPump leaves its loop. *)
ReadFails(c) ==
    /\ reader[c] = "reading"
    /\ conn[c] = "closed"
    /\ reader' = [reader EXCEPT ![c] = "unsubscribing"]
    /\ UNCHANGED <<hubVars, sendVars, conn, writer, publishVars>>

(* Unsubscribe waits for room in the channel. *)
Unsubscribe(c) ==
    /\ reader[c] = "unsubscribing"
    /\ Len(unregister) < ChanSize
    /\ unregister' = Append(unregister, c)
    /\ reader' = [reader EXCEPT ![c] = "ended"]
    /\ UNCHANGED <<clients, register, stopped, sendVars, conn, writer, publishVars>>

(* writePump ends and closes the connection. *)
EndWriter(c) ==
    /\ writer' = [writer EXCEPT ![c] = "ended"]
    /\ conn' = [conn EXCEPT ![c] = "closed"]

(* A message goes out. *)
WriteMessage(c) ==
    /\ writer[c] = "writing"
    /\ conn[c] = "open"
    /\ send[c] > 0
    /\ send' = [send EXCEPT ![c] = @ - 1]
    /\ UNCHANGED <<hubVars, closes, clientVars, publishVars>>

(* The write of a message or a ping fails on a closed connection. *)
WriteFails(c) ==
    /\ writer[c] = "writing"
    /\ conn[c] = "closed"
    /\ EndWriter(c)
    /\ UNCHANGED <<hubVars, sendVars, reader, publishVars>>

(* The browser does not read, and the write deadline passes. *)
WriteTimesOut(c) ==
    /\ writer[c] = "writing"
    /\ conn[c] = "open"
    /\ EndWriter(c)
    /\ UNCHANGED <<hubVars, sendVars, reader, publishVars>>

(* Mutant of CloseFrame: the connection is left to the browser. *)
CloseFrameOnly(c) ==
    /\ writer[c] = "writing"
    /\ closes[c] > 0 /\ send[c] = 0
    /\ writer' = [writer EXCEPT ![c] = "ended"]
    /\ UNCHANGED <<hubVars, sendVars, reader, conn, publishVars>>

(* The closed channel is empty: a close frame, and the pump ends. *)
CloseFrame(c) ==
    /\ writer[c] = "writing"
    /\ closes[c] > 0 /\ send[c] = 0
    /\ EndWriter(c)
    /\ UNCHANGED <<hubVars, sendVars, reader, publishVars>>

-----------------------------------------------------------------------------
(* The event loop of the hub.  Its select takes any channel that is ready. *)

HubRegister ==
    /\ ~stopped
    /\ register # <<>>
    /\ clients' = clients \cup {Head(register)}
    /\ register' = Tail(register)
    /\ UNCHANGED <<unregister, stopped, sendVars, clientVars, publishVars>>

(* Mutant of HubUnregister: the membership is not checked. *)
HubUnregisterUnchecked ==
    /\ ~stopped
    /\ unregister # <<>>
    /\ LET c == Head(unregister)
       IN  /\ clients' = clients \ {c}
           /\ closes' = [closes EXCEPT ![c] = @ + 1]
    /\ unregister' = Tail(unregister)
    /\ UNCHANGED <<register, stopped, send, clientVars, publishVars>>

(* Only a client that is registered is removed and its channel closed. *)
HubUnregister ==
    /\ ~stopped
    /\ unregister # <<>>
    /\ LET c == Head(unregister)
       IN  /\ clients' = clients \ {c}
           /\ closes' = IF c \in clients THEN [closes EXCEPT ![c] = @ + 1] ELSE closes
    /\ unregister' = Tail(unregister)
    /\ UNCHANGED <<register, stopped, send, clientVars, publishVars>>

(* Mutant of HubStop: the channels of former clients are closed again. *)
HubStopClosesAll ==
    /\ ~stopped
    /\ stopped' = TRUE
    /\ closes' = [c \in Clients |-> IF writer[c] # "none" THEN closes[c] + 1 ELSE closes[c]]
    /\ clients' = {}
    /\ UNCHANGED <<register, unregister, send, clientVars, publishVars>>

(* Shutdown of the server: the channels of all clients are closed. *)
HubStop ==
    /\ ~stopped
    /\ stopped' = TRUE
    /\ closes' = [c \in Clients |-> IF c \in clients THEN closes[c] + 1 ELSE closes[c]]
    /\ clients' = {}
    /\ UNCHANGED <<register, unregister, send, clientVars, publishVars>>

-----------------------------------------------------------------------------
(* Publish copies the subscribers under the read lock. *)
Publish(p) ==
    /\ targets[p] = {}
    /\ published < MaxPublishes
    /\ targets' = [targets EXCEPT ![p] = clients]
    /\ published' = published + 1
    /\ UNCHANGED <<hubVars, sendVars, clientVars>>

(* trySend succeeds. *)
TrySend(p, c) ==
    /\ c \in targets[p]
    /\ closes[c] = 0 /\ send[c] < SendBuffer
    /\ send' = [send EXCEPT ![c] = @ + 1]
    /\ targets' = [targets EXCEPT ![p] = @ \ {c}]
    /\ UNCHANGED <<hubVars, closes, clientVars, published>>

(* Its buffer is full or its channel closed: the client is queued to be    *)
(* disconnected, unless the channel is full.                               *)
TrySendFails(p, c) ==
    /\ c \in targets[p]
    /\ closes[c] > 0 \/ send[c] = SendBuffer
    /\ unregister' = IF Len(unregister) < ChanSize THEN Append(unregister, c) ELSE unregister
    /\ targets' = [targets EXCEPT ![p] = @ \ {c}]
    /\ UNCHANGED <<clients, register, stopped, sendVars, clientVars, published>>

-----------------------------------------------------------------------------
ReadPump(c) == Subscribe(c) \/ ReadFails(c) \/ Unsubscribe(c)

WritePump(c) == WriteMessage(c) \/ WriteFails(c) \/ CloseFrame(c)

PublishStep(p) == \E c \in Clients : TrySend(p, c) \/ TrySendFails(p, c)

HubNext ==
    \/ \E c \in Clients : \/ Connect(c)
                          \/ ConnectionLost(c)
                          \/ WriteTimesOut(c)
                          \/ ReadPump(c)
                          \/ WritePump(c)
    \/ HubRegister
    \/ HubUnregister
    \/ HubStop
    \/ \E p \in Publishers : Publish(p) \/ PublishStep(p)

HubSpec == HubInit /\ [][HubNext]_hubAllVars

(* Goroutines are scheduled, and the select takes a ready channel at       *)
(* random, so none of the two waits for ever.                              *)
HubFairSpec ==
    /\ HubSpec
    /\ \A c \in Clients : WF_hubAllVars(ReadPump(c)) /\ WF_hubAllVars(WritePump(c))
    /\ WF_hubAllVars(HubRegister)
    /\ WF_hubAllVars(HubUnregister)
    /\ \A p \in Publishers : WF_hubAllVars(PublishStep(p))

-----------------------------------------------------------------------------
(* Properties.                                                             *)

(* Every variable keeps its type; a send channel is closed at most once,   *)
(* however often its client is queued (a second close panics).             *)
HubTypeOK ==
    /\ clients \subseteq Clients
    /\ register \in Seq(Clients) /\ Len(register) <= ChanSize
    /\ unregister \in Seq(Clients) /\ Len(unregister) <= ChanSize
    /\ stopped \in BOOLEAN
    /\ closes \in [Clients -> 0 .. 1]
    /\ send \in [Clients -> 0 .. SendBuffer]
    /\ conn \in [Clients -> {"none", "open", "closed"}]
    /\ reader \in [Clients -> {"none", "subscribing", "reading", "unsubscribing", "ended"}]
    /\ writer \in [Clients -> {"none", "writing", "ended"}]
    /\ targets \in [Publishers -> SUBSET Clients]
    /\ published \in 0 .. MaxPublishes

(* Publish finds only clients whose channel was open when it looked, and   *)
(* none after shutdown.                                                    *)
RegisteredIsOpen ==
    /\ \A c \in clients : closes[c] = 0
    /\ stopped => clients = {}

(* A connection that either side has given up is released: both pumps end, *)
(* while the hub runs.                                                     *)
ConnectionIsReleased ==
    \A c \in Clients :
        conn[c] = "closed" \/ closes[c] > 0
            ~> (reader[c] = "ended" /\ writer[c] = "ended") \/ stopped
=============================================================================
