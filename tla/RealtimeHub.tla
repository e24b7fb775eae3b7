----------------------------- MODULE RealtimeHub -----------------------------
(***************************************************************************)
(* The websocket hub of aero-gateway (internal/realtime/hub.go and         *)
(* handler.go).  A connection is served by three goroutines: the one of    *)
(* ServeConnection, which writes, the read loop, which binds the           *)
(* connection to a crypto device, and the one that close starts.  RPC      *)
(* handlers publish envelopes, ask for revalidation and close connections; *)
(* each first copies its targets under the lock of the hub and then visits *)
(* them one by one without it.                                             *)
(*                                                                         *)
(* An envelope is what a reader of the properties needs to know of it:     *)
(* whether the token of the connection had been revoked when it was put    *)
(* into the queue.  The maps by user and by login have the same entries    *)
(* and are one set.                                                        *)
(***************************************************************************)
EXTENDS Naturals, Sequences

CONSTANTS
    Conns, Users, Tokens, Devices,
    UserOf, TokenOf,   \* the principal and the token of a connection
    Callers,           \* RPC handlers that use the hub at the same time
    Buffer,            \* defaultOutboundBuffer
    NoDevice

ASSUME HubAssumption ==
    /\ UserOf \in [Conns -> Users]
    /\ TokenOf \in [Conns -> Tokens]
    /\ Buffer \in Nat \ {0}
    /\ NoDevice \notin Devices

VARIABLES
    revoked,              \* tokens identity does not accept any more
    hubClosed,            \* Hub.closed
    sessions,             \* Hub.sessions and Hub.sessionsByLogin
    byDevice,             \* Hub.sessionsByCryptoDevice
    bound,                \* session.boundCryptoDeviceID
    pc, job,              \* where ServeConnection is, and what it is about to do
    outbound,             \* session.outbound
    revalidation,         \* session.revalidation holds a signal
    stopping, cancelled,  \* session.stopping, and the end of session.ctx
    reader, wanted,       \* where the read loop is, and the device it binds
    caller,               \* what a handler does and whom it still has to visit
    received              \* the last envelope written to the client

hubVars == <<revoked, hubClosed, sessions, byDevice, bound, pc, job, outbound, revalidation,
             stopping, cancelled, reader, wanted, caller, received>>

Envelopes == {"clean", "late"}
Phases == {"idle", "upgrade", "greet", "loop", "check", "write", "unwind", "leave", "gone"}

QueuesOK == /\ outbound \in [Conns -> Seq(Envelopes)]
            /\ \A c \in Conns : Len(outbound[c]) <= Buffer

HubTypeOK ==
    /\ revoked \subseteq Tokens
    /\ hubClosed \in BOOLEAN
    /\ sessions \subseteq Conns
    /\ byDevice \in [Devices -> SUBSET Conns]
    /\ bound \in [Conns -> Devices \cup {NoDevice}]
    /\ pc \in [Conns -> Phases]
    /\ job \in [Conns -> Envelopes \cup {"none", "ping"}]
    /\ QueuesOK
    /\ revalidation \in [Conns -> BOOLEAN]
    /\ stopping \in [Conns -> BOOLEAN]
    /\ cancelled \in [Conns -> BOOLEAN]
    /\ reader \in [Conns -> {"off", "read", "authorize", "bind", "ack", "over"}]
    /\ wanted \in [Conns -> Devices \cup {NoDevice}]
    /\ caller \in [Callers -> [op: {"idle", "publish", "revalidate", "close"}, targets: SUBSET Conns]]
    /\ received \in [Conns -> Envelopes \cup {"none"}]

NoCall == [op |-> "idle", targets |-> {}]

HubInit ==
    /\ revoked = {}
    /\ hubClosed = FALSE
    /\ sessions = {}
    /\ byDevice = [d \in Devices |-> {}]
    /\ bound = [c \in Conns |-> NoDevice]
    /\ pc = [c \in Conns |-> "idle"]
    /\ job = [c \in Conns |-> "none"]
    /\ outbound = [c \in Conns |-> <<>>]
    /\ revalidation = [c \in Conns |-> FALSE]
    /\ stopping = [c \in Conns |-> FALSE]
    /\ cancelled = [c \in Conns |-> FALSE]
    /\ reader = [c \in Conns |-> "off"]
    /\ wanted = [c \in Conns |-> NoDevice]
    /\ caller = [p \in Callers |-> NoCall]
    /\ received = [c \in Conns |-> "none"]

indexVars == <<hubClosed, sessions, byDevice, bound>>
readVars == <<reader, wanted>>

-----------------------------------------------------------------------------
(* session.close: the first call marks the session, the goroutine it       *)
(* starts closes the socket and cancels the context (CloseConn).           *)
Stop(c) == stopping' = [stopping EXCEPT ![c] = TRUE]

CloseConn(c) ==
    /\ stopping[c]
    /\ ~cancelled[c]
    /\ cancelled' = [cancelled EXCEPT ![c] = TRUE]
    /\ UNCHANGED <<revoked, indexVars, pc, job, outbound, revalidation, stopping, readVars,
                   caller, received>>

(* Mutant: the queue has no limit.                                         *)
HasRoom_unlimited(c) == ~stopping[c]

(* session.enqueue succeeds.                                               *)
HasRoom(c) == ~stopping[c] /\ Len(outbound[c]) < Buffer

Enqueue(c) ==
    outbound' = [outbound EXCEPT ![c] = Append(@, IF TokenOf[c] \in revoked THEN "late" ELSE "clean")]

(* An envelope is queued or the session is closed.                         *)
EnqueueOrStop(c) == IF HasRoom(c) THEN Enqueue(c) /\ UNCHANGED stopping
                                  ELSE Stop(c) /\ UNCHANGED outbound

-----------------------------------------------------------------------------
(* Handler.ServeHTTP: identity accepts the token.                          *)
Connect(c) ==
    /\ pc[c] = "idle"
    /\ TokenOf[c] \notin revoked
    /\ pc' = [pc EXCEPT ![c] = "upgrade"]
    /\ UNCHANGED <<revoked, indexVars, job, outbound, revalidation, stopping, cancelled, readVars,
                   caller, received>>

(* Mutant: a connection is taken although the hub is closed.               *)
Register_always(c) ==
    /\ pc[c] = "upgrade"
    /\ pc' = [pc EXCEPT ![c] = "greet"]
    /\ sessions' = sessions \cup {c}
    /\ UNCHANGED <<revoked, hubClosed, byDevice, bound, job, outbound, revalidation, stopping,
                   cancelled, readVars, caller, received>>

(* Hub.register, unless the upgrade fails.                                 *)
Register(c) ==
    /\ pc[c] = "upgrade"
    /\ \/ pc' = [pc EXCEPT ![c] = "gone"] /\ UNCHANGED sessions
       \/ /\ ~hubClosed
          /\ pc' = [pc EXCEPT ![c] = "greet"]
          /\ sessions' = sessions \cup {c}
    /\ UNCHANGED <<revoked, hubClosed, byDevice, bound, job, outbound, revalidation, stopping,
                   cancelled, readVars, caller, received>>

(* ServeConnection queues the ready envelope and starts the loops.         *)
Greet(c) ==
    /\ pc[c] = "greet"
    /\ EnqueueOrStop(c)
    /\ IF HasRoom(c)
         THEN /\ pc' = [pc EXCEPT ![c] = "loop"]
              /\ reader' = [reader EXCEPT ![c] = "read"]
         ELSE pc' = [pc EXCEPT ![c] = "unwind"] /\ UNCHANGED reader
    /\ UNCHANGED <<revoked, indexVars, job, revalidation, cancelled, wanted, caller, received>>

(* The select of session.run.                                              *)
Finish(c) ==
    /\ pc[c] = "loop"
    /\ cancelled[c] \/ reader[c] = "over"
    /\ pc' = [pc EXCEPT ![c] = "unwind"]
    /\ UNCHANGED <<revoked, indexVars, job, outbound, revalidation, stopping, cancelled, readVars,
                   caller, received>>

Signalled(c) ==
    /\ pc[c] = "loop"
    /\ revalidation[c]
    /\ revalidation' = [revalidation EXCEPT ![c] = FALSE]
    /\ pc' = [pc EXCEPT ![c] = "check"]
    /\ UNCHANGED <<revoked, indexVars, job, outbound, stopping, cancelled, readVars, caller, received>>

(* Mutant: an envelope is written as soon as it is taken.                  *)
AfterTake_unchecked == "write"

AfterTake == "check"

Take(c) ==
    /\ pc[c] = "loop"
    /\ outbound[c] # <<>>
    /\ job' = [job EXCEPT ![c] = Head(outbound[c])]
    /\ outbound' = [outbound EXCEPT ![c] = Tail(@)]
    /\ pc' = [pc EXCEPT ![c] = AfterTake]
    /\ UNCHANGED <<revoked, indexVars, revalidation, stopping, cancelled, readVars, caller, received>>

(* Mutant: the ticker only pings.                                          *)
AfterTick_pingOnly == "write"

AfterTick == "check"

Tick(c) ==
    /\ pc[c] = "loop"
    /\ job' = [job EXCEPT ![c] = "ping"]
    /\ pc' = [pc EXCEPT ![c] = AfterTick]
    /\ UNCHANGED <<revoked, indexVars, outbound, revalidation, stopping, cancelled, readVars,
                   caller, received>>

(* session.revalidate: identity still accepts the token, or it does not,   *)
(* or it does not answer in time; the latter two close the session.        *)
Revalidate(c) ==
    /\ pc[c] = "check"
    /\ \/ /\ TokenOf[c] \notin revoked
          /\ ~stopping[c]
          /\ pc' = [pc EXCEPT ![c] = IF job[c] = "none" THEN "loop" ELSE "write"]
          /\ UNCHANGED <<stopping, job>>
       \/ /\ Stop(c)
          /\ pc' = [pc EXCEPT ![c] = "unwind"]
          /\ job' = [job EXCEPT ![c] = "none"]
    /\ UNCHANGED <<revoked, indexVars, outbound, revalidation, cancelled, readVars, caller, received>>

(* writeEnvelope or ping, which may fail.                                  *)
Write(c) ==
    /\ pc[c] = "write"
    /\ \/ /\ ~cancelled[c]
          /\ received' = IF job[c] = "ping" THEN received ELSE [received EXCEPT ![c] = job[c]]
          /\ pc' = [pc EXCEPT ![c] = "loop"]
          /\ UNCHANGED stopping
       \/ /\ Stop(c)
          /\ pc' = [pc EXCEPT ![c] = "unwind"]
          /\ UNCHANGED received
    /\ job' = [job EXCEPT ![c] = "none"]
    /\ UNCHANGED <<revoked, indexVars, outbound, revalidation, cancelled, readVars, caller>>

(* The deferred calls of ServeConnection: close comes before unregister.   *)
Unwind(c) ==
    /\ pc[c] = "unwind"
    /\ Stop(c)
    /\ pc' = [pc EXCEPT ![c] = "leave"]
    /\ UNCHANGED <<revoked, indexVars, job, outbound, revalidation, cancelled, readVars, caller,
                   received>>

(* unbindSessionLocked.                                                    *)
WithoutBinding(c) ==
    [d \in Devices |-> IF d = bound[c] THEN byDevice[d] \ {c} ELSE byDevice[d]]

(* Hub.unregister.                                                         *)
Unregister(c) ==
    /\ pc[c] = "leave"
    /\ sessions' = sessions \ {c}
    /\ byDevice' = WithoutBinding(c)
    /\ bound' = [bound EXCEPT ![c] = NoDevice]
    /\ pc' = [pc EXCEPT ![c] = "gone"]
    /\ UNCHANGED <<revoked, hubClosed, job, outbound, revalidation, stopping, cancelled, readVars,
                   caller, received>>

-----------------------------------------------------------------------------
(* The read loop.  A client asks to bind a device, sends something else,   *)
(* which is answered with a rejection, or goes away.                       *)
ReadBind(c, d) ==
    /\ reader[c] = "read"
    /\ ~cancelled[c]
    /\ reader' = [reader EXCEPT ![c] = "authorize"]
    /\ wanted' = [wanted EXCEPT ![c] = d]
    /\ UNCHANGED <<revoked, indexVars, pc, job, outbound, revalidation, stopping, cancelled,
                   caller, received>>

ReadOther(c) ==
    /\ reader[c] = "read"
    /\ ~cancelled[c]
    /\ EnqueueOrStop(c)
    /\ UNCHANGED <<revoked, indexVars, pc, job, revalidation, cancelled, readVars, caller, received>>

(* AuthorizeActiveDevice; after a rejection a full queue does not matter.  *)
AuthorizeDevice(c) ==
    /\ reader[c] = "authorize"
    /\ \/ /\ TokenOf[c] \notin revoked
          /\ reader' = [reader EXCEPT ![c] = "bind"]
          /\ UNCHANGED outbound
          /\ UNCHANGED wanted
       \/ /\ reader' = [reader EXCEPT ![c] = "read"]
          /\ wanted' = [wanted EXCEPT ![c] = NoDevice]
          /\ IF HasRoom(c) THEN Enqueue(c) ELSE UNCHANGED outbound
    /\ UNCHANGED <<revoked, indexVars, pc, job, revalidation, stopping, cancelled, caller, received>>

(* Mutant: a session that is stopping may still be bound.                  *)
MayBind_stopping(c) == ~hubClosed

MayBind(c) == ~hubClosed /\ ~stopping[c]

(* bindSessionToCryptoDevice.                                              *)
Bind(c) ==
    LET d == wanted[c] IN
    /\ reader[c] = "bind"
    /\ reader' = [reader EXCEPT ![c] = "ack"]
    /\ wanted' = [wanted EXCEPT ![c] = NoDevice]
    /\ IF MayBind(c)
         THEN /\ byDevice' = [WithoutBinding(c) EXCEPT ![d] = @ \cup {c}]
              /\ bound' = [bound EXCEPT ![c] = d]
         ELSE UNCHANGED <<byDevice, bound>>
    /\ UNCHANGED <<revoked, hubClosed, sessions, pc, job, outbound, revalidation, stopping,
                   cancelled, caller, received>>

AckBind(c) ==
    /\ reader[c] = "ack"
    /\ reader' = [reader EXCEPT ![c] = "read"]
    /\ EnqueueOrStop(c)
    /\ UNCHANGED <<revoked, indexVars, pc, job, revalidation, cancelled, wanted, caller, received>>

ReadEnds(c) ==
    /\ reader[c] = "read"
    /\ reader' = [reader EXCEPT ![c] = "over"]
    /\ UNCHANGED <<revoked, indexVars, pc, job, outbound, revalidation, stopping, cancelled,
                   wanted, caller, received>>

-----------------------------------------------------------------------------
Remaining(op, targets) == IF targets = {} THEN NoCall ELSE [op |-> op, targets |-> targets]

(* A handler copies its targets under the lock of the hub.                 *)
Start(p, op, targets) ==
    /\ caller[p] = NoCall
    /\ caller' = [caller EXCEPT ![p] = Remaining(op, targets)]
    /\ UNCHANGED <<revoked, sessions, byDevice, bound, pc, job, outbound, revalidation, stopping,
                   cancelled, readVars, received>>

PublishToUser(p, u) ==
    /\ ~hubClosed
    /\ Start(p, "publish", {c \in sessions : UserOf[c] = u})
    /\ UNCHANGED hubClosed

PublishToCryptoDevice(p, d) ==
    /\ ~hubClosed
    /\ Start(p, "publish", byDevice[d])
    /\ UNCHANGED hubClosed

RevalidateUser(p, u) ==
    /\ ~hubClosed
    /\ Start(p, "revalidate", {c \in sessions : UserOf[c] = u})
    /\ UNCHANGED hubClosed

(* After a logout, which has revoked the token.                            *)
CloseToken(p, t) ==
    /\ t \in revoked
    /\ Start(p, "close", {c \in sessions : TokenOf[c] = t})
    /\ UNCHANGED hubClosed

HubClose(p) ==
    /\ ~hubClosed
    /\ hubClosed' = TRUE
    /\ Start(p, "close", sessions)

(* The handler goes to the next of its targets.                            *)
Visit(p, c) ==
    /\ c \in caller[p].targets
    /\ caller' = [caller EXCEPT ![p] = Remaining(@.op, @.targets \ {c})]
    /\ \/ caller[p].op = "publish" /\ EnqueueOrStop(c) /\ UNCHANGED revalidation
       \/ /\ caller[p].op = "revalidate"
          /\ revalidation' = [revalidation EXCEPT ![c] = TRUE]
          /\ UNCHANGED <<outbound, stopping>>
       \/ caller[p].op = "close" /\ Stop(c) /\ UNCHANGED <<outbound, revalidation>>
    /\ UNCHANGED <<revoked, indexVars, pc, job, cancelled, readVars, received>>

(* External: identity revokes a session (logout, revocation, expiry).      *)
IdentityRevokes(t) ==
    /\ t \notin revoked
    /\ revoked' = revoked \cup {t}
    /\ UNCHANGED <<indexVars, pc, job, outbound, revalidation, stopping, cancelled, readVars,
                   caller, received>>

-----------------------------------------------------------------------------
ServeConnection(c) == \/ Register(c) \/ Greet(c)
                      \/ Finish(c) \/ Signalled(c) \/ Take(c) \/ Tick(c)
                      \/ Revalidate(c) \/ Write(c)
                      \/ Unwind(c) \/ Unregister(c)

ReadLoop(c) == \/ \E d \in Devices : ReadBind(c, d)
               \/ ReadOther(c) \/ AuthorizeDevice(c) \/ Bind(c) \/ AckBind(c) \/ ReadEnds(c)

Handler(p) == \/ \E u \in Users : PublishToUser(p, u) \/ RevalidateUser(p, u)
              \/ \E d \in Devices : PublishToCryptoDevice(p, d)
              \/ \E t \in Tokens : CloseToken(p, t)
              \/ HubClose(p)

HubNext == \/ \E c \in Conns : Connect(c) \/ ServeConnection(c) \/ ReadLoop(c) \/ CloseConn(c)
           \/ \E p \in Callers : Handler(p) \/ \E c \in Conns : Visit(p, c)
           \/ \E t \in Tokens : IdentityRevokes(t)

HubSpec == HubInit /\ [][HubNext]_hubVars

(* Every goroutine goes on: each call ServeConnection makes has a timeout, *)
(* the ticker fires, closing a socket is bounded by the library, and a     *)
(* handler visits its targets without blocking.                            *)
HubFairSpec ==
    /\ HubSpec
    /\ \A c \in Conns : WF_hubVars(ServeConnection(c)) /\ WF_hubVars(CloseConn(c))
    /\ \A p \in Callers : WF_hubVars(\E c \in Conns : Visit(p, c))

-----------------------------------------------------------------------------
(* The indexes of the hub are exact: a device bucket holds the connections *)
(* bound to the device and no others, and nothing of a connection that was *)
(* unregistered stays behind, however late its read loop gets its answer   *)
(* from identity.                                                          *)
IndexExact ==
    \A c \in Conns :
        /\ \A d \in Devices : c \in byDevice[d] <=> bound[c] = d
        /\ bound[c] # NoDevice => c \in sessions
        /\ pc[c] = "gone" => c \notin sessions

(* Where the goroutines of a connection can be together: the hub knows the *)
(* connections that are being served, and a read loop that is still        *)
(* running after its connection is gone finds the session stopping.        *)
Together ==
    \A c \in Conns :
        /\ c \in sessions <=> pc[c] \notin {"idle", "upgrade", "gone"}
        /\ reader[c] # "off" => pc[c] \notin {"idle", "upgrade", "greet"}
        /\ pc[c] = "leave" => stopping[c]
        /\ pc[c] = "gone" => stopping[c] \/ reader[c] = "off"
        /\ reader[c] \in {"authorize", "bind"} => wanted[c] \in Devices

(* Late envelopes exist only for revoked tokens, and none of them is past  *)
(* revalidation.                                                           *)
LateIsHeld ==
    \A c \in Conns :
        /\ job[c] = "late" => TokenOf[c] \in revoked /\ pc[c] # "write"
        /\ \A i \in 1..Len(outbound[c]) : outbound[c][i] = "late" => TokenOf[c] \in revoked

(* What is published to a connection after its token was revoked is never  *)
(* written to it, whatever its publisher believed.                         *)
NoLateDelivery == \A c \in Conns : received[c] # "late"

(* A connection whose token was revoked is closed and unregistered even if *)
(* it was between authentication and registration at that moment, and even *)
(* if no handler tells the hub.                                            *)
RevokedCloses ==
    \A c \in Conns : TokenOf[c] \in revoked /\ pc[c] # "idle" ~> pc[c] = "gone"

(* Hub.Close drains the hub for good, connections that were being accepted *)
(* at that moment included.                                                *)
ShutdownDrains == hubClosed ~> [](sessions = {})
=============================================================================
