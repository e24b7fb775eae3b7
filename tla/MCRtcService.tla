---------------------------- MODULE MCRtcService ----------------------------
(* The service as main.go wires it, without the slot guard, in two scopes  *)
(* of one run: the requests of the call service in a chat, with no media;  *)
(* and the call transactions under the media of a group call.  A behaviour *)
(* stays in the scope it begins in.                                        *)
EXTENDS RtcService, MCMedia, TLC

CONSTANT c3

VARIABLE focus

MCChatCalls == {c1, c2}
MCWiredScopeOf == [c \in Calls |-> IF c \in MCChatCalls THEN chat ELSE team]

MCInScope == IF focus = "requests"
             THEN callState[c3] = "none" /\ \A p \in Procs : req[p].call # c3
             ELSE \A c \in MCChatCalls : callState[c] = "none"

MCRequests == focus = "requests" /\ ServiceNext
MCMediaSteps == focus = "media" /\ Next /\ UNCHANGED <<stale, req>>
MCStep == (MCRequests \/ MCMediaSteps) /\ UNCHANGED focus /\ MCInScope'

MCInit == ServiceInit /\ focus \in {"requests", "media"}
MCWiredSpec == MCInit /\ [][MCStep]_<<vars, stale, req, focus>>

MCSymmetry == Permutations(Procs) \cup Permutations(MCChatCalls)

(* For the run about evictions: the requests alone.                        *)
MCNone == {}
MCChatScopeOf == [c \in Calls |-> chat]
MCServiceSpec ==
    ServiceInit /\ focus = "requests" /\ [][ServiceNext /\ UNCHANGED focus]_<<serviceVars, focus>>
MCStaleSymmetry == Permutations(Procs) \cup Permutations(Users) \cup Permutations(Calls)
=============================================================================
