--------------------------- MODULE MCAttachments ---------------------------
(* Three scopes of the same system, and a behaviour stays in the scope it  *)
(* begins in: all the races over one attachment, with the liveness; the    *)
(* intents of two requests that share a quota; and a message with two      *)
(* attachments against a cleanup pass and a second message.                *)
EXTENDS AttachmentLifecycle

CONSTANTS a1, a2, r1, r2, m1

VARIABLE scope

MCNothingStored == \A a \in Attachments : posting[a] = NoObject /\ bucket[a] = [k \in Keys |-> NoObject]

MCInScope ==
    \/ /\ scope = "one"
       /\ job[r2].op = "idle"
       /\ status[a2] = "absent"
       /\ \A m \in Messages \ {m1} : message[m].phase = "new"
    \/ /\ scope = "quota"
       /\ MCNothingStored
       /\ \A a \in Attachments : window[a] = "live"
       /\ \A w \in Cleaners : job[w].op = "idle"
       /\ \A m \in Messages : message[m].phase = "new"
    \/ /\ scope = "files"
       /\ MCNothingStored
       /\ source[a1] = "legacy" /\ source[a2] = "legacy"
       /\ \A a \in Attachments : window[a] = "live"
       /\ \A w \in Requests : job[w].op = "idle"

MCInit == FileInit /\ scope \in {"one", "quota", "files"} /\ MCInScope

MCSpec == /\ MCInit
          /\ [][FileNext /\ UNCHANGED scope /\ MCInScope']_<<fileVars, scope>>
          /\ FileFairness

(* Uploads of this version only, for the run about replays.                *)
MCReplayInit == FileInit /\ scope = "replay" /\ \A a \in Attachments : source[a] = "staging"
MCReplaySpec == MCReplayInit /\ [][FileNext /\ UNCHANGED scope]_<<fileVars, scope>>
=============================================================================
