----------------------------- MODULE MCServices -----------------------------
(* Two services whose requests overlap, in two scopes of one run: the call *)
(* service with its media, and the encrypted lane of a group of aero-chat. *)
(* They have no state in common, and a behaviour moves in one of them.     *)
EXTENDS MCRtcService, EncryptedConversation

CONSTANTS ann, bob, phone, laptop

MCOwnerOf == phone :> ann @@ laptop :> bob

VARIABLE scope

(* Messages 1 and 2 are from before the migration, 3 and 4 are new.  With  *)
(* both old ones, one new message, edits and read positions; without them, *)
(* one new message while members or devices change, or two while they do   *)
(* not.                                                                    *)
MCSettled == members = Participants /\ gone = {} /\ lane.version = 1
MCMigrated ==
    /\ Old \subseteq Stored /\ msg[4] = NotStored
    /\ MCSettled /\ active = lane.devices
    /\ \A r \in Requests : work[r].msg # 4 /\ work[r].op # "bootstrap"
MCFresh ==
    /\ Stored \cap Old = {} /\ ann \in members /\ phone \in active
    /\ members = Participants \/ gone = {}
    /\ \A r \in Requests : work[r].kind # "edit" /\ work[r].op # "read"
    /\ 4 \in Stored => MCSettled
    /\ \A r \in Requests : work[r].msg = 4 =>
          MCSettled /\ (3 \in Stored \/ \E q \in Requests : work[q].msg = 3)

MCScopes == scope = "conversation" => MCMigrated \/ MCFresh

MCRtc == scope = "rtc" /\ MCStep /\ UNCHANGED conversationVars
MCConversation == /\ scope = "conversation" /\ ConversationNext
                  /\ UNCHANGED <<vars, stale, req, focus>>

MCServicesInit ==
    \/ /\ scope = "rtc" /\ MCInit
       /\ ConversationInit /\ Stored = {} /\ active = {}
    \/ /\ scope = "conversation" /\ ConversationInit
       /\ MCInit /\ focus = "requests"

MCServicesSpec ==
    MCServicesInit /\ [][(MCRtc \/ MCConversation) /\ UNCHANGED scope]_<<
                        vars, stale, req, focus, conversationVars, scope>>
=============================================================================
