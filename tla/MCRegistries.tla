---------------------------- MODULE MCRegistries ----------------------------
(* What decides who may act, in four scopes of one run: groups of          *)
(* aero-chat, crypto devices and friendships of aero-identity, and the     *)
(* admission of logins in the gateway.  They have no state in common, and  *)
(* a behaviour moves in one of them; sets of the same size are made of the *)
(* same model values, which keeps the number of permutations small.        *)
EXTENDS MCGroupAuthority, CryptoDevices, SocialGraph, AdmissionLimiter, TLC

(* Buckets of one and of two tokens, which come back after one to three    *)
(* ticks.                                                                  *)
MCBurst == "login-account" :> 1 @@ "login" :> 2 @@ "register" :> 1
MCRefill == "login-account" :> 2 @@ "login" :> 1 @@ "register" :> 3

VARIABLE scope

MCGroups == scope = "groups" /\ GroupNext /\ UNCHANGED <<cryptoVars, socialVars, limiterVars>>
MCDevices == scope = "devices" /\ CryptoNext /\ UNCHANGED <<groupVars, socialVars, limiterVars>>
MCFriends == scope = "friends" /\ SocialNext /\ UNCHANGED <<groupVars, cryptoVars, limiterVars>>

MCAdmissions == scope = "admissions" /\ LimiterNext /\ UNCHANGED <<groupVars, cryptoVars, socialVars>>

MCInit == /\ GroupInit /\ CryptoInit /\ SocialInit /\ LimiterInit
          /\ scope \in {"groups", "devices", "friends", "admissions"}

MCSpec == MCInit /\ [][(MCGroups \/ MCDevices \/ MCFriends \/ MCAdmissions) /\ UNCHANGED scope]_<<
                        groupVars, cryptoVars, socialVars, limiterVars, scope>>

(* Three devices with one intent and two bundles each, or two devices with *)
(* two intents and three bundles.                                          *)
MCFewDevices ==
    \/ /\ \E i \in Intents : intent[i].status = "absent"
       /\ \A d \in Devices : Version(d) <= 2
    \/ \E d \in Devices : device[d] = "absent"

MCScopes == IF scope = "groups" THEN MCFocus ELSE MCFewDevices

(* For the run about publishing, and the one about blocks.                 *)
MCDevicesSpec == MCInit /\ scope = "devices" /\ [][MCDevices /\ UNCHANGED scope]_<<cryptoVars, scope>>
MCFriendsSpec == MCInit /\ scope = "friends" /\ [][MCFriends /\ UNCHANGED scope]_<<socialVars, scope>>
=============================================================================
