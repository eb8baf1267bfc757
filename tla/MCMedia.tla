------------------------------ MODULE MCMedia ------------------------------
(***************************************************************************)
(* Small instances of PublisherMedia and PublisherAccounts for TLC.  They  *)
(* share no state, so a behaviour is one of `part`.                        *)
(***************************************************************************)
EXTENDS PublisherMedia, TLC

CONSTANTS Platforms, MaxCreds

ASSUME CredsAssumption == MaxCreds \in Nat

VARIABLES part, cred, acc, known, at, carried, met

Accounts == INSTANCE PublisherAccounts WITH Callers <- Editors, stage <- at, work <- carried

accounts == <<cred, acc, known, at, carried, met>>

AuthorInit ==
    /\ part \in {"media", "accounts"}
    /\ MediaInit /\ Accounts!AccountsInit

AuthorNext ==
    /\ part' = part
    /\ \/ part = "media"    /\ MediaNext             /\ UNCHANGED accounts
       \/ part = "accounts" /\ Accounts!AccountsNext /\ UNCHANGED mediaVars

AuthorSpec == AuthorInit /\ [][AuthorNext]_<<part, mediaVars, accounts>>

Symmetry == Permutations(Editors) \cup Permutations(Hashes)
-----------------------------------------------------------------------------
(* PublisherMedia: the quota is passed only by uploads under way together, *)
(* and an image goes missing only when a collector overlapped its use.     *)
ImagesKept == MediaTypeOK /\ QuotaNearlyKept /\ LostOnlyByOverlap

(* PublisherAccounts: calls one at a time leave one default, an account is *)
(* bound only if ALQQ had it, and it goes only with its credential.        *)
AccountsSound ==
    /\ [](Accounts!AccountsTypeOK /\ Accounts!OneDefault /\ Accounts!BoundIsKnown)
    /\ Accounts!AccountsStay
=============================================================================
