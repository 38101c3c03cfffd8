----------------------------- MODULE TokenRefresh -----------------------------
(***************************************************************************)
(* The LongPort access token: LongPort has one valid token of an account,  *)
(* and the latest version of a secret is the one the platform uses.  The   *)
(* refresh workflow and the service's own bootstrap each read the secret,  *)
(* let LongPort exchange the token, which ends the old one, and write the  *)
(* new one back; they share no lock.  An expired token can only be reset   *)
(* in the portal and rotated in by hand.                                   *)
(* A definition marked "Bug:" is a fault the properties must find.         *)
(*                                                                         *)
(* Source: scripts/refresh_longport_access_token.py,                       *)
(* scripts/inspect_longport_token_expiry.py,                               *)
(* application/runtime_bootstrap_adapters.py,                              *)
(* .github/workflows/rotate-longport-secrets.yml.                          *)
(***************************************************************************)
EXTENDS Naturals

CONSTANTS Jobs,        \* runs of the refresh workflow
          Forced,      \* those dispatched with force
          Bootstraps,  \* bootstraps of the service
          MaxTokens    \* tokens issued in a behaviour

VARIABLES issued,  \* tokens issued so far; the last one is the valid one
          stored,  \* the token in the latest version of the secret
          life,    \* what the expiry in each token says
          portal,  \* the token reset in the portal and not yet rotated in
          run,     \* what each run is doing, the token it read and was granted
          lost,    \* tokens whose run ended before it wrote them
          caught   \* history: tokens about to be written as the operator reset

vars == <<issued, stored, life, portal, run, lost, caught>>

Runs == Jobs \cup Bootstraps
Token == 1..MaxTokens
Life == {"long", "near", "over", "opaque"}
None == 0
Idle == [pc |-> "idle", read |-> None, new |-> None]

TypeOK ==
  /\ issued \in Token /\ stored \in Token /\ life \in [Token -> Life]
  /\ portal \in Token \cup {None} /\ lost \subseteq Token /\ caught \subseteq Token
  /\ run \in [Runs -> [pc : {"idle", "exchange", "write"},
                       read : Token \cup {None}, new : Token \cup {None}]]

Init ==
  /\ issued = 1 /\ stored = 1 /\ life = [t \in Token |-> "long"] /\ portal = None
  /\ run = [r \in Runs |-> Idle] /\ lost = {} /\ caught = {}

Valid == issued
Issue == issued < MaxTokens /\ issued' = issued + 1

-----------------------------------------------------------------------------
(* Time passes for the tokens that were issued.                            *)
Age ==
  /\ \E t \in 1..issued : \/ life[t] = "long" /\ life' = [life EXCEPT ![t] = "near"]
                          \/ life[t] = "near" /\ life' = [life EXCEPT ![t] = "over"]
  /\ UNCHANGED <<issued, stored, portal, run, lost, caught>>

(* A run reads the secret and goes on when plan_refresh says so: forced    *)
(* first of all, also with an expired token; else near the expiry, or when *)
(* it cannot be read.  The bootstrap's library refreshes near the expiry.  *)
(* The workflow runs one job of an account at a time.                      *)
Should(r, t) ==
  \/ r \in Forced \/ life[t] = "near"
  \/ r \in Jobs /\ life[t] = "opaque"
Start(r) ==
  /\ run[r].pc = "idle" /\ Should(r, stored)
  /\ r \in Jobs => \A j \in Jobs : run[j].pc = "idle"
  /\ run' = [run EXCEPT ![r] = [pc |-> "exchange", read |-> stored, new |-> None]]
  /\ UNCHANGED <<issued, stored, life, portal, lost, caught>>

(* LongPort exchanges only the valid token, and not once it has expired.   *)
Exchangeable(t) == t = Valid /\ life[t] # "over"
Granted(r) ==
  /\ run[r].pc = "exchange" /\ Exchangeable(run[r].read) /\ Issue
  /\ life' = [life EXCEPT ![issued'] = "long"]
Exchange(r) ==
  /\ Granted(r) /\ run' = [run EXCEPT ![r].pc = "write", ![r].new = issued']
  /\ UNCHANGED <<stored, portal, lost, caught>>
\* The answer does not arrive within its fifteen seconds, or is not whole.
NoAnswer(r) ==
  /\ Granted(r) /\ run' = [run EXCEPT ![r] = Idle] /\ lost' = lost \cup {issued'}
  /\ UNCHANGED <<stored, portal, caught>>
\* LongPort refuses, the credentials are missing, or the run ends.
Gives(r) ==
  /\ run[r].pc = "exchange" /\ run' = [run EXCEPT ![r] = Idle]
  /\ UNCHANGED <<issued, stored, life, portal, lost, caught>>

\* Bug: the new version holds the token that was exchanged.
WritesOld(r) == run[r].read
Writes(r) == run[r].new
Write(r) ==
  /\ run[r].pc = "write" /\ stored' = Writes(r) /\ run' = [run EXCEPT ![r] = Idle]
  /\ UNCHANGED <<issued, life, portal, lost, caught>>
\* The version cannot be added, or the run is cut off before that.
Drops(r) ==
  /\ run[r].pc = "write" /\ run' = [run EXCEPT ![r] = Idle] /\ lost' = lost \cup {run[r].new}
  /\ UNCHANGED <<issued, stored, life, portal, caught>>

(* The operator resets the token in the portal, at any time, and rotates   *)
(* it in; its expiry need not be readable.  The rotation has a concurrency *)
(* group of its own, so neither step waits for a run that is about to      *)
(* write.                                                                  *)
AboutToWrite == {r \in Runs : run[r].pc = "write"}
Reset ==
  /\ Issue /\ portal' = issued'
  /\ \E l \in {"long", "opaque"} : life' = [life EXCEPT ![issued'] = l]
  /\ caught' = caught \cup {run[r].new : r \in AboutToWrite}
  /\ UNCHANGED <<stored, run, lost>>
Rotate ==
  /\ portal # None /\ stored' = portal /\ portal' = None
  /\ UNCHANGED <<issued, life, run, lost, caught>>

Step(r) == Start(r) \/ Exchange(r) \/ NoAnswer(r) \/ Gives(r) \/ Write(r) \/ Drops(r)
Next == Age \/ Reset \/ Rotate \/ \E r \in Runs : Step(r)
Spec == Init /\ [][Next]_vars

-----------------------------------------------------------------------------
(* The latest version holds the valid token, but for one that is on its    *)
(* way or whose run ended before it wrote it: among the refreshes, which   *)
(* read, exchange and write with no lock, no late one writes an ended      *)
(* token over a newer one (run_refresh, build_contexts).  The exception is *)
(* a portal reset that falls between a run's exchange and its write: that  *)
(* write puts the token the reset ended over what was rotated in.          *)
LatestWorks ==
  \/ stored = Valid \/ portal = Valid \/ Valid \in lost
  \/ \E r \in AboutToWrite : run[r].new = Valid
  \/ stored \in caught

(* What makes it hold: a token that never was in the secret was read by no *)
(* run, so it can only be brought, and one run at most brings it.          *)
Unread == \A r \in Runs : run[r].pc = "exchange" => run[r].read # Valid
Brings(r) == run[r].pc = "write" /\ run[r].new \notin caught
OnTheWay ==
  /\ \A r \in Runs : Brings(r) => run[r].new = Valid /\ portal = None /\ stored # Valid /\ Unread
  /\ \A r, s \in Runs : Brings(r) /\ Brings(s) => r = s
  /\ portal # None => portal = Valid /\ stored # Valid /\ Unread
ReadsAreOld ==
  /\ stored <= issued /\ lost \subseteq 1..issued /\ \A t \in caught : t < issued
  /\ \A r \in Runs : run[r].pc = "exchange" => run[r].read \in 1..issued
  /\ stored = Valid \/ stored \in caught \/ Unread
TokenInv == TypeOK /\ OnTheWay /\ ReadsAreOld /\ LatestWorks
=============================================================================
