---------------------------- MODULE ConsoleSignIn ----------------------------
(***************************************************************************)
(* Console sign-in for one principal (packages/identity console-auth.ts    *)
(* over console-store.sql.ts and migration 0011, the /v1/console-auth      *)
(* routes).  Every store call is a transaction of its own, so a request is *)
(* a sequence of them that others interleave with and that may stop at     *)
(* any point; what it read first is what it decides from.                  *)
(***************************************************************************)
EXTENDS Integers, FiniteSets, Sequences

CONSTANTS Requests,       \* requests to the sign-in routes
          MaxFailures,    \* maxFailedAttempts
          Lockout,        \* lockoutMinutes
          LinkTtl,        \* inviteTtlMinutes
          ChallengeTtl,   \* a challenge's ten minutes
          SessionTtl,     \* sessionTtlHours
          LastMinute      \* bound: minutes

ASSUME SignInConstants ==
  /\ {MaxFailures, Lockout, LinkTtl, ChallengeTtl, SessionTtl, LastMinute} \subseteq Nat \ {0}
  /\ IsFiniteSet(Requests)

VARIABLES account,     \* the console_credentials row
          links,       \* console_invites, numbered
          sessions,    \* console_sessions
          challenges,  \* signed tokens handed out; they are not stored
          asked,       \* each request: its place and what it has read
          drawn,       \* history: for each seed there was, the link it was drawn on
          minute

signInVars == <<account, links, sessions, challenges, asked, drawn, minute>>

Null == 0   \* no password, no seed, no lock

Fresh == [pc |-> "start", link |-> 0, found |-> {}, failed |-> 0, at |-> 0, seed |-> Null,
          wrong |-> FALSE, then |-> "refused"]

\* Console access has been granted, or a first link was sent too, or
\* enrolment was completed a while ago.
SignInInit ==
  /\ \/ /\ account = [password |-> Null, seed |-> Null, confirmed |-> FALSE, failed |-> 0,
                     lockedUntil |-> Null]
        /\ links \in {{}, {[id |-> 1, expires |-> 2, spent |-> FALSE]}}
        /\ drawn = <<>>
     \/ /\ account = [password |-> 1, seed |-> 1, confirmed |-> TRUE, failed |-> 0,
                     lockedUntil |-> Null]
        /\ links = {[id |-> 1, expires |-> 1, spent |-> TRUE]}
        /\ drawn = <<1>>
  /\ sessions = {} /\ challenges = {} /\ minute = 1
  /\ asked = [r \in Requests |-> Fresh]

At(r, pc) == asked[r].pc = pc
Goes(r, pc) == asked' = [asked EXCEPT ![r].pc = pc]
\* What the request keeps from its read, and where it goes on.
Keeps(r, pc, then) ==
  asked' = [asked EXCEPT ![r] = [Fresh EXCEPT
    !.pc = pc, !.failed = account.failed, !.at = minute, !.then = then,
    !.seed = IF then = "session" THEN account.seed ELSE Null, !.wrong = (pc = "failing")]]

-----------------------------------------------------------------------------
(* requestEnrolmentLink: saveInvite consumes the outstanding links it sees *)
(* and inserts its own; another request's uncommitted link it does not see.*)

Outstanding == {k \in links : ~k.spent}

FindOutstanding(r) ==
  /\ At(r, "start")
  /\ asked' = [asked EXCEPT ![r] = [Fresh EXCEPT !.pc = "inviting", !.found = Outstanding]]
  /\ UNCHANGED <<account, links, sessions, challenges, drawn, minute>>

SaveInvite(r) ==
  /\ At(r, "inviting")
  /\ links' = {IF k \in asked[r].found THEN [k EXCEPT !.spent = TRUE] ELSE k : k \in links}
              \union {[id |-> Cardinality(links) + 1, expires |-> minute + LinkTtl, spent |-> FALSE]}
  /\ Goes(r, "done")
  /\ UNCHANGED <<account, sessions, challenges, drawn, minute>>

-----------------------------------------------------------------------------
(* The two factors.                                                        *)

\* signInWithPassword: the lock is looked at before the password, and an
\* account without one is refused like a wrong one.
SignIn(r, right) ==
  /\ At(r, "start")
  /\ IF account.lockedUntil > minute \/ account.password = Null THEN Goes(r, "done")
     ELSE IF ~right THEN Keeps(r, "failing", "done")
     ELSE Keeps(r, "clearing", IF account.confirmed THEN "awaiting_totp"
                                                    ELSE "awaiting_totp_enrolment")
  /\ UNCHANGED <<account, links, sessions, challenges, drawn, minute>>

\* verifyChallenge: one of ours, for this purpose, not past its time.
Holds(purpose) == \E c \in challenges : c.purpose = purpose /\ minute <= c.expires

\* verifyTotp: a code fits the seed it was made from, drift included.
CodeFits(seed) == seed = account.seed

\* completeSignIn, with a code from some seed (Null: a wrong code).
CompleteSignIn(r, seed) ==
  /\ At(r, "start") /\ Holds("awaiting_totp")
  /\ IF account.seed = Null \/ ~account.confirmed THEN Goes(r, "done")
     ELSE IF CodeFits(seed) THEN Keeps(r, "clearing", "session")
     ELSE Keeps(r, "failing", "done")
  /\ UNCHANGED <<account, links, sessions, challenges, drawn, minute>>

\* confirmEnrolment: a wrong code here does not count as a failure.
ConfirmEnrolment(r, seed) ==
  /\ At(r, "start") /\ Holds("awaiting_totp_enrolment")
  /\ IF account.seed # Null /\ CodeFits(seed)
     THEN Keeps(r, "confirming", "session") ELSE Goes(r, "done")
  /\ UNCHANGED <<account, links, sessions, challenges, drawn, minute>>

\* The row's seed is confirmed, whichever the code was of.
ConfirmTotp(r) ==
  /\ At(r, "confirming")
  /\ account' = [account EXCEPT !.confirmed = TRUE]
  /\ Goes(r, "clearing")
  /\ UNCHANGED <<links, sessions, challenges, drawn, minute>>

Bug_LocksEarly(attempts) == attempts + 1 >= MaxFailures
Locks(attempts) == attempts >= MaxFailures

\* #recordFailure: from the count the request read, however old; reset when the
\* lock is applied, so that one lockout is one window.
RecordFailure(r) ==
  LET attempts == asked[r].failed + 1
  IN  /\ At(r, "failing")
      /\ account' = [account EXCEPT
           !.failed = IF Locks(attempts) THEN 0 ELSE attempts,
           !.lockedUntil = IF Locks(attempts) THEN asked[r].at + Lockout ELSE Null]
      /\ Goes(r, "done")
      /\ UNCHANGED <<links, sessions, challenges, drawn, minute>>

ClearFailures(r) ==
  /\ At(r, "clearing")
  /\ account' = [account EXCEPT !.failed = 0, !.lockedUntil = Null]
  /\ Goes(r, asked[r].then)
  /\ UNCHANGED <<links, sessions, challenges, drawn, minute>>

IssueChallenge(r) ==
  /\ asked[r].pc \in {"awaiting_totp", "awaiting_totp_enrolment"}
  /\ challenges' = challenges \union {[purpose |-> asked[r].pc, expires |-> minute + ChallengeTtl]}
  /\ Goes(r, "done")
  /\ UNCHANGED <<account, links, sessions, drawn, minute>>

OpenSession(r) ==
  /\ At(r, "session")
  /\ sessions' = sessions \union {[by |-> r, seed |-> asked[r].seed, expires |-> asked[r].at + SessionTtl, revoked |-> FALSE]}
  /\ Goes(r, "done")
  /\ UNCHANGED <<account, links, challenges, drawn, minute>>

-----------------------------------------------------------------------------
(* acceptInvite: the password, then the link is spent, then the seed.      *)

AcceptInvite(r, k) ==
  /\ At(r, "start") /\ ~k.spent /\ k.expires > minute
  /\ asked' = [asked EXCEPT ![r] = [Fresh EXCEPT !.pc = "password", !.link = k.id]]
  /\ UNCHANGED <<account, links, sessions, challenges, drawn, minute>>

SetPassword(r) ==
  /\ At(r, "password")
  /\ account' = [account EXCEPT !.password = 1, !.failed = 0, !.lockedUntil = Null]
  /\ Goes(r, "consume")
  /\ UNCHANGED <<links, sessions, challenges, drawn, minute>>

ConsumeInvite(r) ==
  /\ At(r, "consume")
  /\ links' = {IF k.id = asked[r].link THEN [k EXCEPT !.spent = TRUE] ELSE k : k \in links}
  /\ Goes(r, "seed")
  /\ UNCHANGED <<account, sessions, challenges, drawn, minute>>

Bug_SeedBeforeSpent(r) ==
  /\ asked[r].pc \in {"consume", "seed"}
  /\ drawn' = Append(drawn, asked[r].link)
  /\ account' = [account EXCEPT !.seed = Len(drawn) + 1, !.confirmed = FALSE]
  /\ Goes(r, "awaiting_totp_enrolment")
  /\ UNCHANGED <<links, sessions, challenges, minute>>

\* A new seed has not been proven from a device yet.
SetTotpSecret(r) ==
  /\ At(r, "seed")
  /\ drawn' = Append(drawn, asked[r].link)
  /\ account' = [account EXCEPT !.seed = Len(drawn) + 1, !.confirmed = FALSE]
  /\ Goes(r, "awaiting_totp_enrolment")
  /\ UNCHANGED <<links, sessions, challenges, minute>>

-----------------------------------------------------------------------------
(* Sessions.                                                               *)

\* resolveSession.
Resolves(s) == ~s.revoked /\ s.expires > minute

SignOut(s) ==
  /\ Resolves(s)
  /\ sessions' = (sessions \ {s}) \union {[s EXCEPT !.revoked = TRUE]}
  /\ UNCHANGED <<account, links, challenges, asked, drawn, minute>>

PassMinute ==
  /\ minute < LastMinute
  /\ minute' = minute + 1
  /\ UNCHANGED <<account, links, sessions, challenges, asked, drawn>>

SignInNext ==
  \/ \E r \in Requests :
       \/ FindOutstanding(r) \/ SaveInvite(r)
       \/ \E right \in BOOLEAN : SignIn(r, right)
       \/ \E seed \in {Null, account.seed} : CompleteSignIn(r, seed) \/ ConfirmEnrolment(r, seed)
       \/ ConfirmTotp(r) \/ RecordFailure(r) \/ ClearFailures(r)
       \/ IssueChallenge(r) \/ OpenSession(r)
       \/ \E k \in links : AcceptInvite(r, k)
       \/ SetPassword(r) \/ ConsumeInvite(r) \/ SetTotpSecret(r)
  \/ \E s \in sessions : SignOut(s)
  \/ PassMinute

SignInSpec == SignInInit /\ [][SignInNext]_signInVars

-----------------------------------------------------------------------------
(* Properties.                                                             *)

SignInTypeOK ==
  /\ account \in [password : {Null, 1}, seed : Nat, confirmed : BOOLEAN,
                  failed : Nat, lockedUntil : Nat]
  /\ account.seed <= Len(drawn)
  /\ \A k \in links : k \in [id : Nat, expires : Nat, spent : BOOLEAN]
  /\ \A s \in sessions : s \in [by : Requests, seed : 1..Len(drawn), expires : Nat, revoked : BOOLEAN]
  /\ minute \in 1..LastMinute

\* Wrong attempts interleave, each writing a count it read before the others
\* wrote theirs, and right ones clear the row in between: no failure is counted
\* that no attempt has written, and an account is locked only after as many of
\* them as lockouts are for (#recordFailure).  Not the other way round: what
\* an attempt writes may undo a count, or a lock, written since it read.
Written == {r \in Requests : asked[r].wrong /\ At(r, "done")}
LockTakesItsFailures ==
  /\ account.failed <= Cardinality(Written)
  /\ account.lockedUntil # Null => Cardinality(Written) >= MaxFailures

\* A session is opened with a code of some seed, and the link that seed was
\* drawn on is spent: however acceptances interleave or stop half way, and
\* whoever else resets the account, nobody gets in with what a link handed out
\* and may use the link again (acceptInvite's order).
SessionsComeOfSpentLinks ==
  \A s \in sessions : \E k \in links : k.id = drawn[s.seed] /\ k.spent
=============================================================================
