-------------------------------- MODULE Limiter --------------------------------
(***************************************************************************)
(* The login limiter (internal/auth/auth.go) under concurrent submissions  *)
(* of the login form (loginPost, internal/httpserver/server.go): a sliding *)
(* window of attempts per key, where a key is the peer's address (with its *)
(* port, as net/http gives it) and a user name: the attempts on one name   *)
(* over one connection.  An instant is kept as its age; ages at or above   *)
(* Window compare alike.                                                   *)
(***************************************************************************)
EXTENDS Integers, SequencesExt

CONSTANTS
  Keys,
  Handlers,   \* goroutines serving POST /platform/login
  Window,     \* ten minutes, in ticks
  Limit       \* attempts in a window

ASSUME LimiterAssumption == Window \in Nat \ {0} /\ Limit \in Nat \ {0}

VARIABLES
  attempts,   \* limiter.attempts: key -> ages, oldest first; absent is <<>>
  pc,         \* each handler: idle, verify or succeeded
  key,        \* the key each handler computed
  granted     \* history: key -> ages, below Window, of the attempts let
              \* through since the key's last successful login

vars == <<attempts, pc, key, granted>>

Init ==
  /\ attempts = [k \in Keys |-> <<>>]
  /\ pc  = [h \in Handlers |-> "idle"]
  /\ key \in [Handlers -> Keys]
  /\ granted = [k \in Keys |-> <<>>]

Recent(age) == age < Window

Aged(ages) == [i \in DOMAIN ages |-> IF ages[i] < Window THEN ages[i] + 1 ELSE Window]

(* The loop over old, as a function of the attempts it has visited.        *)
(* recent := old[:0], append: an attempt that stays is moved to the front  *)
(* of the array that is being read.                                        *)
Visit(loop, i) ==
  IF Recent(loop.array[i])
    THEN [array |-> [loop.array EXCEPT ![loop.n + 1] = loop.array[i]],
          n |-> loop.n + 1]
    ELSE loop

Loop(old) ==
  LET visited[i \in 0..Len(old)] ==
        IF i = 0 THEN [array |-> old, n |-> 0] ELSE Visit(visited[i - 1], i)
  IN  visited

(* Seeded fault: the slice is cut to the number of entries dropped. *)
FilterCutsWrong(old) ==
  LET end == Loop(old)[Len(old)] IN SubSeq(end.array, 1, Len(old) - end.n)

(* The slice is cut to the number of attempts that stay. *)
Filter(old) == LET end == Loop(old)[Len(old)] IN SubSeq(end.array, 1, end.n)

(* Seeded fault: the window admits one attempt too many. *)
AllowOneMore(h, k) ==
  LET recent == Filter(attempts[k]) IN
  /\ pc[h] = "idle" /\ Len(recent) <= Limit
  /\ key' = [key EXCEPT ![h] = k]
  /\ attempts' = [attempts EXCEPT ![k] = Append(recent, 0)]
  /\ granted'  = [granted EXCEPT ![k] = Append(@, 0)]
  /\ pc' = [pc EXCEPT ![h] = "verify"]

(* LoginAllowed returns true: the attempt is noted before the password is  *)
(* looked at. *)
Allow(h, k) ==
  LET recent == Filter(attempts[k]) IN
  /\ pc[h] = "idle" /\ Len(recent) < Limit
  /\ key' = [key EXCEPT ![h] = k]
  /\ attempts' = [attempts EXCEPT ![k] = Append(recent, 0)]
  /\ granted'  = [granted EXCEPT ![k] = Append(@, 0)]
  /\ pc' = [pc EXCEPT ![h] = "verify"]

(* Seeded fault: a refused attempt is noted too. *)
RefuseNotes(h, k) ==
  LET recent == Filter(attempts[k]) IN
  /\ pc[h] = "idle" /\ Len(recent) >= Limit
  /\ key' = [key EXCEPT ![h] = k]
  /\ attempts' = [attempts EXCEPT ![k] = Append(Tail(recent), 0)]
  /\ UNCHANGED <<pc, granted>>

(* It returns false: 429, and the attempt is not noted. *)
Refuse(h, k) ==
  LET recent == Filter(attempts[k]) IN
  /\ pc[h] = "idle" /\ Len(recent) >= Limit
  /\ key' = [key EXCEPT ![h] = k]
  /\ attempts' = [attempts EXCEPT ![k] = recent]
  /\ UNCHANGED <<pc, granted>>

(* Unknown user, database error, wrong password or disabled account; or    *)
(* none of these. *)
Verify(h) ==
  /\ pc[h] = "verify"
  /\ \E outcome \in {"idle", "succeeded"} : pc' = [pc EXCEPT ![h] = outcome]
  /\ UNCHANGED <<attempts, key, granted>>

(* Seeded fault: a success leaves the window as it is. *)
LoginSucceededKeeps(h) ==
  /\ pc[h] = "succeeded"
  /\ granted'  = [granted EXCEPT ![key[h]] = <<>>]
  /\ pc' = [pc EXCEPT ![h] = "idle"]
  /\ UNCHANGED <<attempts, key>>

(* The entry goes, and with it what other handlers noted under the key. *)
LoginSucceeded(h) ==
  /\ pc[h] = "succeeded"
  /\ attempts' = [attempts EXCEPT ![key[h]] = <<>>]
  /\ granted'  = [granted EXCEPT ![key[h]] = <<>>]
  /\ pc' = [pc EXCEPT ![h] = "idle"]
  /\ UNCHANGED key

(* What is left of attempts kept oldest first when the old ones lapse.     *)
Current(ages) ==
  LET lapsed == CHOOSE n \in 0..Len(ages) :
                  \A i \in DOMAIN ages : Recent(ages[i]) <=> i > n
  IN  SubSeq(ages, lapsed + 1, Len(ages))

Tick ==
  /\ attempts' = [k \in Keys |-> Aged(attempts[k])]
  /\ granted'  = [k \in Keys |-> Current(Aged(granted[k]))]
  /\ UNCHANGED <<pc, key>>

Next ==
  \/ \E h \in Handlers :
       \/ \E k \in Keys : Allow(h, k) \/ Refuse(h, k)
       \/ Verify(h) \/ LoginSucceeded(h)
  \/ Tick

Spec == Init /\ [][Next]_vars

(* Time passes. *)
FairSpec == Spec /\ WF_vars(Tick)

-------------------------------------------------------------------------------

TypeOK ==
  /\ attempts \in [Keys -> BoundedSeq(0..Window, Limit)]
  /\ pc \in [Handlers -> {"idle", "verify", "succeeded"}]
  /\ key \in [Handlers -> Keys]

(* In no window does one key get more than Limit attempts between two      *)
(* successes, however handlers interleave (auth.go:84-97).                 *)
AtMostLimit == \A k \in Keys : Len(granted[k]) <= Limit

(* new is old without the attempts that are not recent. *)
Sieved(old, new) ==
  \E place \in [DOMAIN new -> DOMAIN old] :
    /\ \A i, j \in DOMAIN new : i < j => place[i] < place[j]
    /\ {place[i] : i \in DOMAIN new} = {i \in DOMAIN old : Recent(old[i])}
    /\ \A i \in DOMAIN new : new[i] = old[place[i]]

(* Filtering in the array being read keeps each recent attempt, once, in   *)
(* order (auth.go:85-90).                                                  *)
FilterKeepsRecent == \A k \in Keys : Sieved(attempts[k], Filter(attempts[k]))

(* Nobody is refused who did not use up the window: attempts that lapsed,  *)
(* that were refused, or that preceded a success do not count              *)
(* (auth.go:91-104).                                                       *)
RefusedOnlyWhenFull ==
  \A k \in Keys : Len(Filter(attempts[k])) >= Limit => Len(granted[k]) = Limit

(* A key that is shut out is let in again, though it keeps being tried.    *)
ShutOutEnds ==
  \A k \in Keys : Len(Filter(attempts[k])) >= Limit ~> Len(Filter(attempts[k])) < Limit
=============================================================================
