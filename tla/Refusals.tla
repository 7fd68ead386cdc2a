------------------------------ MODULE Refusals ------------------------------
(***************************************************************************)
(* How widely a refused credential is remembered: the credential arm of    *)
(* handle_translate (addon.rs) with refusal_scope and                      *)
(* ambiguous_refusal_escalates, for one install and one provider key.      *)
(*                                                                         *)
(* The provider is the world here: the key works until it dies, and some   *)
(* shows' dialogue is filtered whatever the key.  A refusal says which     *)
(* status it came with: one that can only be the key's, or one that might  *)
(* be the dialogue's.  What a run does between its start and its refusal   *)
(* is Translation's; whether it had billed anything by then is kept.       *)
(***************************************************************************)
EXTENDS Integers, FiniteSets

CONSTANTS Title,       \* episodes and films
          SeriesOf(_), \* series_of: the show a title belongs to, a film is its own
          Retry,       \* SYNC_RETRY_TTL
          Concurrent,  \* bound: runs of this install at a time
          MaxTime,     \* bound: ticks of the clock
          MaxRestarts  \* bound: restarts

ASSUME RefusalsAssumption ==
    /\ IsFiniteSet(Title) /\ "none" \notin Title
    /\ {Retry, Concurrent} \subseteq Nat \ {0}
    /\ {MaxTime, MaxRestarts} \subseteq Nat

Series == {SeriesOf(t) : t \in Title}

VARIABLES now,
          alive,         \* the provider accepts this install's key
          filtered,      \* the shows whose dialogue it refuses
          at,            \* title -> "idle", "running", "billed" or "translated"
          titleUntil,    \* the title's failure marker, on disk
          seriesUntil,   \* series_refused_key
          installUntil,  \* credential_refused_key
          ambiguous,     \* ambiguous_refusal_key: the last such title, and until when
          restarts,
          refusedAt      \* history: when a title was last refused with nothing billed and
                         \* a status that might be the key's or the dialogue's

refusalsVars == <<now, alive, filtered, at, titleUntil, seriesUntil, installUntil, ambiguous,
          restarts, refusedAt>>

NoTitle == [title |-> "none", until |-> 0]
LongAgo == -Retry

RefusalsInit ==
    /\ now = 0 /\ alive \in BOOLEAN /\ filtered \in SUBSET Series
    /\ at = [t \in Title |-> "idle"]
    /\ titleUntil = [t \in Title |-> 0]
    /\ seriesUntil = [s \in Series |-> 0]
    /\ installUntil = 0
    /\ ambiguous = NoTitle
    /\ restarts = 0
    /\ refusedAt = [t \in Title |-> LongAgo]

Live(until) == now < until

Running == {t \in Title : at[t] \in {"running", "billed"}}

-----------------------------------------------------------------------------

(* A request that gets past the cache starts a run unless its title, the   *)
(* install or the series was refused a moment ago.  One run per title.     *)
Start(t) ==
    /\ at[t] = "idle" /\ Cardinality(Running) < Concurrent
    /\ ~Live(titleUntil[t])
    /\ ~Live(installUntil)
    /\ ~Live(seriesUntil[SeriesOf(t)])
    /\ at' = [at EXCEPT ![t] = "running"]
    /\ UNCHANGED <<now, alive, filtered, titleUntil, seriesUntil, installUntil, ambiguous,
                   restarts, refusedAt>>

(* The provider answers a call of the run.                                 *)
Bill(t) ==
    /\ at[t] = "running" /\ alive
    /\ at' = [at EXCEPT ![t] = "billed"]
    /\ UNCHANGED <<now, alive, filtered, titleUntil, seriesUntil, installUntil, ambiguous,
                   restarts, refusedAt>>

Succeed(t) ==
    /\ at[t] = "billed" /\ alive /\ SeriesOf(t) \notin filtered
    /\ at' = [at EXCEPT ![t] = "translated"]
    /\ UNCHANGED <<now, alive, filtered, titleUntil, seriesUntil, installUntil, ambiguous,
                   restarts, refusedAt>>

-----------------------------------------------------------------------------
Remembered == IF Live(ambiguous.until) THEN ambiguous.title ELSE "none"

(* Mutant: any second title corroborates that the key is dead.             *)
MutCorroboration(t) ==
    CASE Remembered = "none" -> "none"
      [] Remembered = t -> "none"
      [] OTHER -> "unrelated"

(* Mutant: every episode of a show counts as the same title.               *)
MutSameTitle(t) ==
    CASE Remembered = "none" -> "none"
      [] SeriesOf(Remembered) = SeriesOf(t) -> "none"
      [] OTHER -> "unrelated"

(* What an ambiguous refusal of this title corroborates.                   *)
Corroboration(t) ==
    CASE Remembered = "none" -> "none"
      [] Remembered = t -> "none"
      [] SeriesOf(Remembered) = SeriesOf(t) -> "same series"
      [] OTHER -> "unrelated"

RefusalScope(t, keyCertain, spent) ==
    CASE keyCertain -> "install"
      [] spent -> "series"
      [] Corroboration(t) = "unrelated" -> "install"
      [] Corroboration(t) = "same series" -> "series"
      [] OTHER -> "title"

MemoryTtl == 2 * Retry

(* The refusal of a run: the scope's marker, the memory of an ambiguous    *)
(* one, and the title's own marker in any case.                            *)
Remember(t, keyCertain, spent) ==
    LET scope == RefusalScope(t, keyCertain, spent)
    IN  /\ installUntil' = IF scope = "install" THEN now + Retry ELSE installUntil
        /\ seriesUntil' = IF scope = "series"
                            THEN [seriesUntil EXCEPT ![SeriesOf(t)] = now + Retry]
                            ELSE seriesUntil
        /\ ambiguous' = IF keyCertain \/ spent THEN ambiguous
                          ELSE [title |-> t, until |-> now + MemoryTtl]
        /\ titleUntil' = [titleUntil EXCEPT ![t] = now + Retry]

Refuse(t) ==
    /\ t \in Running
    /\ \E keyCertain \in BOOLEAN :
          /\ ~alive \/ (SeriesOf(t) \in filtered /\ ~keyCertain)
          /\ Remember(t, keyCertain, at[t] = "billed")
          /\ refusedAt' = IF keyCertain \/ at[t] = "billed" THEN refusedAt
                            ELSE [refusedAt EXCEPT ![t] = now]
    /\ at' = [at EXCEPT ![t] = "idle"]
    /\ UNCHANGED <<now, alive, filtered, restarts>>

(* The client hangs up, and nothing is remembered.                         *)
GiveUp(t) ==
    /\ t \in Running
    /\ at' = [at EXCEPT ![t] = "idle"]
    /\ UNCHANGED <<now, alive, filtered, titleUntil, seriesUntil, installUntil, ambiguous,
                   restarts, refusedAt>>

-----------------------------------------------------------------------------
KeyDies ==
    /\ alive
    /\ alive' = FALSE
    /\ UNCHANGED <<now, filtered, at, titleUntil, seriesUntil, installUntil, ambiguous,
                   restarts, refusedAt>>

Tick ==
    /\ now < MaxTime
    /\ now' = now + 1
    /\ UNCHANGED <<alive, filtered, at, titleUntil, seriesUntil, installUntil, ambiguous,
                   restarts, refusedAt>>

(* A restart drops the runs and the memory; the title's markers and the    *)
(* translated bodies are on disk.  Evidence starts over.                   *)
Restart ==
    /\ restarts < MaxRestarts
    /\ restarts' = restarts + 1
    /\ at' = [t \in Title |-> IF at[t] = "translated" THEN "translated" ELSE "idle"]
    /\ seriesUntil' = [s \in Series |-> 0] /\ installUntil' = 0 /\ ambiguous' = NoTitle
    /\ refusedAt' = [t \in Title |-> LongAgo]
    /\ UNCHANGED <<now, alive, filtered, titleUntil>>

RefusalsNext ==
    \/ \E t \in Title : Start(t) \/ Bill(t) \/ Succeed(t) \/ Refuse(t) \/ GiveUp(t)
    \/ KeyDies \/ Tick \/ Restart

RefusalsSpec == RefusalsInit /\ [][RefusalsNext]_refusalsVars

-----------------------------------------------------------------------------
(* Types; and no run is under way or done for a title that is still        *)
(* remembered as refused.                                                  *)
RefusalsTypeOK ==
    /\ now \in 0..MaxTime /\ alive \in BOOLEAN /\ filtered \subseteq Series
    /\ at \in [Title -> {"idle", "running", "billed", "translated"}]
    /\ titleUntil \in [Title -> 0..MaxTime + Retry]
    /\ seriesUntil \in [Series -> 0..MaxTime + Retry]
    /\ installUntil \in 0..MaxTime + Retry
    /\ ambiguous.title \in Title \cup {"none"} /\ ambiguous.until \in 0..MaxTime + MemoryTtl
    /\ restarts \in 0..MaxRestarts
    /\ \A t \in Title : at[t] # "idle" => ~Live(titleUntil[t])

(* While the key works, one filtered show never blocks the install:        *)
(* however many of its episodes are refused, at once or one after another, *)
(* with work billed before the refusal or not, every other title runs.     *)
OneShowBlocksOnlyItself ==
    alive /\ Cardinality(filtered) <= 1 =>
        /\ installUntil = 0
        /\ \A s \in Series \ filtered : seriesUntil[s] = 0

(* A dead key, or a filtered show, is found out for the price of three     *)
(* titles even when no status says so, the second of them the show's and   *)
(* the third of another: in any Retry ticks at most that many are refused  *)
(* having billed nothing, plus the runs that were already under way when   *)
(* the show was blocked and when the install was.  Each of them costs the  *)
(* viewer a metered download.                                              *)
RefusalsAreFew ==
    Cardinality({t \in Title : now - refusedAt[t] < Retry}) <= 3 + 2 * (Concurrent - 1)
=============================================================================
