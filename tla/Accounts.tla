------------------------------- MODULE Accounts -------------------------------
(***************************************************************************)
(* The pool of accounts: who is limited, where new sessions go.            *)
(*                                                                         *)
(* A pointer file names the account of the pool.  Every manager has its    *)
(* own monitor loop, and every loop that meets a session stopped by a      *)
(* usage limit or by repeated login failures records the account as        *)
(* bricked, may flip the pointer to another account, and launches a        *)
(* recovery manager when the stopped session is its manager.  The loops    *)
(* share account-state.json and the flip ledger, under a lock that is      *)
(* taken for each record and each flip and released in between; workers    *)
(* are spawned by sessions that read the same files without it.            *)
(*                                                                         *)
(* Times are ages: how long ago a time stamp was, up to the age from which *)
(* nothing reads it differently.  A scan is short against all of them.     *)
(***************************************************************************)
EXTENDS Integers, Sequences, FiniteSets, FiniteSetsExt, SequencesExt

CONSTANTS
    Accounts,    \* a sequence: the registry, in the order of [[accounts.pool]]
    Default,     \* the account of the default config directory
    Managers,    \* each with its monitor loop
    WorkersOf,   \* WorkersOf[m]: the sequence of m's workers
    Busy,        \* the sessions with a turn that runs: the others are not scanned
    None,
    MaxReset, Cooldown, EpisodeGap, AuthWindow, TakeoverGuard,  \* in ticks
    MaxMishaps   \* bound on all that goes wrong together: limits, broken
                 \* logins, failing launches and notes, scans that die,
                 \* damages, locked keychains, and workers resumed for them

Names == ToSet(Accounts)

Workers(m) == ToSet(WorkersOf[m])
Sessions == Managers \union UNION {Workers(m) : m \in Managers}
\* What loop m looks at, in this order.
Fleet(m) == <<m>> \o WorkersOf[m]

ASSUME AccountsAssumption ==
    /\ Accounts \in Seq(Names) /\ Default \in Names /\ None \notin Names
    /\ Busy \subseteq Sessions
    /\ \A m \in Managers : WorkersOf[m] \in Seq(Workers(m)) /\ Workers(m) \intersect Managers = {}
    /\ MaxReset \in Nat /\ Cooldown \in 1..MaxReset /\ EpisodeGap \in Nat
    /\ AuthWindow \in Nat /\ TakeoverGuard \in Nat /\ MaxMishaps \in Nat

VARIABLES
    pointer,    \* account-active
    state,      \* account-state.json
    ledger,     \* account-flips.jsonl: per manager, the ages of its launches,
                \* one in a tick at most
    recovery,   \* per loop: the key recovery:<sid> of its emitted state
    authKey,    \* per loop: the key auth-recovery:<sid> of it
    scan,       \* per loop: the scan that runs
    due,        \* loops that have not scanned since the last tick
    keychain,   \* whether the keychain is unlocked
    farm,       \* accounts whose config directory is healthy
    session,    \* per session: its account, its stamp, the end of its transcript
    limit,      \* per account: how long its usage limit still lasts
    broken,     \* accounts whose login answers 401
    heir        \* per manager: a recovery manager that starts

(***************************************************************************)
(* Observability variables.                                                *)
(***************************************************************************)
VARIABLES
    launched,   \* per manager: the ages of the launches there were
    flip,       \* the last flip there was: its age, and whether it was noted
    wasLimited, \* accounts that ever ran into a limit or that an unstamped
                \* session made look so
    lost,       \* per manager: launches its ledger never learned of, the scan
                \* dying before or the line failing
    blind,      \* per manager: launches made on a ledger that could not be read
    unwritten,  \* accounts that a scan of this tick met stopped and could not
                \* put on record
    mishaps     \* what is left of MaxMishaps

svars == <<recovery, authKey, scan, due>>
evars == <<keychain, farm, session, limit, broken>>
ovars == <<launched, flip, wasLimited, lost, blind, unwritten>>
vars == <<pointer, state, ledger, svars, evars, heir, ovars, mishaps>>

Ages(cap) == 0..cap
Older(age, cap) == IF age < cap THEN age + 1 ELSE cap
Sooner(left) == IF left > 0 THEN left - 1 ELSE 0

\* The end of a transcript.  "left": how far ahead the reset is that a limit
\* banner names, 0 when it names none that lies ahead of now.
Tails == [kind : {"ok", "limit", "auth"}, left : Ages(MaxReset)]
Ok == [kind |-> "ok", left |-> 0]
Session == [acct : Names, stamp : Names \union {None}, tail : Tails]

NoEpisode == [attempts |-> 0, seen |-> AuthWindow + 1, distinct |-> AuthWindow + 1, uuids |-> {}]
NoKey == [at |-> TakeoverGuard + 1, relaunched |-> FALSE, there |-> FALSE]
Key == [at |-> 0, relaunched |-> FALSE, there |-> TRUE]
Pcs == {"off", "brick", "flip", "launch", "relaunch", "auth", "authflip",
        "authlaunch", "append", "emit"}
NoScan == [pc |-> "off", at |-> 0, pool |-> None, acct |-> None, target |-> None,
           suspect |-> FALSE, recovery |-> NoKey, authKey |-> FALSE]

Keys == [at : Ages(TakeoverGuard + 1), relaunched : BOOLEAN, there : BOOLEAN]
Episode == [attempts : Nat, seen : Ages(AuthWindow + 1), distinct : Ages(AuthWindow + 1),
            uuids : SUBSET Sessions]
State == [blocked : [Names -> Ages(MaxReset)], seen : [Names -> Ages(EpisodeGap + 1)],
          auth : [Names -> Episode], flip : [age : Ages(MaxReset), to : Names \union {None}]]
Scan == [pc : Pcs, at : Nat, pool : Names \union {None}, acct : Names \union {None},
         target : Names \union {None}, suspect : BOOLEAN, recovery : Keys, authKey : BOOLEAN]

TypeOK ==
    /\ pointer \in Names
    /\ state \in State
    /\ ledger \in [Managers -> SUBSET Ages(MaxReset - 1)]
    /\ launched \in [Managers -> SUBSET Ages(MaxReset - 1)]
    /\ recovery \in [Managers -> Keys] /\ authKey \in [Managers -> BOOLEAN]
    /\ scan \in [Managers -> Scan]
    /\ \A m \in Managers : /\ scan[m].pc # "off" => scan[m].pool \in Names
                           /\ scan[m].pc \notin {"off", "append", "emit"} =>
                                  scan[m].at \in DOMAIN Fleet(m) /\ scan[m].acct \in Names
    /\ due \subseteq Managers /\ farm \subseteq Names /\ broken \subseteq Names
    /\ keychain \in BOOLEAN
    /\ session \in [Sessions -> Session]
    /\ heir \in [Managers -> Session \union {None}]
    /\ limit \in [Names -> Ages(MaxReset)]
    /\ flip \in [age : Ages(MaxReset), noted : BOOLEAN]
    /\ wasLimited \subseteq Names /\ unwritten \subseteq Names
    /\ lost \in [Managers -> Nat] /\ blind \in [Managers -> Nat] /\ mishaps \in Nat

\* At first some sessions are older than the pool: they have no stamp.
Init ==
    /\ pointer = Default
    /\ state = [blocked |-> [a \in Names |-> 0],
                seen |-> [a \in Names |-> EpisodeGap + 1],
                auth |-> [a \in Names |-> NoEpisode],
                flip |-> [age |-> MaxReset, to |-> None]]
    /\ ledger = [m \in Managers |-> {}]
    /\ recovery = [m \in Managers |-> NoKey]
    /\ authKey = [m \in Managers |-> FALSE]
    /\ scan = [m \in Managers |-> NoScan]
    /\ due = Managers
    /\ keychain = TRUE
    /\ farm = Names
    /\ \E unstamped \in SUBSET (Busy \intersect Managers) :
          session = [s \in Sessions |->
              [acct |-> Default, stamp |-> IF s \in unstamped THEN None ELSE Default, tail |-> Ok]]
    /\ limit = [a \in Names |-> 0]
    /\ broken = {}
    /\ heir = [m \in Managers |-> None]
    /\ launched = [m \in Managers |-> {}]
    /\ flip = [age |-> MaxReset, noted |-> TRUE]
    /\ wasLimited = {}
    /\ lost = [m \in Managers |-> 0]
    /\ blind = [m \in Managers |-> 0]
    /\ unwritten = {}
    /\ mishaps = MaxMishaps

Mishap == mishaps > 0 /\ mishaps' = mishaps - 1

(***************************************************************************)
(* What the files say.                                                     *)
(***************************************************************************)
\* _entry_bricked, and the spawner's _account_is_bricked.
Bricked(a) == state.blocked[a] > 0
\* _auth_401_active.
AuthActive(a) == state.auth[a].distinct <= AuthWindow
PoolOf(s, pool) == pool
\* _account_of: a session without a stamp counts for the pool's account.
AccountOf(s, pool) == IF session[s].stamp # None THEN session[s].stamp ELSE pool

\* The first of a sequence that is in S, if one is.
FirstOf(seq, S) == LET found == {i \in DOMAIN seq : seq[i] \in S}
                   IN  IF found = {} THEN None ELSE seq[Min(found)]
NextName == FirstOf(Accounts, Names \ {pointer})
\* _flip_target: the first account of the registry that is neither.
FlipTarget == FirstOf(Accounts, {a \in Names \ {pointer} : ~Bricked(a) /\ ~AuthActive(a)})

\* _ledger_recovery_launches counts the launches on the ledger, or answers 0
\* where it cannot read it.
Launches(m) == Cardinality(ledger[m])
Counts(m) == {Launches(m), 0}
\* _recent_flip_landed_on.
RecentFlipTo(a) == state.flip.to = a /\ state.flip.age < MaxReset

\* What _record_brick writes: a new episode forgets the reset of the last.
WithBrick(a, left) ==
    LET new == ~Bricked(a) \/ state.seen[a] > EpisodeGap
    IN  [state EXCEPT !.seen[a] = 0,
                      !.blocked[a] = IF left > 0 THEN left ELSE IF new THEN MaxReset ELSE @]

MaxAttempts == 2
\* What _record_auth_401 writes and answers, for the event at the end of s's
\* transcript.
SameEvent(a, s) == state.auth[a].seen <= AuthWindow /\ s \in state.auth[a].uuids
Attempts(a, s) ==
    IF state.auth[a].seen > AuthWindow THEN 1
    ELSE IF SameEvent(a, s) THEN state.auth[a].attempts
    ELSE Older(state.auth[a].attempts, MaxAttempts + 1)
WithAuth(a, s) ==
    LET old == IF state.auth[a].seen > AuthWindow THEN {} ELSE state.auth[a].uuids
    IN  [state EXCEPT !.auth[a] =
            IF SameEvent(a, s) THEN [@ EXCEPT !.seen = 0]
            ELSE [attempts |-> Attempts(a, s), seen |-> 0, distinct |-> 0, uuids |-> old \union {s}]]
Decision(a, s) ==
    IF SameEvent(a, s) THEN "duplicate"
    ELSE IF Attempts(a, s) <= MaxAttempts THEN "recover" ELSE "escalate"

(***************************************************************************)
(* A scan of loop m: its manager first, then its workers.                  *)
(***************************************************************************)
Subject(m) == Fleet(m)[scan[m].at]
To(m, pc) == scan' = [scan EXCEPT ![m].pc = pc]
\* Those from a place on whose transcript ends in a banner or a 401.
Stopped(m, from) == {i \in from..Len(Fleet(m)) : session[Fleet(m)[i]].tail.kind # "ok"}
\* What a scan goes on with, from a place on; at the end the keys are written
\* that are not what they were.
LookAt(m, next, from) ==
    IF Stopped(m, from) = {}
    THEN IF next.recovery = recovery[m] /\ next.authKey = authKey[m] THEN NoScan
         ELSE [next EXCEPT !.pc = "emit"]
    ELSE LET i == Min(Stopped(m, from))
             s == Fleet(m)[i]
             there == [next EXCEPT !.at = i, !.acct = AccountOf(s, next.pool)]
         IN  IF session[s].tail.kind = "limit" THEN [there EXCEPT !.pc = "brick"]
             ELSE [there EXCEPT !.pc = "auth", !.authKey = IF s = m THEN authKey[m] ELSE @]
\* On to the next session; what is remembered of this one is kept.
Pass(m, next) == scan' = [scan EXCEPT ![m] = LookAt(m, next, next.at + 1)]

Start(m) ==
    /\ m \in due /\ scan[m].pc = "off"
    /\ due' = due \ {m}
    /\ Stopped(m, 1) # {} \/ recovery[m].there \/ authKey[m]
    /\ scan' = [scan EXCEPT ![m] = LookAt(m, [NoScan EXCEPT !.pool = pointer], 1)]
    /\ UNCHANGED <<pointer, state, ledger, recovery, authKey, evars, heir, ovars, mishaps>>

\* The banner is recorded; what follows for a manager depends on the key.
AfterBrick(m) ==
    IF Subject(m) # m THEN To(m, "flip")
    ELSE IF ~recovery[m].there
         THEN To(m, IF scan[m].acct = scan[m].pool THEN "flip" ELSE "launch")
    ELSE IF ~recovery[m].relaunched /\ recovery[m].at > TakeoverGuard THEN To(m, "relaunch")
    ELSE Pass(m, [scan[m] EXCEPT !.recovery = recovery[m]])
\* A record that cannot be written is passed over, and the scan goes on.
Record(a, new) ==
    \/ /\ state' = new
       /\ UNCHANGED <<unwritten, mishaps>>
    \/ /\ Mishap
       /\ unwritten' = unwritten \union {a}
       /\ UNCHANGED state
Brick(m) ==
    /\ scan[m].pc = "brick"
    /\ Record(scan[m].acct, WithBrick(scan[m].acct, session[Subject(m)].tail.left))
    /\ wasLimited' = IF session[Subject(m)].stamp = None THEN wasLimited \union {scan[m].acct}
                     ELSE wasLimited
    /\ AfterBrick(m)
    /\ UNCHANGED <<pointer, ledger, recovery, authKey, due, evars, heir, launched, flip, lost, blind>>

\* _maybe_flip_account: the pointer first, then the note of it, which may fail.
MayFlip(acct) ==
    /\ pointer = acct
    /\ state.flip.age >= Cooldown
    /\ keychain
    /\ FlipTarget # None
MaybeFlip(acct) ==
    IF ~MayFlip(acct) THEN UNCHANGED <<pointer, state, flip, mishaps>>
    ELSE /\ pointer' = FlipTarget
         /\ \/ /\ state' = [state EXCEPT !.flip = [age |-> 0, to |-> FlipTarget]]
               /\ flip' = [age |-> 0, noted |-> TRUE]
               /\ UNCHANGED mishaps
            \/ /\ Mishap
               /\ flip' = [age |-> 0, noted |-> FALSE]
               /\ UNCHANGED state
Landed(acct) == IF MayFlip(acct) THEN FlipTarget ELSE None

Flip(m) ==
    /\ scan[m].pc = "flip"
    /\ MaybeFlip(scan[m].acct)
    /\ LET new == Landed(scan[m].acct)  IN
       IF Subject(m) = m /\ (new # None \/ RecentFlipTo(scan[m].pool))
       THEN scan' = [scan EXCEPT ![m].pc = "launch", ![m].target = new]
       ELSE Pass(m, scan[m])
    /\ UNCHANGED <<ledger, recovery, authKey, due, evars, heir, launched, wasLimited, lost, blind, unwritten>>

\* _account_config_prefix, and _build_account_prefix: the login a session gets
\* is that of the config directory, which has to be healthy; else the session
\* is on the default login and has to be stamped so.
Login(a, healthy) == IF a # Default /\ healthy THEN a ELSE Default
Stamp(a, healthy) == IF a = Default \/ healthy THEN a ELSE Default
Started(a, healthy) == [acct |-> Login(a, healthy), stamp |-> Stamp(a, healthy), tail |-> Ok]

\* _launch_recovery_manager starts a session that will take the fleet over,
\* or fails; the caller does not look which.  n is what the ledger was taken
\* to say.
LaunchOn(m, a, n) ==
    /\ launched' = [launched EXCEPT ![m] = @ \union {0}]
    /\ LET started == [heir EXCEPT ![m] = Started(a, a \in farm)]
       IN  \/ /\ n = Launches(m)
              /\ heir' = started
              /\ UNCHANGED <<blind, mishaps>>
           \/ /\ Mishap
              /\ heir' \in {heir, started}
              /\ blind' = IF n = Launches(m) THEN blind ELSE [blind EXCEPT ![m] = @ + 1]

\* A flip of this scan vouches for the keychain; else it is asked again.
MayLaunch(m, n) ==
    /\ scan[m].target # None \/ keychain
    /\ n = 0
Launch(m) ==
    /\ scan[m].pc = "launch"
    /\ \E n \in Counts(m) :
          IF MayLaunch(m, n)
          THEN /\ LaunchOn(m, IF scan[m].target # None THEN scan[m].target ELSE scan[m].pool, n)
               /\ scan' = [scan EXCEPT ![m].pc = "append", ![m].recovery = Key]
          ELSE Pass(m, scan[m]) /\ UNCHANGED <<launched, heir, blind, mishaps>>
    /\ UNCHANGED <<pointer, state, ledger, recovery, authKey, due, evars, flip, wasLimited, lost, unwritten>>

MayRelaunchUnbound(m, n) == keychain
\* One more launch for a manager still stopped after the guard time.
MayRelaunch(m, n) == keychain /\ n <= 1
Relaunch(m) ==
    /\ scan[m].pc = "relaunch"
    /\ \E n \in Counts(m) :
          IF MayRelaunch(m, n)
          THEN /\ LaunchOn(m, pointer, n)
               /\ scan' = [scan EXCEPT ![m].pc = "append",
                                       ![m].recovery = [recovery[m] EXCEPT !.relaunched = TRUE]]
          ELSE /\ Pass(m, [scan[m] EXCEPT !.recovery = recovery[m]])
               /\ UNCHANGED <<launched, heir, blind, mishaps>>
    /\ UNCHANGED <<pointer, state, ledger, recovery, authKey, due, evars, flip, wasLimited, lost, unwritten>>

\* The ledger learns of a launch only after it; _append_account_ledger passes
\* over a line it cannot write.
Append1(m) ==
    /\ scan[m].pc = "append"
    /\ \/ /\ ledger' = [ledger EXCEPT ![m] = @ \union {0}]
          /\ UNCHANGED <<lost, mishaps>>
       \/ /\ Mishap
          /\ lost' = [lost EXCEPT ![m] = @ + 1]
          /\ UNCHANGED ledger
    /\ Pass(m, scan[m])
    /\ UNCHANGED <<pointer, state, recovery, authKey, due, evars, heir, launched, flip,
                   wasLimited, blind, unwritten>>

\* _record_auth_401, and which account a recovery may go to: the same one for
\* the first attempt, the pool's when it is another and not suspect itself.
SameAccountAttempts == 1
RecoverTarget(m, attempts, suspect) ==
    IF attempts <= SameAccountAttempts /\ (scan[m].pool = scan[m].acct \/ ~suspect) THEN scan[m].pool
    ELSE IF scan[m].pool # scan[m].acct /\ ~suspect THEN scan[m].pool ELSE None
\* A record that fails answers as for a first attempt.
Verdict(m, decision, target) ==
    IF Subject(m) = m /\ decision = "recover" /\ target = None THEN "escalate" ELSE decision
AuthTo(m, attempts, decision, suspect) ==
    LET target == RecoverTarget(m, attempts, suspect)
        next == [scan[m] EXCEPT !.target = target, !.suspect = suspect]
        verdict == Verdict(m, decision, target)
    IN  CASE verdict = "escalate" -> scan' = [scan EXCEPT ![m] = [next EXCEPT !.pc = "authflip"]]
          [] verdict = "recover" /\ Subject(m) = m ->
               scan' = [scan EXCEPT ![m] = [next EXCEPT !.pc = "authlaunch"]]
          [] OTHER -> Pass(m, scan[m])
Auth(m) ==
    /\ scan[m].pc = "auth"
    /\ LET s == Subject(m)
           a == scan[m].acct
       IN  \/ /\ state' = WithAuth(a, s)
              /\ AuthTo(m, Attempts(a, s), Decision(a, s), scan[m].pool = a \/ AuthActive(scan[m].pool))
              /\ UNCHANGED <<unwritten, mishaps>>
           \/ /\ Mishap
              /\ unwritten' = unwritten \union {a}
              /\ AuthTo(m, 1, "recover", AuthActive(scan[m].pool))
              /\ UNCHANGED state
    /\ UNCHANGED <<pointer, ledger, recovery, authKey, due, evars, heir, launched, flip,
                   wasLimited, lost, blind>>

AuthFlip(m) ==
    /\ scan[m].pc = "authflip"
    /\ MaybeFlip(scan[m].acct)
    /\ LET new == Landed(scan[m].acct)
           target == IF new # None THEN new
                     ELSE IF ~scan[m].suspect THEN scan[m].pool ELSE None
       IN  IF Subject(m) = m THEN scan' = [scan EXCEPT ![m].pc = "authlaunch", ![m].target = target]
           ELSE Pass(m, scan[m])
    /\ UNCHANGED <<ledger, recovery, authKey, due, evars, heir, launched, wasLimited, lost, blind, unwritten>>

MayAuthLaunch(m, n) == scan[m].target # None /\ ~authKey[m] /\ keychain /\ n = 0
AuthLaunch(m) ==
    /\ scan[m].pc = "authlaunch"
    /\ \E n \in Counts(m) :
          IF MayAuthLaunch(m, n)
          THEN /\ LaunchOn(m, scan[m].target, n)
               /\ scan' = [scan EXCEPT ![m].pc = "append", ![m].authKey = TRUE]
          ELSE Pass(m, scan[m]) /\ UNCHANGED <<launched, heir, blind, mishaps>>
    /\ UNCHANGED <<pointer, state, ledger, recovery, authKey, due, evars, flip, wasLimited, lost, unwritten>>

\* The emitted state is replaced at the end.  Without a reader the lane ends
\* there: the keys of actions are kept, next to all the old ones.
Emit(m) ==
    /\ scan[m].pc = "emit"
    /\ \/ /\ recovery' = [recovery EXCEPT ![m] = scan[m].recovery]
          /\ authKey' = [authKey EXCEPT ![m] = scan[m].authKey]
          /\ UNCHANGED mishaps
       \/ /\ Mishap
          /\ recovery' = [recovery EXCEPT ![m] = IF scan[m].recovery.there THEN scan[m].recovery ELSE @]
          /\ authKey' = [authKey EXCEPT ![m] = @ \/ scan[m].authKey]
    /\ scan' = [scan EXCEPT ![m] = NoScan]
    /\ UNCHANGED <<pointer, state, ledger, due, evars, heir, ovars>>

\* The loop is killed in the middle of a scan, and armed again.
Die(m) ==
    /\ scan[m].pc # "off"
    /\ Mishap
    /\ scan' = [scan EXCEPT ![m] = NoScan]
    /\ lost' = IF scan[m].pc = "append" THEN [lost EXCEPT ![m] = @ + 1] ELSE lost
    /\ UNCHANGED <<pointer, state, ledger, recovery, authKey, due, evars, heir, launched, flip, wasLimited, blind, unwritten>>

(***************************************************************************)
(* Spawning a worker.                                                      *)
(***************************************************************************)
\* _pick_account: in the order the counter gives, the first account that is
\* neither bricked nor near a limit, else the first that is not bricked.
PickAccount(order, near) ==
    LET free == {a \in Names : ~Bricked(a)}
    IN  FirstOf(order, IF free \ near # {} THEN free \ near ELSE free)

\* usage_spawn_gate: spawning pauses while all that could be picked are near
\* their five-hour limit.
SpawnGate(near5) ==
    LET free == {a \in Names : ~Bricked(a)} IN free = {} \/ ~(free \subseteq near5)

\* _pick_by_counter puts one account first.
Order(first) == <<first>> \o Accounts

\* ensure_account_config_dir: a spawn on another account than the default one
\* links its config directory and writes a healthy .claude.json, if it can.
FarmAfter(a, repaired) == IF a # None /\ repaired THEN farm \union {a} ELSE farm

\* A worker is killed and resumed; the config directory is repaired first if
\* it can be.  With no account to pick the worker gets the default login and
\* no stamp.
Picks == {a \in Names \union {None} :
             \E first \in Names, near5 \in SUBSET Names, near7 \in SUBSET Names :
                 SpawnGate(near5) /\ a = PickAccount(Order(first), near5 \union near7)}
Respawn(m) ==
    /\ Mishap
    /\ \E w \in Workers(m), a \in Picks, repaired \in BOOLEAN :
          /\ session' = [session EXCEPT ![w] =
                IF a = None THEN [acct |-> Default, stamp |-> None, tail |-> Ok]
                ELSE Started(a, a \in farm \/ repaired)]
          /\ farm' = FarmAfter(a, repaired)
    /\ UNCHANGED <<pointer, state, ledger, svars, keychain, limit, broken, heir, ovars>>

(***************************************************************************)
(* The sessions and the world around them.                                 *)
(***************************************************************************)
\* A scan is short: what sessions meet they meet between the scans.
Quiet == \A m \in Managers : scan[m].pc = "off"

\* A session makes a request.  A limited account answers with a banner,
\* whose reset can be read or not; a broken login with a 401, which is a new
\* event each time.
Request(s) ==
    /\ Quiet
    /\ LET a == session[s].acct IN
       \/ /\ limit[a] > 0
          /\ \E left \in {0, limit[a]} :
                session' = [session EXCEPT ![s].tail = [kind |-> "limit", left |-> left]]
          /\ UNCHANGED state
       \/ /\ limit[a] = 0 /\ a \in broken
          /\ session' = [session EXCEPT ![s].tail = [kind |-> "auth", left |-> 0]]
          /\ state' = [state EXCEPT !.auth = [b \in Names |-> [state.auth[b] EXCEPT !.uuids = @ \ {s}]]]
       \/ /\ limit[a] = 0 /\ a \notin broken
          /\ session' = [session EXCEPT ![s].tail = Ok]
          /\ UNCHANGED state
    /\ UNCHANGED <<pointer, ledger, svars, keychain, farm, limit, broken, heir, ovars, mishaps>>

\* The recovery manager takes over, if its account answers: the loop starts
\* anew on a session of another id.
TakeOver(m) ==
    /\ heir[m] # None /\ scan[m].pc = "off"
    /\ limit[heir[m].acct] = 0 /\ heir[m].acct \notin broken
    /\ session' = [session EXCEPT ![m] = heir[m]]
    /\ heir' = [heir EXCEPT ![m] = None]
    /\ ledger' = [ledger EXCEPT ![m] = {}]
    /\ launched' = [launched EXCEPT ![m] = {}]
    /\ lost' = [lost EXCEPT ![m] = 0]
    /\ blind' = [blind EXCEPT ![m] = 0]
    /\ recovery' = [recovery EXCEPT ![m] = NoKey]
    /\ authKey' = [authKey EXCEPT ![m] = FALSE]
    /\ UNCHANGED <<pointer, state, scan, due, keychain, farm, limit, broken, flip, wasLimited, unwritten, mishaps>>

HitLimit(a) ==
    /\ Quiet
    /\ limit[a] = 0 /\ Mishap
    /\ limit' = [limit EXCEPT ![a] = MaxReset]
    /\ wasLimited' = wasLimited \union {a}
    /\ UNCHANGED <<pointer, state, ledger, svars, keychain, farm, session, broken, heir, launched, flip, lost, blind, unwritten>>

\* A login stops being accepted; the user logs in again.
LoginBreaks(a) ==
    /\ Quiet
    /\ a \notin broken /\ Mishap
    /\ broken' = broken \union {a}
    /\ UNCHANGED <<pointer, state, ledger, svars, keychain, farm, session, limit, heir, ovars>>
LoginFixed(a) ==
    /\ Quiet /\ Mishap
    /\ broken' = broken \ {a}
    /\ UNCHANGED <<pointer, state, ledger, svars, keychain, farm, session, limit, heir, ovars>>

\* The keychain is locked or unlocked; a config directory is damaged.
LockOrUnlock ==
    /\ Quiet
    /\ Mishap /\ keychain' = ~keychain
    /\ UNCHANGED <<pointer, state, ledger, svars, farm, session, limit, broken, heir, ovars>>
Damage(a) ==
    /\ Quiet
    /\ a \in farm \ {Default} /\ Mishap
    /\ farm' = farm \ {a}
    /\ UNCHANGED <<pointer, state, ledger, svars, keychain, session, limit, broken, heir, ovars>>

Aged(ages) == {age + 1 : age \in ages} \ {MaxReset}
Tick ==
    /\ Quiet
    /\ limit' = [a \in Names |-> Sooner(limit[a])]
    /\ session' = [s \in Sessions |-> [session[s] EXCEPT !.tail.left = Sooner(@)]]
    /\ state' = [blocked |-> [a \in Names |-> Sooner(state.blocked[a])],
                 seen |-> [a \in Names |-> Older(state.seen[a], EpisodeGap + 1)],
                 auth |-> [a \in Names |->
                     IF state.auth[a].seen >= AuthWindow
                     THEN [NoEpisode EXCEPT !.distinct = Older(state.auth[a].distinct, AuthWindow + 1)]
                     ELSE [state.auth[a] EXCEPT !.seen = @ + 1, !.distinct = Older(@, AuthWindow + 1)]],
                 flip |-> [age |-> Older(state.flip.age, MaxReset),
                           to |-> IF state.flip.age >= MaxReset - 1 THEN None ELSE state.flip.to]]
    /\ recovery' = [m \in Managers |-> IF recovery[m].there
                        THEN [recovery[m] EXCEPT !.at = Older(@, TakeoverGuard + 1)] ELSE NoKey]
    /\ ledger' = [m \in Managers |-> Aged(ledger[m])]
    /\ launched' = [m \in Managers |-> Aged(launched[m])]
    /\ flip' = [flip EXCEPT !.age = Older(@, MaxReset)]
    /\ due' = Managers
    /\ unwritten' = {}
    /\ UNCHANGED <<pointer, authKey, scan, keychain, farm, broken, heir, wasLimited, lost, blind, mishaps>>

ScanStep(m) ==
    \/ Start(m) \/ Brick(m) \/ Flip(m) \/ Launch(m)
    \/ Relaunch(m) \/ Append1(m) \/ Auth(m) \/ AuthFlip(m) \/ AuthLaunch(m) \/ Emit(m)

Next ==
    \/ \E m \in Managers : ScanStep(m) \/ Die(m) \/ Respawn(m) \/ TakeOver(m)
    \/ \E s \in Busy : Request(s)
    \/ \E a \in Names : HitLimit(a) \/ LoginBreaks(a) \/ LoginFixed(a) \/ Damage(a)
    \/ LockOrUnlock \/ Tick

Spec == Init /\ [][Next]_vars

(***************************************************************************)
(* Properties                                                              *)
(***************************************************************************)
\* One stopped manager is replaced at most twice in the time a limit can
\* last, whatever its scans forget: the ledger stands in for the keys.  Each
\* launch that the ledger never learned of, and each that was made on a ledger
\* that could not be read, may add one.  Launches are told apart by their
\* ages: no loop launches twice in a tick.
Launching(m) == scan[m].pc \in {"launch", "relaunch", "authlaunch"}
LaunchesBounded ==
    \A m \in Managers : /\ Cardinality(launched[m]) <= 2 + lost[m] + blind[m]
                        /\ Launching(m) => 0 \notin launched[m]

\* The pointer leaves only an account that is on record as stopped, or that a
\* scan of this moment met stopped and could not record, for one that is not
\* on record, and not again within the cooldown, unless the note of the last
\* flip failed: whatever several loops do on what they read before.
FlipsAreSane ==
    [][pointer' # pointer =>
          /\ Bricked(pointer) \/ AuthActive(pointer) \/ pointer \in unwritten
          /\ ~Bricked(pointer') /\ ~AuthActive(pointer')
          /\ flip.age >= Cooldown \/ ~flip.noted]_vars

\* An account is blocked only if it ran into a limit, or a session that
\* carries no stamp was taken to be on it.
BricksAreEarned == TypeOK /\ \A a \in Names : Bricked(a) => a \in wasLimited
=============================================================================
