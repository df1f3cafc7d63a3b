------------------------------- MODULE Vision -------------------------------
(***************************************************************************)
(* The failover pool of vision and text endpoints (vision/pool.py), the    *)
(* request loop that its two callers share (LLMGroundingEngine.ground and  *)
(* TextLlmClient.complete), and the throttled escalation of cu_observe     *)
(* from the base engine to the upgrade engine (server._escalate_vision).   *)
(*                                                                         *)
(* Only differences of the monotonic clock matter, so every deadline is    *)
(* kept as the time that is left of it: `until <= now` is "0 is left", and *)
(* time passing (Tick) takes one from each.                                *)
(***************************************************************************)
EXTENDS Naturals, Sequences, SequencesExt

CONSTANTS
    N,                  \* providers in the list, numbered 1..N (index 0..N-1)
    AuthCooldown,       \* DEFAULT_AUTH_COOLDOWN_SECONDS, in ticks
    TransientCooldown,  \* DEFAULT_TRANSIENT_COOLDOWN_SECONDS, in ticks
    UpgradeCooldown,    \* vision_upgrade_cooldown_seconds, in ticks
    PoolModes           \* which ways of getting a pool are looked at

ASSUME VisionAssumption ==
    /\ N \in Nat \ {0}
    /\ AuthCooldown \in Nat \ {0}       \* max(1.0, ...) in __init__
    /\ TransientCooldown \in Nat \ {0}
    /\ TransientCooldown <= AuthCooldown
    /\ UpgradeCooldown \in Nat
    /\ PoolModes \subseteq {"injected", "per_call"}

VARIABLES
    mode,       \* "injected": one pool for all requests; "per_call": `or ProviderPool(...)`
    failed,     \* the pool's _failed: time left of each provider's cooldown
    current,    \* the pool's _current
    asking,     \* the client whose request is running, or "nobody"
    cooling,    \* the pool's _failed when the running request took its candidates
    left,       \* providers the running request has still to try
    answers,    \* what the running (or last) request was answered so far
    result,     \* how the last request ended
    latched,    \* _vision_upgrade_unavailable
    built,      \* _vision_upgrade is not None
    upgradeWait,\* time left of the escalation cooldown
    report,     \* what the last observation said of its upgrade
    rests,      \* history: time each provider has still to rest after its last failure
    restsAt,    \* history: rests when the running request began
    quiet       \* history: time since the last upgrade, up to UpgradeCooldown

poolVars == <<failed, current>>
requestVars == <<asking, cooling, left, answers, result, restsAt>>
escalationVars == <<latched, built, upgradeWait, report, quiet>>
vars == <<mode, poolVars, requestVars, escalationVars, rests>>

Providers == 1..N

\* An HTTP status 401/403; any other HTTP or transport error; a good answer; a
\* good answer whose content does not parse; one whose content is no text, or
\* whose elements are none; a payload of another shape; any exception that is
\* not httpx.HTTPError (an invalid URL, a bad header).
Failures == {"auth", "transient"}
Answers == Failures \union {"ok", "unparsable", "formless", "garbled", "raises"}

Clients == {"text", "base", "upgrade"}
Results == {"none", "served", "all_failed", "unexpected", "raised"}
Reports == {"none", "unavailable", "cooldown", "failed", "upgraded"}

Less(n) == IF n = 0 THEN 0 ELSE n - 1

-----------------------------------------------------------------------------
(* ProviderPool *)

\* Faulty variants of TriedBefore: cooldowns do not matter; equals are taken
\* from _current on.
TriedInOrder(p, q) == p < q
TriedFromCurrent(p, q) ==
    \/ cooling[p] < cooling[q]
    \/ cooling[p] = cooling[q] /\ (p + N - current) % N < (q + N - current) % N

\* candidates(), taken once when the request begins: the healthy ones in their
\* order, then the others by expiry; the sort is stable.
TriedBefore(p, q) ==
    \/ cooling[p] < cooling[q]
    \/ cooling[p] = cooling[q] /\ p < q

Cooldown(answer) ==
    IF answer = "auth" THEN AuthCooldown ELSE TransientCooldown

MarkFailure(p, answer) ==
    /\ failed' = [failed EXCEPT ![p] = Cooldown(answer)]
    /\ current' = (p % N) + 1

MarkSuccess(p) ==
    /\ failed' = [failed EXCEPT ![p] = 0]
    /\ current' = p

\* History: docs/VISION.md 6, how long a provider that failed is to rest.
Rest(answer) == CASE answer = "auth" -> AuthCooldown
                  [] answer = "transient" -> TransientCooldown

-----------------------------------------------------------------------------
(* One request of a client: the loop over the pool's candidates *)

FreshPool == [p \in Providers |-> 0]

\* pool = self._pool or ProviderPool(...); for ... in pool.candidates()
StartRequest(client) ==
    /\ asking' = client
    /\ answers' = <<>>
    /\ restsAt' = rests
    /\ result' = "none"
    /\ left' = Providers
    /\ IF mode = "injected"
         THEN cooling' = failed /\ UNCHANGED poolVars
         ELSE /\ cooling' = FreshPool
              /\ failed' = FreshPool
              /\ current' = 1

\* Faulty variant of Conclude: an upgrade leaves no time stamp.
ConcludeUnstamped(how) ==
    /\ asking' = "nobody"
    /\ left' = {}
    /\ result' = how
    /\ UNCHANGED upgradeWait
    /\ IF asking = "upgrade"
         THEN /\ latched' = (how \in {"all_failed", "unexpected"})
              /\ report' = IF how = "served" THEN "upgraded" ELSE "failed"
              /\ quiet' = IF how = "served" THEN 0 ELSE quiet
         ELSE UNCHANGED <<latched, report, quiet>>

\* _escalate_vision after engine.ground: an upgrade starts the cooldown, an
\* unavailable engine is never asked again, another exception leaves observe.
Conclude(how) ==
    /\ asking' = "nobody"
    /\ left' = {}
    /\ result' = how
    /\ IF asking = "upgrade"
         THEN /\ upgradeWait' = IF how = "served" THEN UpgradeCooldown ELSE upgradeWait
              /\ quiet' = IF how = "served" THEN 0 ELSE quiet
              /\ latched' = (how \in {"all_failed", "unexpected"})
              /\ report' = CASE how = "served" -> "upgraded"
                             [] how = "raised" -> "none"
                             [] OTHER -> "failed"
         ELSE UNCHANGED <<upgradeWait, quiet, latched, report>>

\* Faulty variant of AttemptFails: a rejected key ends the request.
AttemptFailsForGood(p, answer) ==
    /\ answer \in Failures
    /\ MarkFailure(p, answer)
    /\ rests' = [rests EXCEPT ![p] = Rest(answer)]
    /\ IF left # {p} /\ answer # "auth"
         THEN /\ left' = left \ {p}
              /\ UNCHANGED <<asking, result, latched, upgradeWait, report, quiet>>
         ELSE Conclude("all_failed")

\* HTTPStatusError or HTTPError: mark and go on; without a next one, give up.
AttemptFails(p, answer) ==
    /\ answer \in Failures
    /\ MarkFailure(p, answer)
    /\ rests' = [rests EXCEPT ![p] = Rest(answer)]
    /\ IF left # {p}
         THEN /\ left' = left \ {p}
              /\ UNCHANGED <<asking, result, latched, upgradeWait, report, quiet>>
         ELSE Conclude("all_failed")

\* The provider answered; only the grounding engines parse the content, and
\* what they raise on a content that is no text (TypeError, AttributeError)
\* nobody there catches.
Parsed(answer) ==
    CASE asking = "text" \/ answer = "ok" -> "served"
      [] asking # "text" /\ answer = "unparsable" -> "unexpected"
      [] asking # "text" /\ answer = "formless" -> "raised"

AttemptAnswers(p, answer) ==
    /\ answer \in {"ok", "unparsable", "formless"}
    /\ MarkSuccess(p)
    /\ rests' = [rests EXCEPT ![p] = 0]
    /\ Conclude(Parsed(answer))

\* _post raises on its own account: out of the loop, nothing is marked.
AttemptBreaks(answer) ==
    /\ answer \in {"garbled", "raises"}
    /\ UNCHANGED <<poolVars, rests>>
    /\ Conclude(IF answer = "garbled" THEN "unexpected" ELSE "raised")

Attempt ==
    /\ asking # "nobody"
    /\ \E p \in left, answer \in Answers :
         /\ \A q \in left \ {p} : TriedBefore(p, q)
         /\ answers' = Append(answers, [provider |-> p, answer |-> answer])
         /\ \/ AttemptFails(p, answer)
            \/ AttemptAnswers(p, answer)
            \/ AttemptBreaks(answer)
    /\ UNCHANGED <<mode, cooling, restsAt, built>>

\* TextLlmClient.complete for enrich, refine or recall; or the base engine of
\* an observation, when it is the grounding model too.
AskPlain ==
    /\ asking = "nobody"
    /\ \E client \in {"text", "base"} : StartRequest(client)
    /\ UNCHANGED <<mode, escalationVars, rests>>

-----------------------------------------------------------------------------
(* _escalate_vision, for an observation in auto mode whose base table is thin *)

\* The engine cannot be built (an unknown name): found out once.
BuildFails ==
    /\ ~built
    /\ latched' = TRUE
    /\ report' = "none"
    /\ UNCHANGED <<built, upgradeWait, quiet, requestVars, poolVars>>

WaitsForCooldown ==
    /\ upgradeWait > 0
    /\ built' = TRUE
    /\ report' = "cooldown"
    /\ UNCHANGED <<latched, upgradeWait, quiet, requestVars, poolVars>>

AskUpgrade ==
    /\ upgradeWait = 0
    /\ built' = TRUE
    /\ report' = "none"
    /\ StartRequest("upgrade")
    /\ UNCHANGED <<latched, upgradeWait, quiet>>

SuppressLatched ==
    /\ latched
    /\ report' = "unavailable"
    /\ UNCHANGED <<latched, built, upgradeWait, quiet, requestVars, poolVars>>

ObserveThin ==
    /\ asking = "nobody"
    /\ \/ SuppressLatched
       \/ ~latched /\ (BuildFails \/ WaitsForCooldown \/ AskUpgrade)
    /\ UNCHANGED <<mode, rests>>

Tick ==
    /\ failed' = [p \in Providers |-> Less(failed[p])]
    /\ rests' = [p \in Providers |-> Less(rests[p])]
    /\ upgradeWait' = Less(upgradeWait)
    /\ quiet' = IF quiet < UpgradeCooldown THEN quiet + 1 ELSE quiet
    /\ UNCHANGED <<mode, current, requestVars, latched, built, report>>

-----------------------------------------------------------------------------
Init ==
    /\ mode \in PoolModes
    /\ failed = FreshPool
    /\ current = 1
    /\ asking = "nobody"
    /\ cooling = FreshPool
    /\ left = {}
    /\ answers = <<>>
    /\ result = "none"
    /\ latched = FALSE
    /\ built = FALSE
    /\ upgradeWait = 0
    /\ report = "none"
    /\ rests = FreshPool
    /\ restsAt = FreshPool
    /\ quiet = UpgradeCooldown

Next == AskPlain \/ ObserveThin \/ Attempt \/ Tick

Spec == Init /\ [][Next]_vars

\* Time passes, a post ends (it has a timeout), and the session goes on asking.
FairSpec ==
    /\ Spec
    /\ WF_vars(Tick)
    /\ WF_vars(Attempt)
    /\ WF_vars(AskPlain)
    /\ SF_vars(ObserveThin)

-----------------------------------------------------------------------------
(* Properties *)

Tried == {answers[i].provider : i \in DOMAIN answers}

\* The pool, the running request and the escalation keep to their types; the
\* rotation and the candidates stay inside the provider list.
TypeOK ==
    /\ mode \in PoolModes
    /\ failed \in [Providers -> 0..AuthCooldown]
    /\ current \in Providers
    /\ asking \in Clients \union {"nobody"}
    /\ cooling \in [Providers -> 0..AuthCooldown]
    /\ left \subseteq Providers
    /\ asking = "nobody" <=> left = {}
    /\ answers \in Seq([provider : Providers, answer : Answers])
    /\ result \in Results
    /\ latched \in BOOLEAN
    /\ built \in BOOLEAN
    /\ upgradeWait \in 0..UpgradeCooldown
    /\ report \in Reports
    /\ rests \in [Providers -> 0..AuthCooldown]
    /\ restsAt \in [Providers -> 0..AuthCooldown]
    /\ quiet \in 0..UpgradeCooldown

\* A request tries the providers by the rest they still owe when it begins:
\* those that owe none first, and nobody is passed over for one that owes more.
TriedByRest ==
    \A i \in DOMAIN answers :
      \A q \in Providers \ {answers[j].provider : j \in 1 .. i - 1} :
        restsAt[answers[i].provider] <= restsAt[q]

\* With one pool for all its requests, a client never prefers a provider that
\* failed and still rests to one that does not (pool.candidates, mark_failure).
SharedPoolFailsOver == mode = "injected" => TriedByRest

\* A request asks no provider twice; it fails as a whole only after every
\* provider was asked and failed, and nobody is asked after an answer
\* (the for ... else of ground and complete; "All providers are included", says
\* candidates()).  That is so when every provider is cooling, too: all are
\* asked, by expiry, where docs/VISION.md lines 202-204 say that only the
\* soonest-to-expire one is, once.
GivesUpAfterAll ==
    /\ \A i, j \in DOMAIN answers :
         answers[i].provider = answers[j].provider => i = j
    /\ \A i \in DOMAIN answers : i < Len(answers) => answers[i].answer \in Failures
    /\ result = "all_failed" =>
         Tried = Providers /\ Last(answers).answer \in Failures

\* An upgrade is only begun when the whole cooldown has passed since the last
\* one that came back (_escalate_vision, docs/PROTOCOL.md: at most one upgrade
\* per cooldown and process).
UpgradesKeepApart ==
    [][asking' = "upgrade" /\ asking = "nobody" => quiet = UpgradeCooldown]_vars

\* A session that goes on asking comes back to the preferred provider: it is
\* not left aside for ever because another one works (pool.py: the preferred
\* one is retried once its cooldown expires).
PreferredReturns == []<>(1 \in Tried)
=============================================================================
