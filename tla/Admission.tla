----------------------------- MODULE Admission -----------------------------
(* Which provider binding a step runs on.  dispatchReadyStep resolves a     *)
(* binding from the project's pool and rotates through the pool until the   *)
(* step's declarations are met, in three passes one after the other:        *)
(* `providers`, binding.provider (the pin), differentFrom (independence);   *)
(* then containment is asked for.  The pool is filtered by the cooldowns    *)
(* that the ends of other turns set and clear at any time                   *)
(* (cmd/radioactive_ralph/binding_resolver.go, provider_cooldowns.go).      *)
(*                                                                          *)
(* adm is the step under admission (dispatchMu admits one at a time) and    *)
(* the locals of the pass it is in; every resolveBinding call is a step.    *)
EXTENDS Integers, Sequences, FiniteSets

CONSTANTS
  Alias,         \* binding names
  TypeOf,        \* the provider type behind a name
  DomainOf,      \* its calibrated independence domain, or Unknown
  Pool,          \* the project's provider selection: a sequence of names
  Step,          \* steps waiting to be dispatched
  AllowedFor,    \* a step's `providers`: names or types, {} without
  PinFor,        \* a step's binding.provider: a type, or NoPin
  PeersOf,       \* a step's differentFrom
  Confined,      \* the project asks for write containment
  Confinable,    \* bindings that can run confined
  Backoff,       \* cooldownDurations, in units of the model's clock
  MaxRotations,  \* maxProviderRotations
  CursorPeriod,  \* bound on the cursor: a multiple of every length a list can have
  NoAlias, NoPin, Unknown, NotRun, NoStep

ASSUME AdmissionAssumption ==
  /\ Pool \in Seq(Alias) /\ Pool # <<>>
  /\ \A i, j \in DOMAIN Pool : Pool[i] = Pool[j] => i = j  \* stringSliceValue
  /\ CursorPeriod \in Nat \ {0}
  /\ \A n \in 1..Len(Pool) : CursorPeriod % n = 0
  /\ Backoff \in Seq(Nat \ {0}) /\ Backoff # <<>>
  /\ MaxRotations \in Nat
  /\ PeersOf \in [Step -> SUBSET Step]
  /\ NoAlias \notin Alias /\ \A a \in Alias : DomainOf[a] # NotRun

VARIABLES
  adm,        \* the admission under way
  cursor,     \* nextByProject: only cursor % Len(names) is used
  cool,       \* time left of each name's cooldown
  failures,   \* consecutiveFailures, up to the end of the schedule
  ranOn,      \* the binding a step in flight runs on
  ranDomain   \* assigned_independence_domain of a step's last execution

admVars == <<adm, cursor, cool, failures, ranOn, ranDomain>>

Idle == [pass |-> "idle", step |-> NoStep, cand |-> NoAlias, seen |-> {},
         peers |-> {}, left |-> 0, steady |-> TRUE]

\* "A real pool is far smaller" than the bound on resolutions.
PoolFits == Len(Pool) <= MaxRotations + 1

\* A cooldown that begins or ends during the admission changes the list that the
\* passes rotate over.
Disturbed(newCool) ==
  IF adm = Idle \/ newCool = cool THEN adm ELSE [adm EXCEPT !.steady = FALSE]

Cooled == {a \in Alias : cool[a] > 0}

PoolSet == {Pool[i] : i \in 1..Len(Pool)}
-----------------------------------------------------------------------------
(* The resolver *)

\* EarliestExpiry: over every entry, those of other projects' pools too.
EarliestExpiry == {a \in Cooled : \A b \in Cooled : cool[a] <= cool[b]}

\* The pool without the cooled names, in its order.
Free ==
  LET kept  == {i \in DOMAIN Pool : Pool[i] \notin Cooled}
      place == CHOOSE s \in [1..Cardinality(kept) -> kept] :
                 /\ {s[k] : k \in DOMAIN s} = kept
                 /\ \A j, k \in DOMAIN s : j < k => s[j] < s[k]
  IN  [k \in 1..Cardinality(kept) |-> Pool[place[k]]]

\* Mutant: no fallback when every name of the pool is cooled.
NamesUncooled == {Free}

\* The lists storeBindingResolver may rotate over: the pool without the cooled
\* names; the name whose cooldown ends first if that leaves nothing.
Names ==
  IF Len(Pool) = 1 \/ Cooled = {} THEN {Pool}
  ELSE IF ~(PoolSet \subseteq Cooled) THEN {Free}
  ELSE {<<a>> : a \in EarliestExpiry}

\* Mutant: the rotation asks with BindingProbe, which leaves the cursor alone.
NextBindingProbe(a) ==
  /\ \E names \in Names : a = names[(cursor % Len(names)) + 1]
  /\ UNCHANGED cursor

\* resolveBinding with BindingDispatch advances the project's cursor.
NextBinding(a) ==
  /\ \E names \in Names : a = names[(cursor % Len(names)) + 1]
  /\ cursor' = (cursor + 1) % CursorPeriod
-----------------------------------------------------------------------------
(* The passes *)

\* CheckAllowedProviders: by name or by type.
CheckAllowedProviders(a, s) ==
  AllowedFor[s] = {} \/ {a, TypeOf[a]} \cap AllowedFor[s] # {}

CheckPinned(a, s) == PinFor[s] \in {NoPin, TypeOf[a]}

\* Mutant: a binding of another domain will do, permitted or not.
CheckIndependentOnly(a, s, peers) ==
  PeersOf[s] = {} \/ (DomainOf[a] # Unknown /\ DomainOf[a] \notin peers)

\* resolveIndependentBinding: a known domain, none of the peers', and the
\* `providers` restriction once more.
CheckIndependent(a, s, peers) ==
  \/ PeersOf[s] = {}
  \/ /\ DomainOf[a] # Unknown
     /\ DomainOf[a] \notin peers
     /\ CheckAllowedProviders(a, s)

PassAdmits(a) ==
  CASE adm.pass = "allowed"     -> CheckAllowedProviders(a, adm.step)
    [] adm.pass = "pinned"      -> CheckPinned(a, adm.step)
    [] adm.pass = "independent" -> CheckIndependent(a, adm.step, adm.peers)

\* The candidate of the last resolution is not looked at any more.
PassHolds == adm.left >= 0 /\ PassAdmits(adm.cand)

\* Mutant: a peer without an execution record does not count.
PeersKnownLoosely(s) == \A q \in PeersOf[s] : ranDomain[q] # Unknown

\* Every peer has run, on a binding whose domain is known.
PeersKnown(s) == \A q \in PeersOf[s] : ranDomain[q] \notin {NotRun, Unknown}

BeginAdmission(s) ==
  /\ adm = Idle
  /\ ranOn[s] = NoAlias
  /\ \E a \in Alias :
       /\ NextBinding(a)
       /\ adm' = [Idle EXCEPT !.pass = "allowed", !.step = s, !.cand = a,
                              !.left = MaxRotations]
  /\ UNCHANGED <<cool, failures, ranOn, ranDomain>>

\* The candidate satisfies this pass: the next one starts from it.
AcceptCandidate ==
  /\ adm.pass \in {"allowed", "pinned"}
  /\ PassHolds
  /\ LET begun == [adm EXCEPT !.seen = {}, !.left = MaxRotations]
     IN  IF adm.pass = "allowed" THEN adm' = [begun EXCEPT !.pass = "pinned"]
         ELSE IF PeersKnown(adm.step)
         THEN adm' = [begun EXCEPT !.pass = "independent",
                                   !.peers = {ranDomain[q] : q \in PeersOf[adm.step]}]
         ELSE adm' = Idle
  /\ UNCHANGED <<cursor, cool, failures, ranOn, ranDomain>>

\* The pool has wrapped, or the bound on resolutions is used up: refused until
\* the next pass over the plan.
Exhausted == adm.cand \in adm.seen \/ adm.left < 0

RotateCandidate ==
  /\ adm.pass \in {"allowed", "pinned", "independent"}
  /\ ~PassHolds /\ ~Exhausted
  /\ \E a \in Alias :
       /\ NextBinding(a)
       /\ adm' = [adm EXCEPT !.seen = @ \cup {adm.cand}, !.cand = a, !.left = @ - 1]
  /\ UNCHANGED <<cool, failures, ranOn, ranDomain>>

RefuseStep ==
  /\ adm.pass \in {"allowed", "pinned", "independent"}
  /\ ~PassHolds /\ Exhausted
  /\ adm' = Idle
  /\ UNCHANGED <<cursor, cool, failures, ranOn, ranDomain>>

\* resolveContainment refuses a binding that cannot run confined; otherwise the
\* step is launched (spend cap and claim are in other modules).
LaunchStep ==
  /\ adm.pass = "independent"
  /\ PassHolds
  /\ ranOn' = IF Confined /\ adm.cand \notin Confinable THEN ranOn
              ELSE [ranOn EXCEPT ![adm.step] = adm.cand]
  /\ adm' = Idle
  /\ UNCHANGED <<cursor, cool, failures, ranDomain>>

\* recordExecutionProvenance, in the goroutine of the attempt.
RecordProvenance(s) ==
  /\ ranOn[s] # NoAlias
  /\ ranDomain' = [ranDomain EXCEPT ![s] = DomainOf[ranOn[s]]]
  /\ UNCHANGED <<adm, cursor, cool, failures, ranOn>>
-----------------------------------------------------------------------------
(* Cooldowns *)

\* RecordFailure: one step further along the schedule, the last entry for ever.
RecordFailure(a) ==
  LET n == IF failures[a] < Len(Backoff) THEN failures[a] + 1 ELSE failures[a]
  IN  /\ failures' = [failures EXCEPT ![a] = n]
      /\ cool' = [cool EXCEPT ![a] = Backoff[n]]

RecordSuccess(a) ==
  /\ failures' = [failures EXCEPT ![a] = 0]
  /\ cool' = [cool EXCEPT ![a] = 0]

\* The failure callback at the end of a turn: verified, a category of
\* shouldCooldown, or any other.
EndStepTurn(s) ==
  /\ ranOn[s] # NoAlias
  /\ \/ RecordSuccess(ranOn[s]) \/ RecordFailure(ranOn[s]) \/ UNCHANGED <<cool, failures>>
  /\ ranOn' = [ranOn EXCEPT ![s] = NoAlias]
  /\ adm' = Disturbed(cool')
  /\ UNCHANGED <<cursor, ranDomain>>

\* The end of a turn of another project, on any binding.
EndOtherTurn(a) ==
  /\ RecordFailure(a)
  /\ adm' = Disturbed(cool')
  /\ UNCHANGED <<cursor, ranOn, ranDomain>>

CoolDown ==
  /\ Cooled # {}
  /\ cool' = [a \in Alias |-> IF cool[a] > 0 THEN cool[a] - 1 ELSE 0]
  /\ adm' = Disturbed(cool')
  /\ UNCHANGED <<cursor, failures, ranOn, ranDomain>>

AdmInit ==
  /\ adm = Idle
  /\ cursor = 0
  /\ cool = [a \in Alias |-> 0]
  /\ failures = [a \in Alias |-> 0]
  /\ ranOn = [s \in Step |-> NoAlias]
  /\ ranDomain = [s \in Step |-> NotRun]

AdmNext ==
  \/ \E s \in Step : BeginAdmission(s) \/ RecordProvenance(s) \/ EndStepTurn(s)
  \/ AcceptCandidate \/ RotateCandidate \/ RefuseStep \/ LaunchStep
  \/ \E a \in Alias : EndOtherTurn(a)
  \/ CoolDown

AdmSpec == AdmInit /\ [][AdmNext]_admVars
-----------------------------------------------------------------------------
\* A step runs only where its declarations allow, whatever the passes, the pool
\* and the other steps do: never on a binding its `providers` excludes unless it
\* is pinned and declares no differentFrom; and if it declares differentFrom, on
\* a binding of known domain, after every peer has an execution on record, in
\* another domain unless the peer is run again while the step is being admitted.
DeclarationsAreKept ==
  /\ [](\A s \in Step : ranOn[s] # NoAlias =>
          /\ PinFor[s] = NoPin \/ PeersOf[s] # {} => CheckAllowedProviders(ranOn[s], s)
          /\ PeersOf[s] # {} => DomainOf[ranOn[s]] # Unknown)
  /\ [][\A s \in Step : ranOn[s] = NoAlias /\ ranOn'[s] # NoAlias =>
          \A q \in PeersOf[s] :
            /\ ranDomain[q] # NotRun
            /\ ranDomain[q] = DomainOf[ranOn'[s]]
                 => ranDomain[q] \notin adm.peers]_admVars

\* No false refusal.  Cooldowns never take the last provider away, whichever turns
\* of whichever projects failed: one of the pool can be tried as long as a member
\* of it is not cooled.  And if no cooldown began or ended during the admission,
\* the rotation has tried every provider it could have, from whatever position it
\* started, and none would have done.
RefusalIsExhaustive ==
  /\ [](\A names \in Names :
          /\ names # <<>>
          /\ PoolSet \subseteq Cooled \/ \A i \in 1..Len(names) : names[i] \in PoolSet)
  /\ [](Names # {})
  /\ [][adm.pass \in {"allowed", "pinned", "independent"} /\ adm' = Idle
          /\ ~PassHolds /\ adm.steady /\ ~(PoolSet \subseteq Cooled)
        => \A names \in Names : \A i \in 1..Len(names) : ~PassAdmits(names[i])]_admVars
=============================================================================
