-------------------------- MODULE ValidationReport ---------------------------
(***************************************************************************)
(* The record a hardware validation keeps of itself                        *)
(* (src/transport/validation_report.rs): twelve checks, what was read from *)
(* and negotiated with the display, and a result that is set once.  These  *)
(* are operators on the record; DeviceValidation is the run that fills it. *)
(*                                                                         *)
(* Only the Type2 side of a negotiated profile is here: the square display *)
(* is turned away by the passive allowlist, so no run records another.     *)
(* Dimensions, versions and messages are left out; redaction is kept as    *)
(* one flag, because a redacted report can neither pass nor be shared.     *)
(***************************************************************************)
EXTENDS Naturals

CheckFields == {"Enumerated", "PassiveAllowlist", "ExclusiveOwner",
                "Handshake", "ActiveWrite", "TargetMarker",
                "SecondDisplayUnchanged", "Orientation", "Colors", "Soak",
                "Reconnect", "DaemonRestored"}
Statuses == {"Unset", "Pass", "Fail", "NotApplicable"}
Stages == (CheckFields \ {"Enumerated"})
            \cup {"Inventory", "Selection", "HidrawCorrelation", "Negotiation"}

Scopes == {"Passive", "Full"}
Results == {"none", "Pass", "Fail", "Aborted"}
Builds == {"clean", "dirty", "unknown"}   \* of the validator, at its build

\* Passive reads of a Type2 display, by what they say.
ReadKinds == {"none", "empty", "pm58", "pm128", "pm68", "known", "unknown",
              "malformed"}
Lengths == [k \in ReadKinds |->
              CASE k = "pm58" -> 8
                [] k = "pm128" -> 36
                [] k \in {"pm68", "known", "unknown"} -> 64
                [] k = "malformed" -> 4
                [] OTHER -> 0]

Policies == {"none", "Hid407ReadOnlyProbe", "StopUnsupportedShape"}
Shapes == {"none", "type2exact", "otherHid", "bulk"}
Labels == {"none", "UpstreamPm58", "ActivePmSub", "ObservedPm68",
           "ObservedInactive"}
Routes == {"none", "HidReport", "HidInterrupt"}

NoProfile == [label |-> "none", route |-> "none", bytes |-> 0]
NoEvidence == [backend |-> FALSE, read |-> 0, failed |-> FALSE,
               authorized |-> FALSE, wrote |-> FALSE]

Report == [scope : Scopes, result : Results, failedStep : Stages \cup {"none"},
           redacted : BOOLEAN, build : Builds, shape : Shapes,
           correlated : BOOLEAN, policy : Policies,
           hid : [backend : BOOLEAN, read : {0, 4, 8, 36, 64},
                  failed : BOOLEAN, authorized : BOOLEAN, wrote : BOOLEAN],
           negotiated : [label : Labels, route : Routes,
                         bytes : {0, 8, 36, 64}],
           checks : [CheckFields -> Statuses]]

NewInProgress(scope, build) ==
    [scope |-> scope, result |-> "none", failedStep |-> "none",
     redacted |-> FALSE, build |-> build, shape |-> "none",
     correlated |-> FALSE, policy |-> "none", hid |-> NoEvidence,
     negotiated |-> NoProfile, checks |-> [f \in CheckFields |-> "Unset"]]

-----------------------------------------------------------------------------
(* Setters.  Every one refuses a report that has its result, and the       *)
(* workflow ignores the refusal: the update is lost.                       *)

Final(r) == r.result # "none"

RecordCheck(r, f, status) ==
    IF Final(r) THEN r ELSE [r EXCEPT !.checks[f] = status]

RecordChecks(r, fields, status) ==
    IF Final(r) THEN r
    ELSE [r EXCEPT !.checks =
            [f \in CheckFields |-> IF f \in fields THEN status ELSE @[f]]]

SetFingerprint(r, shape, correlated) ==
    IF Final(r) THEN r
    ELSE [r EXCEPT !.shape = shape, !.correlated = correlated]

SetPolicy(r, policy) == IF Final(r) THEN r ELSE [r EXCEPT !.policy = policy]

SetBackend(r) == IF Final(r) THEN r ELSE [r EXCEPT !.hid.backend = TRUE]

RecordRead(r, kind) ==
    IF Final(r) THEN r ELSE [r EXCEPT !.hid.read = Lengths[kind]]

RecordReadFailure(r, safe) ==
    IF Final(r) THEN r
    ELSE [r EXCEPT !.hid.failed = TRUE, !.redacted = @ \/ ~safe]

RecordWriteEvidence(r) ==
    IF Final(r) THEN r
    ELSE [r EXCEPT !.hid.authorized = TRUE, !.hid.wrote = TRUE]

RecordTerminal(r, result, stage) ==
    IF Final(r) THEN r ELSE [r EXCEPT !.result = result, !.failedStep = stage]

FailAt(r, stage) == RecordTerminal(r, "Fail", stage)
AbortAt(r, stage) == RecordTerminal(r, "Aborted", stage)

-----------------------------------------------------------------------------
(* Negotiated profiles: what a Type2 response authorises.                  *)

\* The pre-handshake policy; nothing but the exact 4.07 shape with its
\* hidraw node is let through.
SelectPolicy(shape, correlated) ==
    IF shape = "type2exact" /\ correlated THEN "Hid407ReadOnlyProbe"
                                          ELSE "StopUnsupportedShape"

\* An observation for a response whose profile is known.
Observation(kind) ==
    [label |-> CASE kind = "pm58"  -> "UpstreamPm58"
                 [] kind = "pm128" -> "ActivePmSub"
                 [] kind = "pm68"  -> "ObservedPm68"
                 [] OTHER          -> "ObservedInactive",
     route |-> CASE kind = "pm58"  -> "HidReport"
                 [] kind = "pm128" -> "HidInterrupt"
                 [] OTHER          -> "none",
     bytes |-> Lengths[kind]]

WritesAllowed(n) == n.label \in {"UpstreamPm58", "ActivePmSub"}

RouteConsistent(n) == WritesAllowed(n) <=> n.route # "none"

BindingConsistent(r) ==
    /\ r.shape = "type2exact" /\ r.correlated
    /\ r.policy = SelectPolicy(r.shape, r.correlated)

ProfileConsistent(r, n) ==
    /\ BindingConsistent(r)
    /\ CASE n.label = "UpstreamPm58" -> n.bytes = 8 /\ n.route = "HidReport"
         [] n.label = "ActivePmSub"  -> n.bytes = 36
                                         /\ n.route = "HidInterrupt"
         [] n.label = "ObservedPm68" -> n.bytes = 8 /\ n.route = "none"
         [] OTHER -> (n.bytes = 8 \/ n.bytes >= 20) /\ n.route = "none"

\* Recording is refused, and says so, when the profile does not fit.
CanRecordProfile(r, kind) ==
    ~Final(r) /\ ProfileConsistent(r, Observation(kind))

RecordProfile(r, kind) == [r EXCEPT !.negotiated = Observation(kind)]

-----------------------------------------------------------------------------
(* Verdicts                                                                *)

MandatoryPassive == {"Enumerated", "PassiveAllowlist"}

\* Faulty variant: the second display need not be confirmed.
MandatoryFull_NoSecond == CheckFields \ {"SecondDisplayUnchanged"}

MandatoryFull == CheckFields

AllPass(r, fields) == \A f \in fields : r.checks[f] = "Pass"

HidRouteEvidence(r) ==
    /\ r.hid.backend /\ ~r.hid.failed
    /\ r.hid.read = r.negotiated.bytes
    /\ r.hid.authorized /\ r.hid.wrote

FullPassEvidence(r) ==
    /\ WritesAllowed(r.negotiated)
    /\ r.checks["ActiveWrite"] = "Pass"
    /\ RouteConsistent(r.negotiated) /\ r.negotiated.route # "none"
    /\ r.negotiated.route = "HidReport" => HidRouteEvidence(r)

\* validate_semantics: what a report must satisfy to be shared.
Semantics(r) ==
    /\ r.negotiated # NoProfile => /\ RouteConsistent(r.negotiated)
                                   /\ ProfileConsistent(r, r.negotiated)
    /\ CASE r.result = "none" -> r.failedStep = "none"
         [] r.result = "Pass" ->
              /\ r.failedStep = "none"
              /\ r.shape # "none"
              /\ r.scope = "Passive" => AllPass(r, MandatoryPassive)
              /\ r.scope = "Full" => /\ r.negotiated # NoProfile
                                     /\ AllPass(r, MandatoryFull)
                                     /\ ~r.redacted /\ r.build = "clean"
                                     /\ FullPassEvidence(r)
         [] OTHER -> r.failedStep # "none"

Passed(r) == [r EXCEPT !.result = "Pass"]

CanFinalizePassive(r) ==
    /\ r.scope = "Passive" /\ ~Final(r) /\ r.shape # "none"
    /\ AllPass(r, MandatoryPassive)
    /\ Semantics(Passed(r))

CanFinalizeFull(r) ==
    /\ r.scope = "Full" /\ ~Final(r) /\ r.shape # "none"
    /\ r.negotiated # NoProfile
    /\ AllPass(r, MandatoryFull)
    /\ WritesAllowed(r.negotiated)
    /\ r.build = "clean" /\ ~r.redacted
    /\ Semantics(Passed(r))

EligibleForTested(r) == r.scope = "Full" /\ r.result = "Pass" /\ Semantics(r)

Shareable(r) == Semantics(r) /\ ~r.redacted
==============================================================================
