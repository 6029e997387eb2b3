------------------------------- MODULE Versions -------------------------------
(***************************************************************************)
(* Versioned services of pkg/api/version.go: what VersionManager supports  *)
(* and deprecates, the interceptor that reads a call's version, the router *)
(* that picks the service registered for it, and GetLatestService. Nothing *)
(* here takes a lock: the calls come one after the other.                  *)
(***************************************************************************)
EXTENDS Naturals, FiniteSets

CONSTANTS
  Version,  \* the versions there are: triples of major, minor and patch
  Current,  \* currentVersion, a triple
  Absent,   \* a call without metadata or without x-api-version
  Invalid   \* a header ParseVersion refuses

VARIABLES
  supported,   \* supportedVersions
  deprecated,  \* deprecatedVersions, keyed by the version's text
  services,    \* the versions registered for the service
  reply,       \* history: the last call's header and what came of it
  latest       \* history: the last answer of GetLatestService

vars == <<supported, deprecated, services, reply, latest>>

Codes == {"none", "ok", "invalid_argument", "unimplemented", "not_found"}

TypeOK ==
  /\ {supported, deprecated, services} \subseteq SUBSET Version
  /\ reply \in [header : Version \cup {Absent, Invalid}, code : Codes,
                served : Version, warned : BOOLEAN]
  /\ latest \in Version \cup {<<0, 0, 0>>}

\* NewVersionManager and NewServiceRegistry
Init ==
  /\ supported = {Current} /\ deprecated = {} /\ services = {}
  /\ reply = [header |-> Absent, code |-> "none", served |-> Current, warned |-> FALSE]
  /\ latest = <<0, 0, 0>>

AddSupportedVersion(v) ==
  /\ supported' = supported \cup {v}
  /\ UNCHANGED <<deprecated, services, reply, latest>>

\* A deprecated version stays supported.
DeprecateVersion(v) ==
  /\ deprecated' = deprecated \cup {v}
  /\ UNCHANGED <<supported, services, reply, latest>>

RegisterService(v) ==
  /\ services' = services \cup {v}
  /\ UNCHANGED <<supported, deprecated, reply, latest>>

(***************************************************************************)
(* A call                                                                  *)
(***************************************************************************)

\* getClientVersion
ClientVersion(header) == IF header = Absent THEN Current ELSE header

\* UnaryInterceptor and, behind it, RouteRequest, which takes the version that the
\* interceptor has put in the context.
Call(header) ==
  LET version == ClientVersion(header)
      refused == header = Invalid \/ version \notin supported
      code == CASE header = Invalid -> "invalid_argument"
                [] header # Invalid /\ version \notin supported -> "unimplemented"
                [] ~refused /\ version \notin services -> "not_found"
                [] ~refused /\ version \in services -> "ok"
  IN
  /\ reply' = [header |-> header, code |-> code,
               served |-> IF code = "ok" THEN version ELSE Current,
               warned |-> ~refused /\ version \in deprecated]
  /\ UNCHANGED <<supported, deprecated, services, latest>>

(***************************************************************************)
(* GetLatestService                                                        *)
(***************************************************************************)

\* Mutant: a smaller major version with a larger minor one counts as later.
LaterAnywhere(v, w) == v[1] > w[1] \/ v[2] > w[2] \/ v[3] > w[3]

\* The comparison of the loop.
Later(v, w) ==
  \/ v[1] > w[1]
  \/ v[1] = w[1] /\ v[2] > w[2]
  \/ v[1] = w[1] /\ v[2] = w[2] /\ v[3] > w[3]

\* The versions come in any order, the search starts from 0.0.0.
Scan[rest \in SUBSET Version, best \in Version \cup {<<0, 0, 0>>}] ==
  IF rest = {} THEN {best}
  ELSE UNION {Scan[rest \ {v}, IF Later(v, best) THEN v ELSE best] : v \in rest}

GetLatestService ==
  /\ services # {}
  /\ latest' \in Scan[services, <<0, 0, 0>>]
  /\ UNCHANGED <<supported, deprecated, services, reply>>

Next ==
  \/ \E v \in Version :
       AddSupportedVersion(v) \/ DeprecateVersion(v) \/ RegisterService(v)
  \/ \E header \in Version \cup {Absent, Invalid} : Call(header)
  \/ GetLatestService

Spec == Init /\ [][Next]_vars

(***************************************************************************)
(* Properties                                                              *)
(***************************************************************************)

\* Compared as numbers of three digits.
Rank(v) == (v[1] * 10 + v[2]) * 10 + v[3]

\* A call is served by the version it names, which is supported, or by the
\* current one if it names none, and is warned if that is deprecated; and the
\* latest service is the one of the highest version, whatever the order in
\* which the map is searched.
VersionsHonoured ==
  [][/\ reply'.code = "ok" =>
          /\ reply'.served = ClientVersion(reply'.header)
          /\ reply'.served \in supported' \cap services'
          /\ reply'.warned = (reply'.served \in deprecated') \/ reply' = reply
     /\ latest' # latest => \A v \in services : Rank(v) <= Rank(latest')]_vars
===============================================================================
