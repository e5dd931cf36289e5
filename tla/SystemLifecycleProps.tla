----------------------- MODULE SystemLifecycleProps -----------------------
(* What the life of a system must keep true, with requests one at a time     *)
(* and with requests that overlap.                                           *)
EXTENDS SystemLifecycle

Verdicts == Seq(Systems \X Parts)
Rows == {None} \cup Verdicts \cup [parent : Systems \cup {None}, parts : Parts, token : BOOLEAN]

Databases ==
  [status : [Systems -> Statuses], parent : [Systems -> Systems \cup {None}],
   parts : [Systems -> Parts], token : [Systems -> BOOLEAN], verdict : [Systems -> Verdicts]]
Calls == [stage : {"loaded", "waiting", "entered", "ready"}, op : Operations, row : Rows]

\* Every variable has its type (no column holds what its route did not store).
TypeOK ==
  /\ db \in Databases
  /\ lock \in [Systems -> Requests \cup {None}]
  /\ req \in [Requests -> {Idle} \cup Calls]

\* A chain can always be read whole: no cycle, no missing parent, no more
\* layers than load_chain will follow (require_inheritable_reference is the only
\* place that says so), and everything above a system is published.
ChainsWhole ==
  \A s \in Systems : Exists(db, s) =>
    LET chain == ChainOf(db, s) IN ~Truncated(db, chain) /\ ~DraftAncestors(db, chain)

\* A published system builds, and goes on building: nothing it stands on can
\* be taken away or broken after _require_publishable passed it.
PublishedBuilds == \A s \in Systems : db.status[s] = "published" => Loads(db, s)

\* A verdict stands only while the layers and the parts it was reached under do
\* (discard_system_checks, called by every route that edits what a chain says).
VerdictsMatchParts ==
  \A s \in Systems : db.verdict[s] # Unchecked => db.verdict[s] = Effective(db, s)

\* A verdict stands only in a system that still builds. False: a PATCH of
\* token_separated can break the build of a draft without discarding its checks.
VerdictsReproducible ==
  \A s \in Systems : db.verdict[s] # Unchecked => Loads(db, s)

\* However requests overlap, a verdict was reached under the system's own parts
\* as they stand, and under the parent it still has unless that one is gone.
OwnGrammarCurrent ==
  \A s \in Systems :
    LET v == db.verdict[s]
        above == IF Len(v) > 1 THEN v[2][1] ELSE None
    IN  v # Unchecked =>
          /\ v[1] = <<s, db.parts[s]>>
          /\ db.parent[s] = above \/ (db.parent[s] = None /\ ~Exists(db, above))

\* What a step may not do to a published system: rewrite what it is built from,
\* or make it a draft again.
FreezeStep ==
  \A s \in Systems : db.status[s] = "published" /\ db'.status[s] # "gone"
    => db'.status[s] = "published" /\ Effective(db', s) = Effective(db, s)

\* What a published system is built from never changes again.
PublishedFrozen == [][FreezeStep]_vars
----------------------------------------------------------------------------
(* The first three hold as long as requests are made one at a time. One      *)
(* specification asks both questions: requests may overlap, and alone        *)
(* records whether they ever did.                                            *)

VARIABLE alone

OneAtATime == \A q, r \in Busy : q = r

WatchedInit == Init /\ alone = TRUE
WatchedNext == Next /\ alone' = (alone /\ OneAtATime')
WatchedSpec == WatchedInit /\ [][WatchedNext]_<<vars, alone>>

\* Made one at a time, requests keep every chain whole.
SerialChainsWhole == alone => ChainsWhole

\* Made one at a time, they keep every published system building.
SerialPublishedBuilds == alone => PublishedBuilds

\* Made one at a time, they leave no verdict reached under other parts.
SerialVerdictsMatchParts == alone => VerdictsMatchParts

\* Made one at a time, they never change what a published system is built from.
SerialPublishedFrozen == [][alone' => FreezeStep]_<<vars, alone>>
=============================================================================
