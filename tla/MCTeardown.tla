----------------------------- MODULE MCTeardown -----------------------------
(* Teardown, and Release with it, for TLC: deployment 1 is live, 2 and 3 are being released. *)
EXTENDS Teardown, TLC

CONSTANTS e1, e2, s1, s2

Row(slot, preset, m) == [slot |-> slot, preset |-> preset, mig |-> m]
Does(op, d) == [op |-> op, d |-> d]

Setup(does1, does2, rows3, l, ts, b, around, ends) ==
  [does |-> (e1 :> does1 @@ e2 :> does2), row |-> rows3, live |-> l, trouble |-> ts, budget |-> b,
   around |-> around, ends |-> ends]

App(m)     == Row("live", "serverless", m)
Site       == Row("live", "static", "absent")
Preview(p) == Row("preview", p, "absent")
Faults     == {"crash", "throw", "lease"}

MCRows(p2, p3) == <<App("absent"), p2, p3>>

\* A release with a migration against a rollback to the release before it.
RollbackSetup(ts, b, around) ==
  Setup(Does("release", 2), Does("rollback", 1), MCRows(App("pending"), App("absent")), 1, ts, b, around, {})

\* Two executions of one release.
TwinSetup(b) ==
  Setup(Does("release", 2), Does("release", 2), MCRows(App("pending"), App("absent")), 1, Faults, b, {}, {})

StaticSetup(b) ==
  Setup(Does("release", 2), Does("rollback", 1), <<Site, Site, Site>>, 1, Faults, b, {"refresh"}, {})

\* The first releases of a project, one of each serving mode.
FirstSetup(b) ==
  Setup(Does("release", 2), Does("release", 3), MCRows(App("absent"), Site), NULL, Faults, b, {}, {})

PreviewSetup(p, b) ==
  Setup(Does("release", 2), Does("release", 3), MCRows(Preview(p), Preview(p)), 1, Faults, b, {}, {})

ClosedSetup(p, b) ==
  Setup(Does("release", 2), Does("retire", 2), MCRows(Preview(p), Preview(p)), 1, Faults, b, {}, {})

DeleteSetup(op, r, b, around) ==
  Setup(Does("release", 2), Does(op, 3), MCRows(App("absent"), Preview("serverless")), 1, Faults, b,
        around, {r})

\* Deleting a static site: a second live release, and a preview that is released or retired.
DeleteSiteSetup(op, r, b) ==
  Setup(Does("release", 2), Does(op, 3), <<Site, Site, Preview("static")>>, 1, Faults, b, {}, {r})

Everyone == {"refresh", "router", "expiry"}

MCSetups ==
  {RollbackSetup(Faults, 1, {}), RollbackSetup({"suspend"}, 1, {}), RollbackSetup({"die"}, 1, {"refresh"}), RollbackSetup({}, 0, Everyone),
   TwinSetup(2), StaticSetup(1), FirstSetup(2),
   DeleteSetup("retire", "user_requested", 1, {"expiry"}),
   DeleteSetup("retire", "user_requested", 0, {"refresh", "expiry"}),
   DeleteSetup("retire", "user_requested", 0, {"router", "expiry"}),
   DeleteSetup("release", "nonpayment", 0, {}),
   DeleteSiteSetup("retire", "user_requested", 1), DeleteSiteSetup("release", "nonpayment", 1)}
  \cup {PreviewSetup("serverless", 2), PreviewSetup("static", 1)} \cup {ClosedSetup(p, 1) : p \in Presets}

\* For the refuted claims: one situation each.
MCClosed  == {ClosedSetup("serverless", 0)}
MCTwin    == {TwinSetup(0)}
MCDeleted == {DeleteSetup("retire", "user_requested", 1, {})}

MCKindOf == s1 :> "valkey" @@ s2 :> "postgres"

\* The situations considered are ones the theorems TrafficFollows, PreviewsAgree and FunctionStaysGone
\* speak of.
ASSUME SetupsAreMendable == Mendable
ASSUME SetupsAreTidy == Tidy
ASSUME SetupsHaveALiveSlot == LiveSlotTaken
=============================================================================
