----------------------------- MODULE ClickTargets -----------------------------
(***************************************************************************)
(* How server/browser/common.go reads what can be clicked on a page.  Of a *)
(* target's texts and attributes only what they hint at is kept: "verify"  *)
(* and "human", a challenge, or nothing.  No page holds the helper button  *)
(* of the program, which the filters drop.                                 *)
(***************************************************************************)
EXTENDS Integers, Sequences

Targets == [kind: {"iframe", "button", "input", "role_button", "anchor"},
            hint: {"none", "verify human", "challenge"},
            visible: BOOLEAN, disabled: BOOLEAN,
            width: Nat, height: Nat, tabIndex: Int]

IsVerifyButtonTarget(t) == t.visible /\ t.hint = "verify human"

IsChallengeIframeTarget(t) ==
  /\ t.kind = "iframe" /\ t.visible
  /\ \/ t.hint = "challenge"
     \/ t.width \in 240..420 /\ t.height \in 40..120

\* The filters keep the order of the page; each is given as the places in the
\* list of targets that it lets through.
RelevantChallengeTargets(targets) ==
  {i \in DOMAIN targets :
     IsVerifyButtonTarget(targets[i]) \/ IsChallengeIframeTarget(targets[i])}

FallbackChallengeTargets(targets) ==
  LET Fits(t) ==
        \/ t.kind = "iframe" /\ t.width \in 20..900 /\ t.height \in 20..400
        \/ /\ t.kind \in {"button", "input", "role_button"}
           /\ t.width \in 40..500 /\ t.height \in 20..180
  IN  {i \in DOMAIN targets : targets[i].visible /\ Fits(targets[i])}

\* An anchor with a negative tabIndex counts too: only frames have a src.
TabbableTargets(targets) ==
  LET Tabbable(t) == t.visible /\ ~t.disabled /\ t.width > 0 /\ t.height > 0
  IN  {i \in DOMAIN targets : Tabbable(targets[i])}

\* How many points of a target are tried; where they lie is left out.
ClickPointsForTarget(t) == IF t.kind = "iframe" THEN 3 ELSE 2
===============================================================================
