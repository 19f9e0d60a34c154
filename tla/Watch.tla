-------------------------------- MODULE Watch --------------------------------
(***************************************************************************)
(* The nightly watch for upstream releases: hooks/upstream_check.py names  *)
(* the newest release, watch.yml lands its conf on main and tells the      *)
(* maintainer.  base-builder's watch.py, which writes the conf, is outside *)
(* the repository and taken by how the workflow uses it.                   *)
(***************************************************************************)
EXTENDS Naturals, FiniteSetsExt

CONSTANTS Versions, \* numbered in the order of natural_key
          Pushes,   \* attempts of the push loop
          Faults    \* cancelled runs and failing calls (bound)

ASSUME WatchAssumption ==
  /\ Versions \subseteq Nat \ {0} /\ IsFiniteSet(Versions)
  /\ Pushes \in Nat \ {0} /\ Faults \in Nat

(* A release upstream: not there (or a bare tag), not final, final without *)
(* media, or with it, named as up to 0.4.15 or as from 0.4.16 on.          *)
ReleaseKinds == {"none", "draft", "prerelease", "nomedia", "old", "new"}

VARIABLES
  release,
  confs,   \* versions with a conf on main
  step,    \* the step of the workflow run, or "idle"
  found,   \* what the hook printed (0: nothing)
  pushes,  \* rejected pushes of this run
  issues,  \* versions with an open "landed" issue
  alarm,   \* the "upstream watcher" issue is open
  told,    \* versions a landed issue was ever opened for
  hushed,  \* landed by a run that ended before its notification
  faults

watchVars == <<release, confs, step, found, pushes, issues, alarm, told, hushed, faults>>

WatchInit == /\ release = [v \in Versions |-> "none"] /\ confs = {}
             /\ step = "idle" /\ found = 0 /\ pushes = 0
             /\ issues = {} /\ alarm = FALSE /\ told = {} /\ hushed = {} /\ faults = 0

Main == UNCHANGED <<release, confs>>
Told == UNCHANGED <<issues, alarm, told, hushed>>
Fault == faults < Faults /\ faults' = faults + 1

-----------------------------------------------------------------------------
(* Upstream publishes; nothing final is withdrawn. *)
Rank(kind) == CASE kind = "none" -> 0 [] kind = "draft" -> 1 [] kind = "prerelease" -> 2
                [] kind = "nomedia" -> 3 [] OTHER -> 4

Publishes(v) ==
  /\ \E kind \in ReleaseKinds : Rank(release[v]) < Rank(kind)
                         /\ release' = [release EXCEPT ![v] = kind]
  /\ UNCHANGED <<confs, step, found, pushes, faults>> /\ Told

(* The maintainer closes issues. *)
Closes == /\ \/ \E v \in issues : issues' = issues \ {v} /\ UNCHANGED alarm
             \/ alarm /\ alarm' = FALSE /\ UNCHANGED issues
          /\ UNCHANGED <<step, found, pushes, told, hushed, faults>> /\ Main

-----------------------------------------------------------------------------
(* upstream_check.py *)

EligibleOldNames == {v \in Versions : release[v] = "old"}
EligibleDrafts == {v \in Versions : release[v] \in {"draft", "prerelease", "old", "new"}}

(* Not a draft or prerelease, a plain version tag, and an installable      *)
(* asset under either name.                                                *)
Eligible == {v \in Versions : release[v] \in {"old", "new"}}

Night == /\ step = "idle" /\ step' = "detect" /\ found' = 0 /\ pushes' = 0
         /\ UNCHANGED faults /\ Main /\ Told

(* The newest, by the engine's order.  Nothing eligible is an error. *)
Detect == /\ step = "detect"
          /\ IF Eligible = {} THEN step' = "failed" /\ UNCHANGED found
             ELSE step' = "land" /\ found' = Max(Eligible)
          /\ UNCHANGED <<pushes, faults>> /\ Main /\ Told

(* No ordering rule, no answer, no JSON, no list: exit 1. *)
DetectFails == /\ step = "detect" /\ step' = "failed" /\ Fault
               /\ UNCHANGED <<found, pushes>> /\ Main /\ Told

-----------------------------------------------------------------------------
(* watch.yml *)

(* watch.py: nothing to do, or a conf whose URL answers (a new one, or the *)
(* refresh of one on main that still pins a candidate's), or a rejection.  *)
Land == /\ step = "land"
        /\ step' \in {"push", "failed"} \cup {s \in {"idle"} : found \in confs}
        /\ UNCHANGED <<found, pushes, faults>> /\ Main /\ Told

(* pull --rebase and push; rejected if main has moved meanwhile.  A rebase *)
(* that fails ends the step.                                               *)
Push == /\ step = "push"
        /\ \/ step' = "notify" /\ confs' = confs \cup {found} /\ UNCHANGED pushes
           \/ /\ pushes' = pushes + 1 /\ UNCHANGED confs
              /\ step' = IF pushes' = Pushes THEN "failed" ELSE "push"
           \/ step' = "failed" /\ UNCHANGED <<confs, pushes>>
        /\ UNCHANGED <<release, found, faults>> /\ Told

NotifyDedupes ==
  /\ step = "notify" /\ step' = "idle"
  /\ IF issues # {} THEN Told
     ELSE issues' = {found} /\ told' = told \cup {found} /\ UNCHANGED <<alarm, hushed>>
  /\ UNCHANGED <<found, pushes, faults>> /\ Main

(* One issue per landed version, unless one with that title is open. *)
Notify ==
  /\ step = "notify" /\ step' = "idle"
  /\ IF found \in issues THEN Told
     ELSE issues' = issues \cup {found} /\ told' = told \cup {found} /\ UNCHANGED <<alarm, hushed>>
  /\ UNCHANGED <<found, pushes, faults>> /\ Main

NotifyFails == /\ step = "notify" /\ step' = "failed" /\ Fault
               /\ hushed' = hushed \cup {found}
               /\ UNCHANGED <<found, pushes, issues, alarm, told>> /\ Main

(* if: failure() -- the broken-watcher issue, unless it is open. *)
Report == /\ step = "failed" /\ step' = "idle" /\ alarm' = TRUE
          /\ UNCHANGED <<found, pushes, issues, told, hushed, faults>> /\ Main

(* A cancelled run does nothing more, nor does one whose report fails. *)
Cancelled == /\ step # "idle" /\ step' = "idle" /\ Fault
             /\ hushed' = IF step = "notify" THEN hushed \cup {found} ELSE hushed
             /\ UNCHANGED <<found, pushes, issues, alarm, told>> /\ Main

Run == Detect \/ Land \/ Push \/ Notify \/ Report

WatchNext == \/ \E v \in Versions : Publishes(v)
             \/ Closes \/ Night \/ Run \/ DetectFails \/ NotifyFails \/ Cancelled

WatchSpec == WatchInit /\ [][WatchNext]_watchVars

(* cron starts a run every night (concurrency: one at a time), and a       *)
(* runner gives every step an end.                                         *)
WatchFairSpec == WatchSpec /\ WF_watchVars(Night) /\ WF_watchVars(Run)

-----------------------------------------------------------------------------
Steps == {"idle", "detect", "land", "push", "notify", "failed"}

WatchTypeOK == /\ release \in [Versions -> ReleaseKinds] /\ confs \subseteq Versions
               /\ step \in Steps /\ found \in Versions \cup {0} /\ pushes \in 0 .. Pushes
               /\ issues \subseteq Versions /\ alarm \in BOOLEAN
               /\ told \subseteq Versions /\ hushed \subseteq Versions
               /\ faults \in 0 .. Faults

(* Only a final release with media has a conf on main: drafts, candidates  *)
(* and bare tags never land, whatever upstream shows in between.           *)
OnlyFinalLands == \A v \in confs : release[v] \in {"old", "new"}

(* The maintainer hears of every landing: between runs each conf has had   *)
(* its issue, unless the run was cut off after its push ("A SILENT SUCCESS *)
(* is a miss too").                                                        *)
LandingTold == step = "idle" => confs \subseteq told \cup hushed

(* A newest release with media lands, is overtaken by a newer one, or the  *)
(* watcher's issue says that it is broken: never a silent false negative,  *)
(* also when main moves before every push.                                 *)
Newest(v) == release[v] \in {"old", "new"}
             /\ \A w \in Versions : w > v => release[w] \notin {"old", "new"}
NoSilentMiss == \A v \in Versions : Newest(v) ~> (v \in confs \/ alarm \/ ~Newest(v))
=============================================================================
