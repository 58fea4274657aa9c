---------------------------- MODULE MCDashboard ----------------------------
(***************************************************************************)
(* Two instances of Dashboard: all views with what users do every day, and *)
(* fewer views with triage, checks and cancelled clones as well.           *)
(***************************************************************************)
EXTENDS Dashboard

VARIABLE part   \* which instance moves

Seldom == INSTANCE Dashboard WITH
    Dependents <- {"skills"}, Partial <- {},
    Rare <- {"triage", "check", "recheck", "cancel"}

DashboardInit == \/ part = "daily" /\ Init
                 \/ part = "seldom" /\ Seldom!Init
DashboardNext == /\ UNCHANGED part
                 /\ \/ part = "daily" /\ Next
                    \/ part = "seldom" /\ Seldom!Next
DashboardSpec == DashboardInit /\ [][DashboardNext]_<<part, vars>>

\* A view that is not loading and calls its rows fresh shows the effect of the
\* last request that asked for them (applyViewResult).
ShownIsCurrent == part = "daily" => FreshIsCurrent

\* Fresh rows of SKILLS and MCP are of the repositories REPOS shows
\* (afterReposResult, prepareRepoDependentsForReload).
DependentsAgree == part = "daily" => DependentsFollow

\* A spinner turns only while a message that stops it is under way, or while
\* REPOS is, for a view that waits for it (viewWaitsForRepos).
SpinnersStop == part = "daily" => NoEndlessWait
=============================================================================
