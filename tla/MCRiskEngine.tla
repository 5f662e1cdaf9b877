---------------------------- MODULE MCRiskEngine ----------------------------
\* Two keepers, each named by one of two valid configurations that differ in
\* bounds, floor, cap and thresholds, and one configuration that init refuses;
\* two venues, amounts around both caps and one below zero; utilization below,
\* between and above the thresholds of every profile.
\* The run is the union of four, told apart by `focus`: the whole engine with
\* the pages left alone; the status bar while pauses and levels change; the
\* overview while rules, balance and configuration change; and the panels that
\* only read, each by itself.
EXTENDS VaultPages, Panels

CONSTANTS k1, k2

VARIABLE focus

Config(keeper, lo, hi, floor, cap, pre, full) ==
    [keeper |-> keeper, boundsMin |-> lo, boundsMax |-> hi,
     criticalFloor |-> floor, tvlCap |-> cap,
     preemptiveUtil |-> pre, fullDrainUtil |-> full]

Config1 == Config(k1, 1, 2, 1, 3, 8000, 9000)
MCConfigs == {Config1,
              Config(k2, 0, 1, 0, 2, 7000, 9500),
              Config(k1, 0, 2, 1, 3, 9000, 9000)}
MCAmounts == {-1, 0, 1, 2, 3}

\* The pages are looked at from an account just initialised.
Fresh ==
    /\ config = Config1 /\ state = Normal /\ target = 1 /\ era = 1
    /\ positions = [v \in Venues |-> 0]
    /\ paused = FALSE /\ oracle = "Healthy" /\ balance \in Balances

MCInit ==
    /\ PagesInit
    /\ PanelInit
    /\ \/ focus = "engine" /\ Init
       \/ focus \in {"bar", "overview", "panels"} /\ Fresh
    /\ focus # "panels" => panel = "TimelockPanel" /\ panelCookie = Absent
    /\ focus = "panels" => balance = 0

\* The steps of Next that move what the bar, or the overview, reads.
BarEngine ==
    \/ /\ CheckAndTrip \/ \E to \in SystemState, u \in Utils : KeeperAdvanceState(k1, to, u)
       /\ UNCHANGED envVars
    \/ paused' = ~paused /\ UNCHANGED <<engineVars, oracle, balance>>

OverviewEngine ==
    \/ (\E c \in Configs : InitAccount(c, 1)) /\ UNCHANGED envVars
    \/ balance' \in Balances /\ UNCHANGED <<engineVars, paused, oracle>>

MCNext ==
    /\ UNCHANGED focus
    /\ focus = "panels" \/ UNCHANGED panelVars
    /\ \/ focus = "engine" /\ Next /\ UNCHANGED pageVars
       \/ focus = "bar" /\ ((BarEngine /\ Note) \/ BarStep)
       \/ focus = "overview" /\ ((OverviewEngine /\ Note) \/ VaultStep \/ OverviewStep)
       \/ focus = "panels" /\ PanelNext /\ UNCHANGED pagesVars

MCSpec == MCInit /\ [][MCNext]_<<pagesVars, panelVars, focus>>
=============================================================================
