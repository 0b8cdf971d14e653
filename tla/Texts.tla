---------------------------------- MODULE Texts ----------------------------------
(****************************************************************************)
(* The two algorithms on texts, each run once from all its inputs: reading  *)
(* and writing intervals, and the report of a change.  They share nothing;  *)
(* a behaviour runs one of them, the other stands at one of its inputs.     *)
(****************************************************************************)
EXTENDS Interval, Report

CONSTANTS
    Algorithms,  \* those a behaviour may run
    None

ASSUME TextsAssumption == Algorithms \subseteq {"interval", "report"}

VARIABLE algorithm

textVars == <<intervalVars, reportVars, algorithm>>

TextsInit ==
    /\ algorithm \in Algorithms
    /\ IF algorithm = "interval" THEN IntervalInit
       ELSE /\ text = <<>> /\ written = 0
            /\ position = 0 /\ total = 0 /\ result = Running
    /\ IF algorithm = "report" THEN ReportInit
       ELSE /\ old = None /\ new = None /\ diff = <<>> /\ counts = None
            /\ oldLine = 1 /\ newLine = 1 /\ rows = <<>> /\ outcome = "reading"

TextsNext ==
    /\ \/ algorithm = "interval" /\ IntervalNext /\ UNCHANGED reportVars
       \/ algorithm = "report" /\ ReportNext /\ UNCHANGED intervalVars
    /\ UNCHANGED algorithm

TextsSpec == TextsInit /\ [][TextsNext]_textVars
================================================================================
