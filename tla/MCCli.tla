------------------------------- MODULE MCCli -------------------------------
(***************************************************************************)
(* The tool with every kind of -b and -p; the repetition counts of the cfg *)
(* files are those of the code.                                            *)
(***************************************************************************)
EXTENDS Cli

MCSampleCounts  == -1 .. 3
MCParameterSets == -1 .. 6
============================================================================
