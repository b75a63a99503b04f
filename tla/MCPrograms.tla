----------------------------- MODULE MCPrograms -----------------------------
(* Programs for TLC with two disks, and with no configuration, one in which *)
(* a part is missing and that lists a device twice, and a whole one.        *)
EXTENDS Programs

DisksDef == <<"sdb", "sdc">>
ConfigFilesDef ==
  {NoConfig,
   [detection |-> TRUE, prediction |-> FALSE, devices |-> <<"sdc", "sdb", "sdc">>],
   [detection |-> TRUE, prediction |-> TRUE, devices |-> DisksDef]}
==============================================================================
