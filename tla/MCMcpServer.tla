---- MODULE MCMcpServer ----
(* Two cars, two ECUs of which one has two candidate variants, and requests *)
(* that reach every early return and every pair of lock sections.           *)
EXTENDS McpServer

MCVin == [car \in Cars |-> IF car = "a" THEN "VIN-A" ELSE "VIN-B"]
MCConfigured == [car \in Cars |-> IF car = "a" THEN {0, 1} ELSE {0, 2}]
MCCandidates == [e \in Ecus |-> IF e = 1 THEN {"v1", "gone"} ELSE {"v1", "v2"}]
MCSgAdr == [v \in Variants |-> IF v = "v2" THEN 2 ELSE None]

\* A request with the arguments that do not matter left at their defaults.
Ask(tool, ecu, variant) ==
    [tool |-> tool, ecu |-> ecu, variant |-> variant, by |-> "did", car |-> None,
     given |-> FALSE, confirm |-> TRUE, reset |-> TRUE, rescan |-> FALSE]

MCRequests ==
    {[Ask("connect", None, None) EXCEPT !.car = "b", !.given = g] : g \in BOOLEAN}
    \union {Ask("connect", None, None), Ask("disconnect", None, None)}
    \union {Ask("identify_vehicle", None, None), Ask("list_ecus", None, None),
            Ask("fault_help", 1, None), Ask("read_faults", 1, None),
            Ask("read_faults", None, None), Ask("read_info_memory", 2, None)}
    \union {Ask("read_data", 1, None), Ask("read_data", 1, "v1"), Ask("read_data", 2, "v2"),
            Ask("read_data", 1, "v2"), Ask("read_data", 2, "gone"),
            [Ask("read_data", 2, None) EXCEPT !.by = "name"]}
    \union {Ask("run_job", 1, None), Ask("run_job", 2, None), Ask("read_fault_detail", 2, None)}
    \union {Ask("list_measurements", 2, None), Ask("list_service_functions", None, "v1")}
    \union {Ask("clear_faults", e, None) : e \in {0, 1}}
    \union {[Ask("clear_faults", 1, None) EXCEPT !.confirm = FALSE]}
    \union {Ask("clear_all_faults", None, None), Ask("read_all_faults", None, None),
            [Ask("scan_ecus", None, None) EXCEPT !.rescan = TRUE]}
====
