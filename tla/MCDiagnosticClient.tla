------------------------- MODULE MCDiagnosticClient -------------------------
(***************************************************************************)
(* Instances of DiagnosticClient for TLC.                                  *)
(***************************************************************************)
EXTENDS DiagnosticClient

CONSTANTS zgw, dme

Op(name, target, data) == [name |-> name, target |-> target, data |-> data]

OneEcu  == <<dme>>
TwoDids == <<"part_number", "software">>

\* The vehicle identity, and reads and writes of an ECU in its list: each is
\* able to meet the late replies of another.
Mixed ==
    {Op("identify_vehicle", zgw, Nothing), Op("read_responding_ecu_list", zgw, Nothing),
     Op("read_did", dme, "software"), Op("read_dtcs", dme, Nothing),
     Op("read_fault_detail", dme, "dtc1"), Op("read_info_memory", dme, Nothing),
     Op("read_ecu_identification", dme, Nothing), Op("clear_dtcs", dme, Nothing),
     Op("ecu_reset", dme, Nothing), Op("run_service_reset", dme, Nothing),
     Op("tester_present", dme, Nothing), Op("reset_cbs", dme, Nothing),
     Op("read_dynamic_measurement", dme, Nothing)}

\* The configured list and the list of the ECUs that really answer.
EcuLists == {Op("read_ecu_list", zgw, Nothing), Op("read_responding_ecu_list", zgw, Nothing)}
=============================================================================
