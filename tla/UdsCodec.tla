------------------------------ MODULE UdsCodec ------------------------------
(***************************************************************************)
(* crates/uds: the bytes of each request, and what the decoders make of the*)
(* bytes of a response.  A decoder returns a record whose field err is ""  *)
(* or names the UdsError.                                                  *)
(***************************************************************************)
EXTENDS Integers, Sequences, SequencesExt

\* lib.rs sid
DIAGNOSTIC_SESSION_CONTROL == 16
ECU_RESET == 17
CLEAR_DIAGNOSTIC_INFORMATION == 20
READ_DTC_INFORMATION == 25
READ_DATA_BY_IDENTIFIER == 34
DYNAMICALLY_DEFINE_DATA_IDENTIFIER == 44
WRITE_DATA_BY_IDENTIFIER == 46
ROUTINE_CONTROL == 49
TESTER_PRESENT == 62
NEGATIVE_RESPONSE == 127

positive_response_sid(request_sid) == (request_sid + 64) % 256

\* lib.rs session and reset_subfn; service.rs did, dtc_subfn and dddi_subfn.
EXTENDED == 3
HARD == 1
DIDS == [VIN |-> 61840, ECU_LIST_ALL |-> 16135, ECU_LIST_ACTIVE |-> 16136,
         VEHICLE_ORDER |-> 16134, I_STUFE |-> 4107, INFO_MEMORY |-> 8192]
REPORT_DTC_BY_STATUS_MASK == 2
REPORT_DTC_SNAPSHOT_BY_DTC == 4
REPORT_DTC_EXT_DATA_BY_DTC == 6
REPORT_SEVERITY_INFO_OF_DTC == 9
DEFINE_BY_IDENTIFIER == 1
CLEAR == 3
ALL_DTC_STATUS_MASK == 255
CLEAR_ALL_DTCS == <<255, 255, 255>>
ALL_DTC_RECORDS == 255

-----------------------------------------------------------------------------
(***************************************************************************)
(* service.rs: the requests.                                               *)
(***************************************************************************)
be_bytes(id) == <<id \div 256, id % 256>>

tester_present == <<TESTER_PRESENT, 0>>
diagnostic_session_control(session) == <<DIAGNOSTIC_SESSION_CONTROL, session>>
read_dtc_by_status_mask(mask) == <<READ_DTC_INFORMATION, REPORT_DTC_BY_STATUS_MASK, mask>>
read_dtc_snapshot_by_dtc(dtc, record) ==
    <<READ_DTC_INFORMATION, REPORT_DTC_SNAPSHOT_BY_DTC>> \o dtc \o <<record>>
read_dtc_extended_data_by_dtc(dtc, record) ==
    <<READ_DTC_INFORMATION, REPORT_DTC_EXT_DATA_BY_DTC>> \o dtc \o <<record>>
read_dtc_severity_by_dtc(dtc) == <<READ_DTC_INFORMATION, REPORT_SEVERITY_INFO_OF_DTC>> \o dtc
read_data_by_identifier(did) == <<READ_DATA_BY_IDENTIFIER>> \o be_bytes(did)
clear_diagnostic_information(dtc) == <<CLEAR_DIAGNOSTIC_INFORMATION>> \o dtc
clear_all_dtcs == clear_diagnostic_information(CLEAR_ALL_DTCS)
ecu_reset(subfunction) == <<ECU_RESET, subfunction>>
clear_dynamic_data_identifier(did) ==
    <<DYNAMICALLY_DEFINE_DATA_IDENTIFIER, CLEAR>> \o be_bytes(did)
define_dynamic_data_by_identifier(dynamic, source, position, size) ==
    <<DYNAMICALLY_DEFINE_DATA_IDENTIFIER, DEFINE_BY_IDENTIFIER>>
      \o be_bytes(dynamic) \o be_bytes(source) \o <<position, size>>
write_data_by_identifier(did, data) == <<WRITE_DATA_BY_IDENTIFIER>> \o be_bytes(did) \o data

-----------------------------------------------------------------------------
(***************************************************************************)
(* dtc.rs and identity.rs: the responses.                                  *)
(***************************************************************************)
be_uint(bytes) == FoldLeft(LAMBDA acc, b : acc * 256 + b, 0, bytes)
After(bytes, n) == SubSeq(bytes, n + 1, Len(bytes))
UdsError(name) == [err |-> name]

\* expect_positive, with the bytes its callers then require.
Positive(payload, sid, need, Decode(_)) ==
    CASE payload = <<>> -> UdsError("Empty")
      [] payload # <<>> /\ payload[1] # positive_response_sid(sid) -> UdsError("UnexpectedResponse")
      [] payload # <<>> /\ payload[1] = positive_response_sid(sid) /\ Len(payload) <= need
           -> UdsError("ShortResponse")
      [] OTHER -> Decode(Tail(payload))

Dtc(r) == [code |-> SubSeq(r, 1, 3), status |-> r[4]]

DTC_RECORD_LEN == 4

\* The whole records of a region.
Records(region) ==
    [i \in 1 .. Len(region) \div DTC_RECORD_LEN |->
        Dtc(SubSeq(region, (i - 1) * DTC_RECORD_LEN + 1, i * DTC_RECORD_LEN))]

decode_dtcs(payload) ==
    Positive(payload, READ_DTC_INFORMATION, 2, LAMBDA body :
        LET records == After(body, 2)
        IN  CASE body[1] # REPORT_DTC_BY_STATUS_MASK -> UdsError("UnexpectedSubfunction")
              [] body[1] = REPORT_DTC_BY_STATUS_MASK /\ Len(records) % DTC_RECORD_LEN # 0
                   -> UdsError("MalformedDtcRecords")
              [] OTHER -> [err |-> "", dtcs |-> Records(records)])

DTC_DETAIL_HEADER_LEN == 5

decode_dtc_record_region(payload, subfn) ==
    Positive(payload, READ_DTC_INFORMATION, DTC_DETAIL_HEADER_LEN, LAMBDA body :
        IF body[1] # subfn THEN UdsError("UnexpectedSubfunction")
        ELSE [err |-> "", dtc |-> SubSeq(body, 2, 4), status |-> body[5],
              body |-> After(body, DTC_DETAIL_HEADER_LEN)])

decode_dtc_snapshot(payload) == decode_dtc_record_region(payload, REPORT_DTC_SNAPSHOT_BY_DTC)
decode_dtc_extended_data(payload) == decode_dtc_record_region(payload, REPORT_DTC_EXT_DATA_BY_DTC)

DTC_SEVERITY_BODY_LEN == 8

decode_dtc_severity(payload) ==
    Positive(payload, READ_DTC_INFORMATION, DTC_SEVERITY_BODY_LEN, LAMBDA body :
        IF body[1] # REPORT_SEVERITY_INFO_OF_DTC THEN UdsError("UnexpectedSubfunction")
        ELSE [err |-> "", severity |-> body[3], functional_unit |-> body[4],
              dtc |-> SubSeq(body, 5, 7), status |-> body[8]])

decode_read_data_by_identifier(payload) ==
    Positive(payload, READ_DATA_BY_IDENTIFIER, 2, LAMBDA body :
        [err |-> "", did |-> be_uint(SubSeq(body, 1, 2)), data |-> After(body, 2)])

\* The DID that is echoed is not compared, and a partial record is ignored.
decode_info_memory(payload) ==
    Positive(payload, READ_DATA_BY_IDENTIFIER, 2, LAMBDA body :
        LET rest == After(body, 2)
        IN  [err |-> "", version |-> IF rest = <<>> THEN <<>> ELSE <<Head(rest)>>, raw |-> rest,
             entries |-> IF rest = <<>> THEN <<>> ELSE Records(Tail(rest))])

\* The count is kept as declared; the addresses are the bytes that are there.
decode_ecu_list(data) ==
    IF Len(data) < 2 THEN UdsError("ShortResponse")
    ELSE [err |-> "", count |-> be_uint(SubSeq(data, 1, 2)), addresses |-> After(data, 2)]

\* status: which of the eight bits are set, and whether one of RELEVANT_MASK is.
StatusBits(status) == {bit \in 0 .. 7 : (status \div 2^bit) % 2 = 1}
RELEVANT_MASK == {0, 1, 2, 3, 5, 7}
is_relevant(status) == StatusBits(status) \cap RELEVANT_MASK # {}

=============================================================================
