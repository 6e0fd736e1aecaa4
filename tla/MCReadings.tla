----------------------------- MODULE MCReadings -----------------------------
(***************************************************************************)
(* Readings of an engine ECU and the gateway: the single commands of the   *)
(* CLI, and sequences of reads through the MCP server.                     *)
(***************************************************************************)
EXTENDS Readings

DDE == 18
ZGW == 16
MCTargets == {DDE, ZGW}

\* The SGBD.  Motor and MOTOR are two measurements; the id 4BC3 is there twice.
SgFunktionen ==
    [name |-> "SG_FUNKTIONEN",
     columns |-> <<"ARG", "ID", "RESULTNAME", "INFO", "EINHEIT", "DATENTYP", "MUL", "DIV", "ADD", "SG_ADR", "SERVICE">>,
     rows |-> <<<<"ITMOT", "0x4BC3", "S_MOT", "Motor", "C", "unsigned int", "0.1", "1", "-273.14", "12", "22;2C">>,
                <<"ITOEL", "0x4BC4", "S_OEL", "Oel", "C", "unsigned char", "-", "2", "-40", "0x12", "22,2C">>,
                <<"IDREH", "0x4BD0", "S_REH", "MOTOR", "1", "unsigned int", "-", "-", "-", "-", "22">>,
                <<"IKUPP", "0x4BD1", "S_KUP", "Kuppl", "1", "unsigned char", "-", "-", "-", "40", "22">>,
                <<"ITMO2", "0x4BC3", "S_MO2", "Motor2", "C", "unsigned char", "-", "-", "-", "12", "22">>,
                <<"ITEXT", "0x4BD2", "S_TXT", "Text", "-", "string", "-", "-", "-", "12", "22">>>>]

\* 1700 is sized anew by the standard identifiers, whose masks mean "not there".
Fumwelttexte ==
    [name |-> "FUMWELTTEXTE",
     columns |-> <<"UWNR", "UWTEXT", "UW_EINH", "UWTYP", "MUL", "DIV", "ADD">>,
     rows |-> <<<<"0x1700", "alt", "-", "u int", "-", "-", "-">>,
                <<"0x5205", "Wasser", "C", "u char", "-", "2", "-40">>>>]
SnapshotIdentifier ==
    [name |-> "DtcSnapshotIdentifier", columns |-> Fumwelttexte.columns,
     rows |-> <<<<"0x1700", "km", "km", "0xFFFFFF", "-", "-", "-">>,
                <<"0x1701", "-", "0-n", "0xFF", "-", "-", "-">>>>]
ExtendedRecords ==
    [name |-> "DTCEXTENDEDDATARECORDNUMBER", columns |-> <<"WERT", "TEXT", "ANZ_BYTE">>,
     rows |-> <<<<"0x02", "HFK", "1">>, <<"0x03", "HLZ", "2">>, <<"0x04", "none", "0">>>>]

CbsKennung ==
    [name |-> "CBSKENNUNG", columns |-> <<"NR", "CBS_K", "CBS_K_TEXT">>,
     rows |-> <<<<"2", "Oel", "Oil">>, <<"5", "Br", "Brake">>, <<"102", "Wide", "Wide">>, <<"6", "--", "">>>>]
Labelled(name, label) ==
    [name |-> name, columns |-> <<"LABEL", "TEXT", "LID">>, rows |-> <<<<label, "", "0x02">>>>]

MCTables == <<SgFunktionen, Fumwelttexte, SnapshotIdentifier, ExtendedRecords, Labelled("STELLER", "Ventil"),
              CbsKennung, Labelled("LERNWERTE_RUECK", "Lern"), Labelled("ABGLEICH", "Br")>>
MCJobs == {"STEUERN_PM_HISTOGRAM_RESET", "STATUS_LESEN"}
MCMeasurements == from_prg(MCTables)
MCFreezeFrameDefs == FreezeFrameDefs(MCTables)
MCServiceFunctions == from_tables_and_jobs(MCTables, MCJobs)

\* What the texts say.
MCHexDigits ==
    ("0x4BC3" :> <<4, 11, 12, 3>>) @@ ("0x4BC4" :> <<4, 11, 12, 4>>) @@ ("0x4BD0" :> <<4, 11, 13, 0>>)
    @@ ("0x4BD1" :> <<4, 11, 13, 1>>) @@ ("0x4BD2" :> <<4, 11, 13, 2>>) @@ ("12" :> <<1, 2>>)
    @@ ("0x12" :> <<1, 2>>) @@ ("40" :> <<4, 0>>) @@ ("0x1700" :> <<1, 7, 0, 0>>) @@ ("0x1701" :> <<1, 7, 0, 1>>)
    @@ ("0x5205" :> <<5, 2, 0, 5>>) @@ ("0xFFFFFF" :> <<15, 15, 15, 15, 15, 15>>) @@ ("0xFF" :> <<15, 15>>)
    @@ ("0x02" :> <<0, 2>>) @@ ("0x03" :> <<0, 3>>) @@ ("0x04" :> <<0, 4>>) @@ ("2" :> <<2>>) @@ ("5" :> <<5>>)
    @@ ("6" :> <<6>>) @@ ("102" :> <<1, 0, 2>>)
MCPrefixed == {"0x4BC3", "0x4BC4", "0x4BD0", "0x4BD1", "0x4BD2", "0x12", "0x1700", "0x1701", "0x5205",
               "0xFFFFFF", "0xFF", "0x02", "0x03", "0x04"}
MCDecimal == ("0.1" :> <<1, 10>>) @@ ("-273.14" :> <<-27314, 100>>) @@ ("-40" :> <<-40, 1>>) @@ ("0" :> <<0, 1>>)
             @@ ("1" :> <<1, 1>>) @@ ("2" :> <<2, 1>>)
MCFolded == ("Motor" :> "motor") @@ ("MOTOR" :> "motor") @@ ("ARG" :> "arg") @@ ("ID" :> "id")
            @@ ("STATUS_LESEN" :> "status_lesen") @@ ("DTCSNAPSHOTIDENTIFIER" :> "dtcsnapshotidentifier")
            @@ ("DtcSnapshotIdentifier" :> "dtcsnapshotidentifier")
MCParts == ("22;2C" :> {"22", "2C"}) @@ ("22,2C" :> {"22", "2C"})
MCFloatOf == <<>>
MCEcuSlots == <<[address |-> 18, group_name |-> "G_MOTOR"], [address |-> 16, group_name |-> "G_ZGW"],
                [address |-> 18, group_name |-> "G_OTHER"]>>
MCEnvLabels == 20997 :> [en |-> "", de |-> "Kuehlwasser", unit |-> "C"]

\* The car.  The last field of the frame is one the SGBD does not know.
Fault == <<33, 4, 1>>
MCCar ==
    [faults |-> <<[code |-> Fault, status |-> 9], [code |-> <<33, 4, 2>>, status |-> 80]>>,
     info |-> <<[code |-> <<1, 2, 3>>, status |-> 8], [code |-> <<1, 2, 4>>, status |-> 8]>>,
     fault |-> Fault, severity |-> 32,
     frame |-> <<[id |-> 5888, data |-> <<0, 1, 2>>], [id |-> 5889, data |-> <<255>>],
                 [id |-> 20997, data |-> <<181>>], [id |-> 39321, data |-> <<7, 7>>]>>,
     extended |-> <<[id |-> 2, data |-> <<7>>], [id |-> 3, data |-> <<1, 1>>]>>,
     sources |-> 19395 :> <<14, 47>> @@ 19396 :> <<200>>,
     dids |-> 19408 :> <<3, 32>> @@ 62469 :> <<130>> @@ 4097 :> <<1, 2, 100>>
              @@ 16135 :> <<0, 2, 16, 18>> @@ 16136 :> <<0, 1, 16>>
              @@ 4107 :> <<70, 48, 50, 53, 23, 7, 2, 18, 70, 48, 50, 53, 20, 3, 1, 1>>,
     meant |-> [frame |-> <<[label |-> "km", value |-> <<<<258, 1>>>>], [label |-> "", value |-> <<>>],
                            [label |-> "Kuehlwasser", value |-> <<<<101, 2>>>>]>>,
                extended |-> <<[label |-> "HFK", value |-> <<7>>], [label |-> "HLZ", value |-> <<257>>]>>,
                values |-> 19395 :> <<2249, 25>> @@ 19396 :> <<60, 1>> @@ 19408 :> <<800, 1>> @@ 62469 :> <<90, 1>>,
                names |-> 19395 :> "Motor" @@ 19396 :> "Oel" @@ 19408 :> "MOTOR" @@ 62469 :> "standard",
                faults |-> [<<mask, all>> \in {1, 255} \X BOOLEAN |->
                               <<[code |-> Fault, flags |-> <<0, 3>>]>>
                                 \o IF all /\ mask = 255 THEN <<[code |-> <<33, 4, 2>>, flags |-> <<4, 6>>]>> ELSE <<>>],
                configured |-> <<[address |-> 16, name |-> "G_ZGW"], [address |-> 18, name |-> "G_MOTOR"]>>,
                active |-> <<16>>,
                levels |-> <<<<70, 48, 50, 53, 23, 7, 2, 18>>, <<70, 48, 50, 53, 20, 3, 1, 1>>>>]]

Cmd(op) == [op |-> op, target |-> DDE, did |-> <<>>, name |-> "", code |-> <<>>, label |-> "", args |-> <<>>,
            mask |-> 255, all |-> FALSE, confirm |-> FALSE, reset |-> FALSE]
ReadDid(did) == [Cmd("read_did") EXCEPT !.did = <<did>>]
ReadData(did) == [Cmd("read_data") EXCEPT !.did = <<did>>]
ReadNamed(name) == [Cmd("read_data") EXCEPT !.name = name]
Detail(code) == [Cmd("fault_detail") EXCEPT !.code = code]
ClearFaults(t, confirm, reset) == [Cmd("clear_faults") EXCEPT !.target = t, !.confirm = confirm, !.reset = reset]
Service(label, confirm) == [Cmd("service_run") EXCEPT !.label = label, !.confirm = confirm]
Job(name, args) == [Cmd("job_run") EXCEPT !.label = name, !.args = args]

CliCommands ==
    {Cmd("read_faults"), [Cmd("read_faults") EXCEPT !.mask = 1],
     [Cmd("read_faults") EXCEPT !.all = TRUE], Cmd("info_memory"), Cmd("scan"), Cmd("tester_present")}
      \cup {Detail(c) : c \in {Fault, <<1, 1, 1>>}}
      \cup {ReadDid(d) : d \in {19395, 19408, 62469, 5}}
      \cup {ClearFaults(t, c, r) : t \in MCTargets, c \in BOOLEAN, r \in BOOLEAN}
      \cup {Service(l, c) : l \in {"Oel", "Br", "Wide", "Lern", "Ventil", "PMHist", "DAROL"}, c \in BOOLEAN}
      \cup {Job("STATUS_LESEN", a) : a \in {<<"ARG", "ITMOT">>, <<"ID", "0x4BC3">>, <<"ARG", "IDREH">>, <<"ARG">>}}
      \cup {Job("FS_LESEN", <<>>)}

McpCalls == {ReadData(19395), ReadNamed("Oel"), ReadData(19408), Cmd("info_memory"), Detail(Fault)}
RefusedCalls == {ReadNamed("Motor"), ReadData(19409), [ReadData(19395) EXCEPT !.name = "Oel"]}

MCPlans == {<<c>> : c \in CliCommands \cup RefusedCalls}
             \cup {<<a, b>> : a \in McpCalls, b \in McpCalls}
             \cup {<<ReadNamed("Oel"), b, c, ReadNamed("Oel")>> : b, c \in {ReadData(19395), ReadNamed("Oel")}}
=============================================================================
