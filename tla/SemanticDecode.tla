--------------------------- MODULE SemanticDecode ---------------------------
(***************************************************************************)
(* crates/semantic on the tables of an SGBD file: measurements and their   *)
(* requests, the walks over freeze-frame records, standard PIDs and        *)
(* service functions.                                                      *)
(*                                                                         *)
(* A table is [name, columns, rows] as SgbdFile reads it, with its texts   *)
(* as strings, trimmed.  What a text says as a number is given by the      *)
(* constants: the conversions here decide what is accepted and in which    *)
(* width.  A fraction is <<n, d>>; an option is <<>> or <<x>>.             *)
(***************************************************************************)
EXTENDS UdsCodec, FiniteSetsExt

CONSTANTS
    HexDigits,    \* the digits of the texts that are hexadecimal, prefix aside
    Prefixed,     \* the texts that begin with 0x
    Decimal,      \* the fractions of the texts that are decimal numbers
    Folded,       \* fold_for_match: the texts it changes, and into what
    Parts,        \* the texts with a ; or a , in them, and what is between those
    FloatOf,      \* IEEE 754: the fraction that four bytes stand for
    EnvLabels     \* the catalog's envcond_label: identifier -> [en, de, unit]

-----------------------------------------------------------------------------
(***************************************************************************)
(* Cells.                                                                  *)
(***************************************************************************)
Blank(text) == text \in {"", "-"}
fold_for_match(text) == IF text \in DOMAIN Folded THEN Folded[text] ELSE text

\* The number if the text is hexadecimal and fits in so many digits.
from_str_radix(text, digits) ==
    IF text \notin DOMAIN HexDigits THEN <<>>
    ELSE LET ds == HexDigits[text]
         IN  IF ds = <<>> \/ (\E i \in 1 .. Len(ds) - digits : ds[i] # 0) THEN <<>>
             ELSE <<FoldLeft(LAMBDA acc, d : acc * 16 + d, 0, ds)>>

parse_id(text) == from_str_radix(text, 4)
parse_u8(text) == from_str_radix(text, 2)

\* A blank is the default.
parse_factor(text, default) ==
    IF Blank(text) THEN <<default>> ELSE IF text \in DOMAIN Decimal THEN <<Decimal[text]>> ELSE <<>>

column(table, name) == SelectInSeq(table.columns, LAMBDA c : c = name)
HasColumns(table, names) == names \subseteq ToSet(table.columns)

\* The cell of a row that may be shorter than the header.
Cell(table, row, name) ==
    LET i == column(table, name) IN IF i \in DOMAIN row THEN <<row[i]>> ELSE <<>>
CellOr(table, row, name) == IF Cell(table, row, name) = <<>> THEN "" ELSE Cell(table, row, name)[1]

\* The options that Parse makes of a table's rows, without the empty ones.
Parsed(table, Parse(_)) == FlattenSeq([i \in DOMAIN table.rows |-> Parse(table.rows[i])])

\* Each row's Parse of a cell that must be there.
Required(table, row, name, Parse(_)) ==
    LET cell == Cell(table, row, name) IN IF cell = <<>> THEN <<>> ELSE Parse(cell[1])

\* A map by key, in which the first or the last of several entries stays.
ByKey(entries, Key(_), keepFirst) ==
    [k \in {Key(entries[i]) : i \in DOMAIN entries} |->
        LET at == {i \in DOMAIN entries : Key(entries[i]) = k}
        IN  entries[IF keepFirst THEN Min(at) ELSE Max(at)]]

\* raw * mul / div + add
Affine(raw, mul, div, add) ==
    <<raw[1] * mul[1] * div[2] * add[2] + add[1] * raw[2] * mul[2] * div[1],
      raw[2] * mul[2] * div[1] * add[2]>>

-----------------------------------------------------------------------------
(***************************************************************************)
(* measurement.rs                                                          *)
(***************************************************************************)
DataTypes == {"unsigned char", "unsigned int", "unsigned long", "motorola float"}
from_datentyp(text) == IF text \in DataTypes THEN <<text>> ELSE <<>>
width(dtype) == CASE dtype = "unsigned char" -> 1 [] dtype = "unsigned int" -> 2 [] OTHER -> 4

scale(raw, dtype, mul, div, add) ==
    IF div[1] = 0 \/ Len(raw) < width(dtype) THEN <<>>
    ELSE LET b == SubSeq(raw, 1, width(dtype))
         IN  <<Affine(IF dtype = "motorola float" THEN FloatOf[b] ELSE <<be_uint(b), 1>>, mul, div, add)>>

MeasurementColumns == {"ARG", "ID", "RESULTNAME", "INFO", "EINHEIT", "DATENTYP", "MUL", "DIV", "ADD",
                       "SG_ADR", "SERVICE"}

\* The row is left out unless its id, its type and its factors are read.
parse_row(table, row) ==
    LET Text(name) == CellOr(table, row, name)
        Factor(name, default) == Required(table, row, name, LAMBDA t : parse_factor(t, default))
        id == Required(table, row, "ID", parse_id)
        dtype == Required(table, row, "DATENTYP", from_datentyp)
        factors == Factor("MUL", <<1, 1>>) \o Factor("DIV", <<1, 1>>) \o Factor("ADD", <<0, 1>>)
    IN  IF id = <<>> \/ dtype = <<>> \/ Len(factors) < 3 THEN <<>>
        ELSE <<[arg |-> Text("ARG"), id |-> id[1], result_name |-> Text("RESULTNAME"),
                description |-> Text("INFO"), unit |-> Text("EINHEIT"), datatype |-> dtype[1],
                mul |-> factors[1], div |-> factors[2], add |-> factors[3],
                sg_adr |-> Text("SG_ADR"), service |-> Text("SERVICE")]>>

from_table(table) ==
    IF ~HasColumns(table, MeasurementColumns) THEN <<>>
    ELSE ByKey(Parsed(table, LAMBDA r : parse_row(table, r)), LAMBDA m : m.id, TRUE)

from_prg(tables) ==
    LET table == SelectSeq(tables, LAMBDA t : t.name = "SG_FUNKTIONEN")
    IN  IF table = <<>> THEN <<>> ELSE from_table(table[1])

get(measurements, id) == IF id \in DOMAIN measurements THEN <<measurements[id]>> ELSE <<>>

MeasurementName(m) == IF Blank(m.description) THEN m.result_name ELSE m.description
is_dynamic(m) == "2C" \in (IF m.service \in DOMAIN Parts THEN Parts[m.service] ELSE {m.service})
scaled(m, raw) == scale(raw, m.datatype, m.mul, m.div, m.add)

\* Every measurement that has this for one of its names, by id.
find_by_name(measurements, name) ==
    LET Matched(field) == ~Blank(field) /\ fold_for_match(field) = fold_for_match(name)
        found == {m \in {measurements[id] : id \in DOMAIN measurements} :
                     name # "" /\ (\E f \in {m.arg, m.result_name, m.description} : Matched(f))}
    IN  SetToSortSeq(found, LAMBDA a, b : a.id < b.id)

DYNAMIC_DID == 62211
SOURCE_POSITION == 1

\* The definition is not cleared first.
build_read_request_Unclear(m) ==
    <<define_dynamic_data_by_identifier(DYNAMIC_DID, m.id, SOURCE_POSITION, width(m.datatype)),
      read_data_by_identifier(DYNAMIC_DID)>>

build_read_request(m) ==
    <<clear_dynamic_data_identifier(DYNAMIC_DID),
      define_dynamic_data_by_identifier(DYNAMIC_DID, m.id, SOURCE_POSITION, width(m.datatype)),
      read_data_by_identifier(DYNAMIC_DID)>>

misrouted_dynamic_measurement(measurements, job, args) ==
    LET found == IF Len(args) < 2 THEN <<>>
                 ELSE CASE fold_for_match(args[1]) \in {"arg", "label"} -> find_by_name(measurements, args[2])
                        [] fold_for_match(args[1]) = "id" /\ parse_id(args[2]) # <<>>
                             -> get(measurements, parse_id(args[2])[1])
                        [] OTHER -> <<>>
    IN  fold_for_match(job) = "status_lesen" /\ found # <<>> /\ is_dynamic(found[1])

-----------------------------------------------------------------------------
(***************************************************************************)
(* snapshot.rs                                                             *)
(***************************************************************************)
TypeWidths == [t \in {"unsigned char", "u char"} |-> 1] @@ [t \in {"unsigned int", "u int"} |-> 2]
                @@ [t \in {"unsigned long", "u long", "motorola float"} |-> 4]

\* A type's name, or a mask whose digits are the width and whose value says
\* that there is none.
resolve_uwtyp(uwtyp) ==
    CASE uwtyp \in Prefixed ->
           LET n == IF uwtyp \in DOMAIN HexDigits THEN Len(HexDigits[uwtyp]) ELSE 0
           IN  IF n \in {2, 4, 6, 8, 10, 12, 14, 16}
               THEN <<[width |-> n \div 2, float |-> FALSE, sentinel |-> from_str_radix(uwtyp, n)]>>
               ELSE <<>>
      [] uwtyp \in DOMAIN TypeWidths ->
           <<[width |-> TypeWidths[uwtyp], float |-> uwtyp = "motorola float", sentinel |-> <<>>]>>
      [] OTHER -> <<>>

EnvColumns == {"UWNR", "UWTEXT", "UW_EINH", "UWTYP", "MUL", "DIV", "ADD"}

parse_env_row(table, row) ==
    LET Factor(name, default) == Required(table, row, name, LAMBDA t : parse_factor(t, default))
        uwnr == Required(table, row, "UWNR", parse_id)
        type == Required(table, row, "UWTYP", resolve_uwtyp)
        factors == Factor("MUL", <<1, 1>>) \o Factor("DIV", <<1, 1>>) \o Factor("ADD", <<0, 1>>)
    IN  IF uwnr = <<>> \/ type = <<>> \/ Len(factors) < 3 THEN <<>>
        ELSE <<[uwnr |-> uwnr[1], text_de |-> CellOr(table, row, "UWTEXT"),
                unit_sgbd |-> CellOr(table, row, "UW_EINH"), type |-> type[1],
                mul |-> factors[1], div |-> factors[2], add |-> factors[3]]>>

find_table(tables, name) == SelectSeq(tables, LAMBDA t : fold_for_match(t.name) = fold_for_match(name))

EnvDefs(tables, name) ==
    LET found == find_table(tables, name)
    IN  IF found = <<>> \/ ~HasColumns(found[1], EnvColumns) THEN <<>>
        ELSE Parsed(found[1], LAMBDA r : parse_env_row(found[1], r))

\* The first row of an identifier stays.
SnapshotDefs_FirstWins(tables) ==
    ByKey(EnvDefs(tables, "FUMWELTTEXTE") \o EnvDefs(tables, "DTCSNAPSHOTIDENTIFIER"), LAMBDA d : d.uwnr, TRUE)

\* The standard identifiers override, and so does a later row.
SnapshotDefs(tables) ==
    ByKey(EnvDefs(tables, "FUMWELTTEXTE") \o EnvDefs(tables, "DTCSNAPSHOTIDENTIFIER"), LAMBDA d : d.uwnr, FALSE)

\* The value, and whether the ECU had one.
decode_value(def, data) ==
    LET int == be_uint(data)
        available == def.type.float \/ def.type.sentinel # <<int>>
        raw == IF def.type.float THEN FloatOf[data] ELSE <<int, 1>>
    IN  [available |-> available,
         value |-> IF ~available \/ def.div[1] = 0 THEN <<>>
                   ELSE <<Affine(raw, def.mul, def.div, def.add)>>]

\* DB English, DB German, the SGBD's text, or the number, for which "" stands.
build_field(def, data) ==
    LET db == IF def.uwnr \in DOMAIN EnvLabels THEN EnvLabels[def.uwnr] ELSE [en |-> "", de |-> "", unit |-> ""]
        First(texts) == LET given == SelectSeq(texts, LAMBDA t : t # "")
                        IN  IF given = <<>> THEN "" ELSE given[1]
        non_placeholder(t) == IF t = "-" THEN "" ELSE t
        clean_unit(t) == IF t \in {"-", "0-n"} THEN "" ELSE t
    IN  [uwnr |-> def.uwnr, label |-> First(<<db.en, db.de, non_placeholder(def.text_de)>>),
         unit |-> First(<<clean_unit(db.unit), clean_unit(def.unit_sgbd)>>), raw |-> data]
        @@ decode_value(def, data)

\* One step per header or identifier; at is the offset, left the identifiers of
\* the record still to come.  The walk stops where a width is not known.
DecodeSnapshot(defs, body) ==
    LET HeaderStep(w) ==
            IF w.at + 1 >= Len(body) THEN [w EXCEPT !.stop = TRUE]
            ELSE [w EXCEPT !.left = body[w.at + 2], !.at = @ + 2]
        IdentifierStep(w) ==
            LET uwnr == be_uint(SubSeq(body, w.at + 1, w.at + 2))
                known == w.at + 2 <= Len(body) /\ uwnr \in DOMAIN defs
                end == w.at + 2 + defs[uwnr].type.width
            IN  IF ~known \/ end > Len(body) THEN [w EXCEPT !.stop = TRUE]
                ELSE [w EXCEPT !.left = @ - 1, !.at = end,
                               !.fields = Append(@, build_field(defs[uwnr], SubSeq(body, w.at + 3, end)))]
        walk[n \in 0 .. Len(body) + 1] ==
            IF n = 0 THEN [fields |-> <<>>, at |-> 0, left |-> 0, stop |-> FALSE]
            ELSE LET w == walk[n - 1]
                 IN  CASE w.stop -> w
                       [] ~w.stop /\ w.left > 0 -> IdentifierStep(w)
                       [] OTHER -> HeaderStep(w)
        end == walk[Len(body) + 1]
    IN  [fields |-> end.fields, undecoded_tail |-> After(body, end.at)]

MAX_EXT_RECORD_LEN == 64

ExtDataDefs(tables) ==
    LET found == find_table(tables, "DTCEXTENDEDDATARECORDNUMBER")
        Entry(row) ==
            LET record == parse_u8(CellOr(found[1], row, "WERT"))
                anz == CellOr(found[1], row, "ANZ_BYTE")
                len == IF anz \in DOMAIN Decimal THEN Decimal[anz][1] ELSE 0
            IN  IF record = <<>> \/ len \notin 1 .. MAX_EXT_RECORD_LEN THEN <<>>
                ELSE <<[record |-> record[1], label |-> CellOr(found[1], row, "TEXT"), len |-> len]>>
    IN  IF found = <<>> \/ ~HasColumns(found[1], {"WERT", "TEXT", "ANZ_BYTE"}) THEN <<>>
        ELSE ByKey(Parsed(found[1], Entry), LAMBDA e : e.record, FALSE)

FreezeFrameDefs(tables) == [snapshot |-> SnapshotDefs(tables), extended |-> ExtDataDefs(tables)]

\* A record has a value if it fits in an i64.
DecodeExtData(defs, body) ==
    LET Field(record, raw) ==
            [record |-> record, label |-> defs[record].label, raw |-> raw,
             value |-> IF Len(raw) < 8 \/ (Len(raw) = 8 /\ raw[1] < 128) THEN <<be_uint(raw)>> ELSE <<>>]
        Step(w) ==
            LET record == body[w.at + 1]
                end == w.at + 1 + defs[record].len
            IN  IF record \notin DOMAIN defs \/ end > Len(body) THEN [w EXCEPT !.stop = TRUE]
                ELSE [w EXCEPT !.at = end,
                               !.records = Append(@, Field(record, SubSeq(body, w.at + 2, end)))]
        walk[n \in 0 .. Len(body)] ==
            IF n = 0 THEN [records |-> <<>>, at |-> 0, stop |-> FALSE]
            ELSE LET w == walk[n - 1] IN IF w.stop \/ w.at >= Len(body) THEN w ELSE Step(w)
        end == walk[Len(body)]
    IN  [records |-> end.records, undecoded_tail |-> After(body, end.at)]

-----------------------------------------------------------------------------
(***************************************************************************)
(* pid.rs and did.rs: the PIDs with the bytes they need and their formula. *)
(***************************************************************************)
PIDS == 4 :> [bytes |-> 1, mul |-> <<100, 1>>, div |-> <<255, 1>>, add |-> <<0, 1>>]
     @@ 5 :> [bytes |-> 1, mul |-> <<1, 1>>, div |-> <<1, 1>>, add |-> <<-40, 1>>]
     @@ 12 :> [bytes |-> 2, mul |-> <<1, 1>>, div |-> <<4, 1>>, add |-> <<0, 1>>]
     @@ 13 :> [bytes |-> 1, mul |-> <<1, 1>>, div |-> <<1, 1>>, add |-> <<0, 1>>]
     @@ 14 :> [bytes |-> 1, mul |-> <<1, 1>>, div |-> <<2, 1>>, add |-> <<-64, 1>>]
     @@ 15 :> [bytes |-> 1, mul |-> <<1, 1>>, div |-> <<1, 1>>, add |-> <<-40, 1>>]
     @@ 16 :> [bytes |-> 2, mul |-> <<1, 1>>, div |-> <<100, 1>>, add |-> <<0, 1>>]
     @@ 17 :> [bytes |-> 1, mul |-> <<100, 1>>, div |-> <<255, 1>>, add |-> <<0, 1>>]
     @@ 35 :> [bytes |-> 2, mul |-> <<10, 1>>, div |-> <<1, 1>>, add |-> <<0, 1>>]
     @@ 70 :> [bytes |-> 1, mul |-> <<1, 1>>, div |-> <<1, 1>>, add |-> <<-40, 1>>]

OBD_DID_RANGE == 62464 .. 62719
pid_for_did(did) == IF did \in OBD_DID_RANGE THEN <<did % 256>> ELSE <<>>

scale_pid(pid, data) ==
    IF pid \notin DOMAIN PIDS \/ Len(data) < PIDS[pid].bytes THEN <<>>
    ELSE LET p == PIDS[pid]
         IN  <<Affine(<<be_uint(SubSeq(data, 1, p.bytes)), 1>>, p.mul, p.div, p.add)>>

\* did.rs decode: a standard PID's value, else whether it has a standard name.
StandardNames == {61824, 61825, 61826, 61831, 61832, 61833, 61834, 61836, 61840, 61841, 61842, 61843,
                  61844, 61845, 61847, 61854, 5930, 65280}
decode_did(did, raw) ==
    LET value == IF pid_for_did(did) = <<>> THEN <<>> ELSE scale_pid(did % 256, raw)
    IN  [value |-> value, named |-> value # <<>> \/ did \in StandardNames]

-----------------------------------------------------------------------------
(***************************************************************************)
(* dtc.rs and identity.rs                                                  *)
(***************************************************************************)
status_flags(status) == SetToSortSeq(StatusBits(status), <)

\* Every address stays, with the name of the first slot that has it.
name_ecu_list(slots, addresses) ==
    [i \in DOMAIN addresses |->
        LET of == SelectInSeq(slots, LAMBDA s : s.address = addresses[i])
        IN  [address |-> addresses[i], name |-> IF of = 0 THEN "" ELSE slots[of].group_name]]

-----------------------------------------------------------------------------
(***************************************************************************)
(* service_function.rs                                                     *)
(***************************************************************************)
risk(category) ==
    IF category \in {"CbsReset", "LearnedValueReset", "StatisticReset"} THEN "Low" ELSE "High"

CBS_DID == 4097
CBS_RECORD_COUNT == 1
CBS_RESET_RECORD_TAIL == <<100, 31, 128, 0, 15, 255, 15, 63, 255, 0>>

\* The id before the count.
build_cbs_reset_request_Swapped(cbs_id) ==
    write_data_by_identifier(CBS_DID, <<cbs_id, CBS_RECORD_COUNT>> \o CBS_RESET_RECORD_TAIL)

build_cbs_reset_request(cbs_id) ==
    write_data_by_identifier(CBS_DID, <<CBS_RECORD_COUNT, cbs_id>> \o CBS_RESET_RECORD_TAIL)
build_cbs_read_request == read_data_by_identifier(CBS_DID)

\* The request, or none when the id does not fit in the record.
cbs_derivation(id) == IF id < 256 THEN <<build_cbs_reset_request(id)>> ELSE <<>>

DERIVED_RESETS ==
    <<[label |-> "MSA2Hist", job |-> "STEUERN_MSA2HISTORIERESET", id |-> 24452, request |-> <<46, 95, 132>>],
      [label |-> "PMHist", job |-> "STEUERN_PM_HISTOGRAM_RESET", id |-> 24565, request |-> <<46, 95, 245, 4>>],
      [label |-> "DAROL", job |-> "STEUERN_DAROL_RESET", id |-> 25088, request |-> <<46, 98, 0, 1>>],
      [label |-> "LLKETA", job |-> "STEUERN_LLKETA_RESET", id |-> 61541, request |-> <<49, 1, 240, 101>>]>>

ServiceFunction(label, category, id, request) ==
    [label |-> label, category |-> category, id |-> id, request |-> request]

\* Empty or only dashes.
is_blank(label) == label \in {"", "-", "--"}

\* parse_cbs and parse_labelled: only a CBS reset has a request.
ParseControl(table, labelColumn, idColumn, category) ==
    LET Entry(row) ==
            LET id == Required(table, row, idColumn, parse_id)
                label == CellOr(table, row, labelColumn)
            IN  IF id = <<>> \/ is_blank(label) THEN <<>>
                ELSE <<ServiceFunction(label, category, id[1],
                                       IF category = "CbsReset" THEN cbs_derivation(id[1]) ELSE <<>>)>>
    IN  Parsed(table, Entry)

LabelledCategories == [LERNWERTE_RUECK |-> "LearnedValueReset", STELLER |-> "ActuatorControl",
                       ABGLEICH |-> "Calibration"]

from_tables_and_jobs(tables, jobs) ==
    LET Of(table) ==
            CASE table.name = "CBSKENNUNG" /\ HasColumns(table, {"NR", "CBS_K", "CBS_K_TEXT"}) ->
                   ParseControl(table, "CBS_K", "NR", "CbsReset")
              [] table.name \in DOMAIN LabelledCategories /\ HasColumns(table, {"LABEL", "TEXT", "LID"}) ->
                   ParseControl(table, "LABEL", "LID", LabelledCategories[table.name])
              [] OTHER -> <<>>
        resets == SelectSeq(DERIVED_RESETS, LAMBDA r : r.job \in jobs)
    IN  FlattenSeq([i \in DOMAIN tables |-> Of(tables[i])])
          \o [i \in DOMAIN resets |->
                 ServiceFunction(resets[i].label, "StatisticReset", resets[i].id, <<resets[i].request>>)]

\* The first of that label.
by_label(functions, label) ==
    LET of == SelectInSeq(functions, LAMBDA f : f.label = label)
    IN  IF of = 0 THEN <<>> ELSE <<functions[of]>>

=============================================================================
