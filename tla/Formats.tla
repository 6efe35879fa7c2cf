-------------------------------- MODULE Formats --------------------------------
(***************************************************************************)
(* The files of exports and imports: internal/service/format_json.go,      *)
(* format_csv.go, data_portability_validator.go and the registry of        *)
(* domain/data_portability.go.                                             *)
(*                                                                         *)
(* An export writes the entities of each requested type, one encoding      *)
(* after the other into one file; an import is accepted if the file passes *)
(* the check of its content and the validation of its format, and is then  *)
(* decoded.  Between the two a user may edit the file.  The program's      *)
(* cursors are stubs that yield nothing: the entities here are those of    *)
(* the interface ExportCursor, as the tests of the formats use it.         *)
(***************************************************************************)
EXTENDS Naturals, Sequences
LOCAL INSTANCE SequencesExt

CONSTANTS
    Types,          \* the types of the entities there are
    MaxCatalog,     \* bound on entities
    MaxImport       \* maxImportEntities

ASSUME FormatBoundsAssumption == MaxCatalog \in Nat /\ MaxImport \in Nat

VARIABLES
    catalog,    \* the entities
    file,       \* the file that was exported
    edited      \* it is no longer as it was exported

formatVars == <<catalog, file, edited>>

-----------------------------------------------------------------------------

\* The registry: the types that are exported and imported, in the order of their
\* dependence; every other one is restricted or unknown.
ImportOrder == <<"organizations", "roles", "permissions", "users", "org_members",
                 "user_roles", "user_permissions">>

\* The types that CSV leaves out.
Junctions == {"org_members", "user_roles", "user_permissions"}

\* The names of fields, sorted.
Columns == <<"id", "name">>

\* "formula" begins with a sign that spreadsheets evaluate, "deep" is nested
\* beyond maxNestingDepth.
Values == {"text", "formula", "deep", "null"}

IsImportable == ToSet(ImportOrder)

\* What an entity yields of itself; some have no string for an id.
Record == UNION {[S -> Values] : S \in SUBSET ToSet(Columns)}

Exportable == {e \in [type : Types, data : Record] :
                 IF "id" \in DOMAIN e.data THEN e.data["id"] = "text"
                 ELSE e.data = [c \in {"name"} |-> "text"]}

\* A line that does not parse has ok = FALSE.
Line(type, data) == [ok |-> TRUE, type |-> type, data |-> data]
CsvRow(cells) == [ok |-> TRUE, cells |-> cells]

NoFile == [format |-> "none", types |-> <<>>, lines |-> <<>>]

FormatsTypeOK ==
    /\ catalog \in Seq(Exportable)
    /\ file.format \in {"none", "json", "csv"} /\ file.types \in Seq(IsImportable)
    /\ edited \in BOOLEAN

FormatsInit == catalog = <<>> /\ file = NoFile /\ edited = FALSE

-----------------------------------------------------------------------------
(* Encoding *)

OfType(t) == SelectSeq(catalog, LAMBDA e : e.type = t)

EncodeJSON(es) == [i \in DOMAIN es |-> Line(es[i].type, es[i].data)]

FormatCSVValue(v) == CASE v = "null" -> "" [] v = "deep" -> "text" [] OTHER -> v

Cell(data, c) == IF c \in DOMAIN data THEN FormatCSVValue(data[c]) ELSE ""

\* Mutant of Header: the fields of the first entity.
HeaderOfFirst(es) == SelectSeq(Columns, LAMBDA c : c \in DOMAIN es[1].data)

\* The fields that any of the entities has.
Header(es) == SelectSeq(Columns, LAMBDA c : \E i \in DOMAIN es : c \in DOMAIN es[i].data)

\* Junctions are passed over; without entities there is no header either.
EncodeCSV(es) ==
    LET kept == SelectSeq(es, LAMBDA e : e.type \notin Junctions)
        keys == Header(kept)
    IN  IF kept = <<>> THEN <<>>
        ELSE <<CsvRow(<<"_type">> \o keys)>>
             \o [i \in DOMAIN kept |-> CsvRow(<<kept[i].type>>
                    \o [k \in DOMAIN keys |-> Cell(kept[i].data, keys[k])])]

\* StreamExport: one encoding for each type, in the order of the request.
StreamTypes(format, types) ==
    FlattenSeq([i \in DOMAIN types |->
        IF format = "json" THEN EncodeJSON(OfType(types[i])) ELSE EncodeCSV(OfType(types[i]))])

-----------------------------------------------------------------------------
(* The check of the content *)

\* The second line has as many commas as the first, and some.
LooksLikeCSV(f) ==
    /\ f.format = "csv" /\ Len(f.lines) > 1
    /\ Len(f.lines[1].cells) > 1 /\ Len(f.lines[1].cells) = Len(f.lines[2].cells)

\* One line that does not parse ends the check.
HasFormula(f) ==
    /\ \A i \in DOMAIN f.lines : f.lines[i].ok
    /\ \E i \in DOMAIN f.lines : "formula" \in ToSet(f.lines[i].cells)

ValidateFileContent(f) == f.lines # <<>> /\ ~(LooksLikeCSV(f) /\ HasFormula(f))

-----------------------------------------------------------------------------
(* JSON: validation and decoding *)

\* nestingDepth of a field is too large.
TooDeep(data) == \E c \in DOMAIN data : data[c] = "deep"

\* Mutant of Complaint: a line needs no id.
ComplaintNoId(l) == ~l.ok \/ l.type \notin IsImportable \/ TooDeep(l.data)

Complaint(l) ==
    \/ ~l.ok
    \/ "id" \notin DOMAIN l.data
    \/ l.type \notin IsImportable
    \/ TooDeep(l.data)

ValidateJSON(lines) ==
    /\ \A i \in DOMAIN lines : ~Complaint(lines[i])
    /\ Len(lines) <= MaxImport

Rank(type) == CHOOSE n \in DOMAIN ImportOrder : ImportOrder[n] = type

\* After a type that depends on it a type comes too late.
Late(lines, i) ==
    \E j \in 1..(i - 1) : /\ lines[j].ok /\ lines[j].type \in IsImportable
                          /\ Rank(lines[j].type) > Rank(lines[i].type)

Imported(type, data, ok) == [type |-> type, data |-> data, ok |-> ok]
NoRecord == Imported("", <<>>, FALSE)

DecodeJSON(lines) ==
    [i \in DOMAIN lines |->
        IF lines[i].ok /\ lines[i].type \in IsImportable
        THEN Imported(lines[i].type, lines[i].data, ~Late(lines, i))
        ELSE NoRecord]

-----------------------------------------------------------------------------
(* CSV: validation and decoding *)

Names(lines) == IF lines[1].ok THEN lines[1].cells ELSE <<>>
Has(cells, name) == name \in ToSet(cells)
TypeColumn(lines) ==
    CHOOSE n \in DOMAIN Names(lines) :
        Names(lines)[n] = "_type" /\ \A k \in 1..(n - 1) : Names(lines)[k] # "_type"

\* The type of a row is there, importable and no junction.
Legible(lines, i) ==
    LET n == TypeColumn(lines)
    IN  /\ lines[i].ok /\ n <= Len(lines[i].cells)
        /\ lines[i].cells[n] \in IsImportable \ Junctions

ValidateCSV(lines) ==
    /\ lines # <<>>
    /\ Has(Names(lines), "_type") /\ Has(Names(lines), "id")
    /\ \A i \in 2..Len(lines) : Legible(lines, i)
    /\ Len(lines) - 1 <= MaxImport

\* A row that is short has fewer fields.
Fields(lines, i) ==
    LET names == Names(lines)
        at == {n \in DOMAIN names : names[n] # "_type" /\ n <= Len(lines[i].cells)}
    IN  [c \in {names[n] : n \in at} |->
            lines[i].cells[CHOOSE n \in at : names[n] = c]]

DecodeCSV(lines) ==
    IF lines = <<>> \/ ~Has(Names(lines), "_type") THEN <<>>
    ELSE [i \in 1..(Len(lines) - 1) |->
            IF Legible(lines, i + 1)
            THEN Imported(lines[i + 1].cells[TypeColumn(lines)], Fields(lines, i + 1), TRUE)
            ELSE NoRecord]

-----------------------------------------------------------------------------
(* CreateImport and PreviewImport *)

\* createDecoder, and what the decoder makes of the file.
Decoded(f) == IF f.format = "json" THEN DecodeJSON(f.lines) ELSE DecodeCSV(f.lines)

Validate(f) == IF f.format = "json" THEN ValidateJSON(f.lines) ELSE ValidateCSV(f.lines)

\* PreviewImport asks no more than CreateImport before it looks for duplicates.
PreviewImport(f) == ValidateFileContent(f) /\ Validate(f)

-----------------------------------------------------------------------------
(* Behaviour *)

\* An entity comes into being.
AddEntity(e) ==
    /\ file = NoFile /\ Len(catalog) < MaxCatalog
    /\ catalog' = Append(catalog, e)
    /\ UNCHANGED <<file, edited>>

ExportFile(format, types) ==
    /\ file = NoFile
    /\ file' = [format |-> format, types |-> types, lines |-> StreamTypes(format, types)]
    /\ UNCHANGED <<catalog, edited>>

\* The user swaps two lines, spoils one, cuts one or gives it another type.
EditFile ==
    /\ ~edited
    /\ edited' = TRUE
    /\ \E i \in DOMAIN file.lines :
        \/ \E j \in DOMAIN file.lines :
            file' = [file EXCEPT !.lines[i] = file.lines[j], !.lines[j] = file.lines[i]]
        \/ file' = [file EXCEPT !.lines[i].ok = FALSE]
        \/ /\ file.format = "csv"
           /\ \E n \in 1..(Len(file.lines[i].cells) - 1) :
                file' = [file EXCEPT !.lines[i].cells = SubSeq(@, 1, n)]
        \/ /\ file.format = "csv"
           /\ file' = [file EXCEPT !.lines[i].cells[1] = "sessions"]
        \/ /\ file.format = "json"
           /\ file' = [file EXCEPT !.lines[i].type = "sessions"]
        \/ /\ file.format = "json"
           /\ file' = [file EXCEPT !.lines[i].data = <<>>]
    /\ UNCHANGED catalog

FormatsNext ==
    \/ \E e \in Exportable : AddEntity(e)
    \/ \E format \in {"json", "csv"}, t, u \in Types :
        ExportFile(format, <<t>>) \/ (t # u /\ ExportFile(format, <<t, u>>))
    \/ EditFile

-----------------------------------------------------------------------------
(* Properties *)

\* What was exported, and what is read back of it.
Exported == FlattenSeq([i \in DOMAIN file.types |-> OfType(file.types[i])])

ReadBack(es) == [i \in DOMAIN es |-> Imported(es[i].type, es[i].data, TRUE)]

\* The same through CSV: what an entity has not and others have is empty.
ReadFlat(es) ==
    [i \in DOMAIN es |-> Imported(es[i].type,
        [c \in UNION {DOMAIN es[j].data : j \in DOMAIN es} |-> Cell(es[i].data, c)], TRUE)]

InOrder(types) ==
    \A i, j \in DOMAIN types : i < j => Rank(types[i]) < Rank(types[j])

\* A JSON export of entities with ids, in the order of dependence, not too many and
\* not too deep, is accepted and read back as it was; so is a CSV export of one type
\* that is no junction and holds no formula, with its values as text.
ExportsAreReadBack ==
    LET es == Exported
    IN  ~edited /\ es # <<>> /\ Len(es) <= MaxImport =>
        /\ file.format = "json" /\ InOrder(file.types)
           /\ (\A i \in DOMAIN es : "id" \in DOMAIN es[i].data
                                    /\ ~TooDeep(es[i].data))
           => PreviewImport(file) /\ Decoded(file) = ReadBack(es)
        /\ file.format = "csv" /\ Len(file.types) = 1 /\ es[1].type \notin Junctions
           /\ (\E i \in DOMAIN es : "id" \in DOMAIN es[i].data)
           /\ (\A i \in DOMAIN es : \A c \in DOMAIN es[i].data : es[i].data[c] # "formula")
           => PreviewImport(file) /\ Decoded(file) = ReadFlat(es)

\* Whatever was done to a file: if it is accepted, each of its records decodes, has an
\* id among its fields unless its row was cut, and is of an importable type, except that
\* JSON records may turn out to be late, which the validation does not look at.
AcceptedIsDecoded ==
    file # NoFile /\ PreviewImport(file) =>
        LET records == Decoded(file)
        IN  \A i \in DOMAIN records :
                /\ records[i].type \in IsImportable
                /\ records[i].ok \/ (file.format = "json" /\ Late(file.lines, i))
                /\ "id" \in DOMAIN records[i].data \/ (file.format = "csv" /\ edited)

FormatsHold == ExportsAreReadBack /\ AcceptedIsDecoded
=============================================================================
