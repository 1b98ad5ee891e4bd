------------------------------- MODULE Tables --------------------------------
(***************************************************************************)
(* Lookup tables: the registry of table types (lookup_table.c) and the     *)
(* tables that are read from a text file (lookup_file_table.c): "file",    *)
(* which searches the rows in order, "hash", which searches them through a *)
(* hash table (hash.c), and "regex", whose keys are patterns.  A line of   *)
(* the file is a comment or a blank line, or a key and the fields between  *)
(* the commas that follow the colon.                                       *)
(***************************************************************************)
EXTENDS Naturals, Sequences, FiniteSets
LOCAL INSTANCE SequencesExt

CONSTANTS FileLines,   \* lines a file may have
          Keys, Hash,  \* keys that are searched, and ci_hash_compute
          Matches(_, _), Compiles(_), MaxLines

VARIABLES file,        \* the lines of the file, or NoFile
          types,       \* lookup_tables_types
          table,       \* the table: type, entries and hash_table
          state,       \* "none", "created", "open", "failed", "destroyed"
          heap         \* what is allocated for it
vars == <<file, types, table, state, heap>>

NoFile == <<[key |-> "none", fields |-> <<>>]>>
Skip == [key |-> "#", fields |-> <<>>]                          \* a comment or a blank line
NoTable == [type |-> "", entries |-> <<>>, hash_table |-> <<>>]
Field(b, t) == [blank |-> b, text |-> t]                        \* blanks before the text

(* ----------------------- lookup_file_table.c: a row -------------------- *)
\* The text of a field.  One that is blank is trimmed backwards over its own start, so that the end is marked before
\* the text begins: what is copied is the rest of the line, from the next comma on.
FieldText(fs, i) ==
  IF fs[i].text # "" THEN <<fs[i].text>>
  ELSE IF fs[i].blank /\ i < Len(fs) THEN <<",">> \o [j \in 1..Len(fs) - i |-> fs[i + j].text] ELSE <<"">>
\* The loop over the fields ends at the end of the line: an empty last field is no value.
read_row(l) ==
  LET n == IF l.fields # <<>> /\ Last(l.fields) = Field(FALSE, "") THEN Len(l.fields) - 1 ELSE Len(l.fields)
  IN [key |-> l.key, vals |-> [i \in 1..n |-> FieldText(l.fields, i)]]

\* load_text_table: the rows, up to the first whose key does not compile; then the table is closed
Rows(lines) == SelectSeq(lines, LAMBDA l : l # Skip)
BadRow(type, lines) == type = "regex" /\ \E i \in DOMAIN lines : lines[i] # Skip /\ ~Compiles(lines[i].key)
load_text_table(lines) == LET rs == Rows(lines) IN [i \in DOMAIN rs |-> read_row(rs[i])]
Objects(rows) == {<<"row", i>> : i \in DOMAIN rows}

(* -------------------------------- hash.c ------------------------------- *)
Buckets == {Hash[k] : k \in DOMAIN Hash}
\* ci_hash_add puts an entry first, for each row in order
ci_hash_add_unlinked(rows, b) == LET I == {i \in DOMAIN rows : Hash[rows[i].key] = b} IN IF I = {} THEN <<>> ELSE <<CHOOSE i \in I : \A j \in I : j <= i>>
ci_hash_add(rows, b) == SetToSortSeq({i \in DOMAIN rows : Hash[rows[i].key] = b}, >)
ci_hash_search(k) ==
  LET ch == table.hash_table[Hash[k]]
      I == {i \in DOMAIN ch : table.entries[ch[i]].key = k}
  IN IF I = {} THEN {} ELSE {table.entries[ch[CHOOSE i \in I : \A j \in I : i <= j]].vals}

(* ------------------------------ the registry --------------------------- *)
Init == /\ file \in {NoFile, <<>>} /\ types = <<"file", "hash", "regex">>      \* init_internal_lookup_tables
        /\ table = NoTable /\ state = "none" /\ heap = {}
ci_lookup_table_type_register == Len(types) < 4 /\ types' = Append(types, "ldap") /\ state = "none" /\ UNCHANGED <<file, table, state, heap>>
ci_lookup_table_type_unregister ==
  /\ "ldap" \in Range(types) /\ state = "none"
  /\ LET i == CHOOSE i \in DOMAIN types : types[i] = "ldap" IN types' = SubSeq(types, 1, i - 1) \o SubSeq(types, i + 1, Len(types))
  /\ UNCHANGED <<file, table, state, heap>>

(* -------------------------------- a table ------------------------------ *)
ci_lookup_table_create ==
  /\ state \in {"none", "destroyed"}
  /\ \E ty \in {"file", "hash", "regex", "other"} :
       IF ty \in Range(types) THEN state' = "created" /\ table' = [NoTable EXCEPT !.type = ty] /\ heap' = heap \cup {<<"table", 0>>}
       ELSE state' = "none" /\ table' = NoTable /\ heap' = heap
  /\ UNCHANGED <<file, types>>
file_table_open ==
  /\ state = "created" /\ file = NoFile
  /\ state' = "failed" /\ heap' = heap \cup {<<"text_table", 0>>} /\ UNCHANGED <<file, types, table>>
\* file_table_close after a row that does not parse
RowFails ==
  /\ state = "created" /\ file # NoFile /\ BadRow(table.type, file)
  /\ state' = "failed" /\ UNCHANGED <<file, types, table, heap>>
hash_table_open ==
  /\ state = "created" /\ file # NoFile /\ ~BadRow(table.type, file) /\ state' = "open"
  /\ LET rows == load_text_table(file) IN
       /\ table' = [table EXCEPT !.entries = rows,
                                 !.hash_table = IF table.type = "hash" THEN [b \in Buckets |-> ci_hash_add(rows, b)] ELSE <<>>]
       /\ heap' = heap \cup {<<"text_table", 0>>} \cup Objects(rows) \cup (IF table.type = "hash" THEN {<<"hash", 0>>} ELSE {})
  /\ UNCHANGED <<file, types>>
file_table_close == {<<"text_table", 0>>} \cup Objects(table.entries)
hash_table_close == IF table.hash_table # <<>> THEN {<<"hash", 0>>} ELSE {}
ci_lookup_table_destroy ==
  /\ state \in {"created", "open", "failed"} /\ state' = "destroyed" /\ table' = NoTable
  /\ heap' = heap \ ({<<"table", 0>>} \cup (IF state = "open" THEN file_table_close \cup hash_table_close ELSE {}))
  /\ UNCHANGED <<file, types>>
\* ci_lookup_table_search: a set of at most one row's values
file_table_search(k) ==
  LET I == {i \in DOMAIN table.entries : IF table.type = "regex" THEN Matches(table.entries[i].key, k) ELSE table.entries[i].key = k}
  IN IF I = {} THEN {} ELSE {table.entries[CHOOSE i \in I : \A j \in I : i <= j].vals}
ci_lookup_table_search(k) == IF table.type = "hash" THEN ci_hash_search(k) ELSE file_table_search(k)
\* the file is written before it is read
FileChanges == /\ state \in {"none", "created"} /\ Len(file) < MaxLines /\ file # NoFile
               /\ \E l \in FileLines : file' = Append(file, l)
               /\ UNCHANGED <<types, table, state, heap>>

Next == \/ ci_lookup_table_type_register \/ ci_lookup_table_type_unregister \/ ci_lookup_table_create \/ file_table_open
        \/ RowFails \/ hash_table_open \/ ci_lookup_table_destroy \/ FileChanges
Spec == Init /\ [][Next]_vars

(* ------------------------------ properties ----------------------------- *)
\* what the file says of a key: the values of the rows that have it
Written(k) == {read_row(file[i]).vals : i \in {i \in DOMAIN file : file[i] # Skip /\ file[i].key = k}}
Patterns(k) == {i \in DOMAIN file : file[i] # Skip /\ Matches(file[i].key, k)}
\* A search of an open table finds a key exactly when the file has a row for it, through the list and through the hash
\* table alike, and answers with the values of such a row; for a pattern, of the first row that matches.  A table that
\* was destroyed leaves nothing allocated, if its file was there; a failed open leaves no rows behind.
TablesAnswer ==
  /\ state = "open" => \A k \in Keys :
       LET r == ci_lookup_table_search(k) IN
         IF table.type = "regex" THEN r = (IF Patterns(k) = {} THEN {} ELSE
                                          {read_row(file[CHOOSE i \in Patterns(k) : \A j \in Patterns(k) : i <= j]).vals})
         ELSE r \subseteq Written(k) /\ (r = {} <=> Written(k) = {})
  /\ state = "destroyed" => heap \subseteq (IF file = NoFile THEN {<<"text_table", 0>>} ELSE {})
\* A value is one field of the line.  (Refuted: a field of blanks takes the rest of the line.)
ValuesAreFields == state = "open" => \A i \in DOMAIN table.entries : \A n \in DOMAIN table.entries[i].vals : Len(table.entries[i].vals[n]) = 1
\* A "hash" table answers as the "file" table of the same file does.  (Refuted: of rows with one key, the list has the
\* first and the hash table the last.)
HashIsFile == state = "open" /\ table.type = "hash" => \A k \in Keys : ci_hash_search(k) = file_table_search(k)
=============================================================================
