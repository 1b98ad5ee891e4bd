------------------------------ MODULE Templates ------------------------------
(***************************************************************************)
(* The cache of text templates (txtTemplate.c), from which services build  *)
(* their error pages.  Threads look a template up, read it from its file   *)
(* when it is not cached, use it, and release it; a release notices that   *)
(* the file has changed.  What happens under templates_mutex is one step;  *)
(* the file is read, and its age is looked at, outside of it.              *)
(***************************************************************************)
EXTENDS Naturals, Sequences, FiniteSets, Functions

CONSTANTS Threads, Names,
  Accepted,              \* what a request's Accept-Language may list: sequences of languages
  DEF_LANG,
  TEMPLATE_CACHE_SIZE, TEMPLATE_RELOAD_TIME, MaxTime, MaxCalls

VARIABLES now,
          files,      \* <<name, language>> -> time of the last change, 0 if there is no such file
          templates,  \* the slots
          private,    \* thread -> its template that is not cached
          call, calls
vars == <<now, files, templates, private, call, calls>>

Slots == 1..TEMPLATE_CACHE_SIZE
Langs == (UNION {Range(a) : a \in Accepted}) \cup {DEF_LANG}
NoFile == <<"", "">>
\* data is the time of change of the text that the buffer has: 0 is NULL
Empty == [key |-> NoFile, data |-> 0, loaded |-> 0, last_used |-> 0, locked |-> 0, must_free |-> FALSE]
Idle == [pc |-> "idle", name |-> "", langs |-> <<>>, slot |-> 0, text |-> 0, began |-> 0, must_free |-> FALSE]
CACHED == 0          \* slot of a thread whose template is its own

Init == /\ now = 1 /\ files \in [Names \X Langs -> {0, 1}]
        /\ templates = [i \in Slots |-> Empty] /\ private = [t \in Threads |-> Empty]
        /\ call = [t \in Threads |-> Idle] /\ calls = 0

(* ------------------------------ the cache ------------------------------ *)
FirstSlot(P(_)) == {i \in Slots : P(i) /\ \A j \in 1..i-1 : ~P(j)}
templateFind(key) == FirstSlot(LAMBDA i : templates[i].data # 0 /\ ~templates[i].must_free /\ templates[i].key = key)
\* A slot that is not in use; the search for the one that was used least recently starts at time 0 and finds none.
templateFindFree ==
  LET free == FirstSlot(LAMBDA i : templates[i].data = 0)
      oldest == 0
  IN IF free # {} THEN free
     ELSE {i \in Slots : templates[i].last_used < oldest /\ templates[i].locked <= 0}
templateExpired(tm) ==
  now - tm.loaded >= TEMPLATE_RELOAD_TIME /\ files[tm.key] # 0 /\ files[tm.key] > tm.data
templateFree(tm) == [tm EXCEPT !.key = NoFile, !.data = 0]

(* ------------------ ci_txt_template_build_content ---------------------- *)
\* templateLoadText: the languages of the request in their order, then the default one
Begin(t) ==
  /\ call[t].pc = "idle" /\ calls < MaxCalls /\ calls' = calls + 1
  /\ \E n \in Names, a \in Accepted :
       call' = [call EXCEPT ![t] = [Idle EXCEPT !.pc = "find", !.name = n, !.langs = Append(a, DEF_LANG)]]
  /\ UNCHANGED <<now, files, templates, private>>
Key(t) == <<call[t].name, Head(call[t].langs)>>
\* templateTryLoadText, the first section
Find(t) ==
  /\ call[t].pc = "find"
  /\ LET f == templateFind(Key(t)) IN
     IF f = {} THEN call' = [call EXCEPT ![t].pc = "read", ![t].began = now] /\ UNCHANGED templates
     ELSE LET i == CHOOSE i \in f : TRUE
          IN /\ templates' = [templates EXCEPT ![i].last_used = now, ![i].locked = @ + 1]
             /\ call' = [call EXCEPT ![t].pc = "use", ![t].slot = i, ![t].text = templates[i].data]
  /\ UNCHANGED <<now, files, private, calls>>
\* the file is opened and read; if there is none, the next language is tried, or the page says so
Read(t) ==
  /\ call[t].pc = "read"
  /\ LET c == call[t] IN
     call' = [call EXCEPT ![t] =
       IF files[Key(t)] # 0 THEN [c EXCEPT !.pc = "store", !.text = files[Key(t)]]
       ELSE IF Len(c.langs) > 1 THEN [c EXCEPT !.pc = "find", !.langs = Tail(c.langs)]
       ELSE [c EXCEPT !.pc = "missing"]]
  /\ UNCHANGED <<now, files, templates, private, calls>>
\* the second section: a free slot, or memory of its own
Store(t) ==
  /\ call[t].pc = "store"
  /\ LET f == templateFindFree
         Filled(tm, n) == [tm EXCEPT !.key = Key(t), !.data = call[t].text, !.loaded = call[t].began,
                                     !.last_used = call[t].began, !.must_free = FALSE, !.locked = n]
     IN IF f # {}
          THEN LET i == CHOOSE i \in f : TRUE
               IN /\ templates' = [templates EXCEPT ![i] = Filled(@, @.locked + 1)]
                  /\ call' = [call EXCEPT ![t].pc = "use", ![t].slot = i] /\ UNCHANGED private
          ELSE /\ private' = [private EXCEPT ![t] = Filled(Empty, 0)]
               /\ call' = [call EXCEPT ![t].pc = "use", ![t].slot = CACHED] /\ UNCHANGED templates
  /\ UNCHANGED <<now, files, calls>>
\* ci_format_text reads the template's buffer
Format(t) ==
  /\ call[t].pc = "use" /\ call' = [call EXCEPT ![t].pc = "age"]
  /\ UNCHANGED <<now, files, templates, private, calls>>
\* template_release: the age is looked at before the mutex is taken
Age(t) ==
  /\ call[t].pc = "age"
  /\ IF call[t].slot = CACHED
       THEN private' = [private EXCEPT ![t] = Empty] /\ call' = [call EXCEPT ![t] = Idle]
       ELSE LET tm == templates[call[t].slot]
            IN call' = [call EXCEPT ![t].pc = "release", ![t].must_free = tm.must_free \/ templateExpired(tm)]
               /\ UNCHANGED private
  /\ UNCHANGED <<now, files, templates, calls>>
Unlocked_free(tm, free) ==
  LET l == IF tm.locked > 0 THEN tm.locked - 1 ELSE 0
  IN IF free THEN [templateFree(tm) EXCEPT !.locked = l] ELSE [tm EXCEPT !.locked = l]
Unlocked(tm, free) ==
  LET l == IF tm.locked > 0 THEN tm.locked - 1 ELSE 0
  IN IF free /\ l = 0 THEN [templateFree(tm) EXCEPT !.locked = 0] ELSE [tm EXCEPT !.locked = l, !.must_free = free]
template_release(t) ==
  /\ call[t].pc = "release"
  /\ templates' = [templates EXCEPT ![call[t].slot] = Unlocked(@, call[t].must_free)]
  /\ call' = [call EXCEPT ![t] = Idle]
  /\ UNCHANGED <<now, files, private, calls>>
Missing(t) == /\ call[t].pc = "missing" /\ call' = [call EXCEPT ![t] = Idle]
              /\ UNCHANGED <<now, files, templates, private, calls>>

FileChanges == /\ now < MaxTime /\ now' = now + 1
               /\ \E k \in Names \X Langs : files' = [files EXCEPT ![k] = now + 1]
               /\ UNCHANGED <<templates, private, call, calls>>
Next == \/ \E t \in Threads : Begin(t) \/ Find(t) \/ Read(t) \/ Store(t) \/ Format(t) \/ Age(t) \/ template_release(t)
                              \/ Missing(t)
        \/ FileChanges
Spec == Init /\ [][Next]_vars

(* ------------------------------ properties ----------------------------- *)
Users(i) == {t \in Threads : call[t].slot = i /\ call[t].pc \in {"use", "age", "release"}}
\* A template stays as it is while a thread uses it: its slot is neither freed nor filled with another, its text is the
\* one the thread found, and the count of its users is true, so that the last of them, and only the last, may free it.
TemplatesHeld ==
  /\ \A i \in Slots : templates[i].locked = Cardinality(Users(i))
  /\ \A t \in Threads : call[t].pc \in {"use", "age", "release"} =>
       LET tm == IF call[t].slot = CACHED THEN private[t] ELSE templates[call[t].slot]
       IN tm.data = call[t].text /\ tm.key = Key(t)
  /\ \A i \in Slots : templates[i].data = 0 => templates[i].locked = 0
\* TEMPLATE_CACHE_SIZE is "How many templates can be cached": when the cache is full the one that was used least
\* recently makes place.  (Refuted: none does, and every later template is read from its file each time.)
CacheMakesPlace ==
  \A t \in Threads : call[t].pc = "store" /\ (\E i \in Slots : templates[i].locked = 0) => templateFindFree # {}
=============================================================================
