------------------------------ MODULE ShortTerm ------------------------------
(***************************************************************************)
(* The short-term memory of searches (SSTorytime.go, UpdateSTMContext,     *)
(* AddContext, CommitContextToken) in a process that goes on searching:    *)
(* what was said once is an intentional fragment, what was said again an   *)
(* ambient one.  Both maps live in memory only; searchN4L, which runs one  *)
(* search, makes a single call, or one for each name of a page search.     *)
(***************************************************************************)
EXTENDS Integers, SequencesExt, Functions

CONSTANTS Vocabulary,   \* the terms of a search
          Chapters,     \* the chapters a search can name, "" for none
          Skipped,      \* the terms AddContext skips: "", "%%" and parentheses that are no pointer
          Token,        \* what is kept of another term: the text of the node for a pointer
          ChapterToken, \* "Chapter:" and the name
          Searches,     \* the searches that are made
          FORGOTTEN, Pauses, MaxCalls

NoChapter == ""
ASSUME ShortTermAssumption ==
    /\ FORGOTTEN \in Nat /\ Pauses \subseteq Nat /\ MaxCalls \in Nat
    /\ Skipped \subseteq Vocabulary /\ NoChapter \in Chapters
    /\ DOMAIN Token = Vocabulary \ Skipped /\ DOMAIN ChapterToken = Chapters \ {NoChapter}
    /\ \A s \in Searches : /\ \A ws \in {s.Name, s.From, s.To, s.Context} : ws \in Seq(Vocabulary)
                           /\ s.Chapter \in Chapters /\ s.Sequence \in BOOLEAN

VARIABLES STM_INT_FRAG, STM_AMB_FRAG,   \* the histories of the two kinds of fragment
          now, calls,
          said          \* the tokens of the last call
stmVars == <<STM_INT_FRAG, STM_AMB_FRAG, now, calls, said>>

Nothing == [t \in {} |-> 0]
STMInit == STM_INT_FRAG = Nothing /\ STM_AMB_FRAG = Nothing /\ now = 0 /\ calls = 0 /\ said = <<>>

(* The terms a search leaves: its names and ends, or its names, contexts   *)
(* and chapter.                                                            *)
Terms(s) ==
    LET Tokens(ws) == FlattenSeq([i \in DOMAIN ws |-> IF ws[i] \in Skipped THEN <<>> ELSE <<Token[ws[i]]>>])
    IN  IF s.Sequence \/ s.From # <<>> \/ s.To # <<>> THEN Tokens(s.Name \o s.From \o s.To)
        ELSE Tokens(s.Name \o s.Context) \o (IF s.Chapter = NoChapter THEN <<>> ELSE <<ChapterToken[s.Chapter]>>)

History(freq, last, t) == [Freq |-> freq, Last |-> t, Delta |-> t - last]

Without(f, x) == Restrict(f, DOMAIN f \ {x})
With(f, x, y) == [z \in DOMAIN f \cup {x} |-> IF z = x THEN y ELSE f[z]]

CommitContextToken(stm, token, t) ==
    IF token \in DOMAIN stm.amb
    THEN [stm EXCEPT !.amb = With(@, token, History(@[token].Freq + 1, @[token].Last, t))]
    ELSE IF token \in DOMAIN stm.int
    THEN [int |-> Without(stm.int, token),
          amb |-> With(stm.amb, token, History(stm.int[token].Freq + 1, stm.int[token].Last, t))]
    ELSE [stm EXCEPT !.int = With(@, token, History(1, t, t))]

CommitAll(stm, tokens, t) == FoldLeft(LAMBDA m, token : CommitContextToken(m, token, t), stm, tokens)

RememberedBelow(frag) == Restrict(frag, {t \in DOMAIN frag : frag[t].Delta < FORGOTTEN})   \* slip: at the limit

Remembered(frag) == Restrict(frag, {t \in DOMAIN frag : frag[t].Delta <= FORGOTTEN})

UpdateSTMContext(s) ==
    /\ calls < MaxCalls /\ calls' = calls + 1
    /\ \E pause \in Pauses : now' = now + pause
    /\ said' = Terms(s)
    /\ LET stm == CommitAll([int |-> STM_INT_FRAG, amb |-> STM_AMB_FRAG], said', now')
       IN  /\ STM_INT_FRAG' = Remembered(stm.int)
           /\ STM_AMB_FRAG' = Remembered(stm.amb)

STMNext == \E s \in Searches : UpdateSTMContext(s)
STMSpec == STMInit /\ [][STMNext]_stmVars

-----------------------------------------------------------------------------
(* Properties. *)

Known == DOMAIN STM_INT_FRAG \cup DOMAIN STM_AMB_FRAG
Fragment(t) == IF t \in DOMAIN STM_AMB_FRAG THEN STM_AMB_FRAG[t] ELSE STM_INT_FRAG[t]
Freq(t) == IF t \in Known THEN Fragment(t).Freq ELSE 0
Occurrences(t) == Cardinality({i \in DOMAIN said : said[i] = t})

(* What a call forgets is what it has just been told again, once, after    *)
(* more than FORGOTTEN; everything else stays and counts its occurrences,  *)
(* however long ago it was said (the loops over Delta at the end of        *)
(* AddContext).                                                            *)
ForgottenOnReturn ==
    [][\A t \in Known \cup ToSet(said') :
         LET n == Occurrences(t)'
             returns == t \in Known /\ n = 1 /\ now' - Fragment(t).Last > FORGOTTEN
         IN  /\ t \in Known' <=> ~returns
             /\ ~returns => Freq(t)' = Freq(t) + n]_stmVars
=============================================================================
