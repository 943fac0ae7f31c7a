------------------------------ MODULE ShellProofs ------------------------------
(***************************************************************************)
(* Proofs about Shell for any files, depth of scripts and of instances:    *)
(* every instance gives back the streams it was started with, the          *)
(* interpreter and the editor follow the streams, no open file is          *)
(* forgotten, and one kind of line only, which redirects input and output  *)
(* and is refused, can close a stream that is in use.                      *)
(***************************************************************************)
EXTENDS Shell, SequenceTheorems, TLAPS

-----------------------------------------------------------------------------
(* Contexts *)

\* What an instance with context c that has made the streams s will close.
Closes(c, s) == IfSaved(c.o_stdout, s.out) \cup IfSaved(c.o_stdin, s.in)

Three(s) == {s.in, s.out, s.err}

LEMMA StreamsNotNone == None \notin Streams
BY StreamsOK DEF Streams

LEMMA CleanContext ==
    ASSUME NEW q \in BOOLEAN, NEW e \in StdStreams
    PROVE  /\ NewParser(q, e) \in Contexts
           /\ ContextGood(NewParser(q, e), q, e, e)
           /\ Closes(NewParser(q, e), e) = {}
<1>1. NewParser(q, e) \in Contexts
  BY DEF NewParser, ParserCtx, Contexts, Saved, StdStreams
<1>2. Closes(NewParser(q, e), e) = {}
  BY DEF NewParser, ParserCtx, Closes, IfSaved
<1>3. Before([std |-> e, ctx |-> NewParser(q, e)]) = e
  BY DEF NewParser, ParserCtx, Before, Either, StdStreams
<1>4. CtxBefore(NewParser(q, e)) = NewParser(q, e)
  BY DEF NewParser, ParserCtx, CtxBefore, Either
<1>5. /\ NewParser(q, e).outf = (IF q THEN None ELSE e.out) /\ NewParser(q, e).errf = e.err
      /\ NewParser(q, e).o_stderr = None
  BY DEF NewParser, ParserCtx
<1> QED
  BY <1>1, <1>2, <1>3, <1>4, <1>5 DEF ContextGood

\* An instance between two lines has its own streams.
LEMMA CleanStreams ==
    ASSUME NEW q, NEW s \in StdStreams, NEW e \in StdStreams,
           ContextGood(NewParser(q, e), q, s, e)
    PROVE  s = e
BY DEF ContextGood, Before, Either, NewParser, ParserCtx, StdStreams

\* The streams are those it was started with and those it will close.
LEMMA OwnStreams ==
    ASSUME NEW c, NEW q, NEW s, NEW e \in StdStreams, ContextGood(c, q, s, e)
    PROVE  /\ Three(s) \subseteq Three(e) \cup Closes(c, s)
           /\ Closes(c, s) \subseteq Three(s)
<1>1. /\ e.in = Either(c.o_stdin, s.in) /\ e.out = Either(c.o_stdout, s.out)
      /\ e.err = Either(c.o_stderr, s.err)
  BY DEF ContextGood, Before
<1>2. c.o_stderr # None => c.o_stdout # None /\ s.err = s.out
  BY DEF ContextGood
<1> QED
  BY <1>1, <1>2 DEF Three, Closes, IfSaved, Either

Terminals == [in : Streams, out : Streams]
Worlds == [std : StdStreams, open : SUBSET Streams, term : Terminals, ctx : Contexts]

LEMMA TerminalType == ASSUME NEW s \in StdStreams PROVE Terminal(s) \in Terminals
BY DEF Terminal, Terminals, StdStreams

\* World w of an instance that was started with streams e and is not redirected, while
\* the streams o are open.
Clean(w, q, e, o) ==
    /\ w \in Worlds
    /\ w.std = e /\ w.term = Terminal(e) /\ w.ctx = NewParser(q, e) /\ w.open = o

\* What cexpUnredir does.
LEMMA Unredirected ==
    ASSUME NEW w, NEW q \in BOOLEAN, NEW e \in StdStreams, w.open \in SUBSET Streams,
           ContextGood(w.ctx, q, w.std, e)
    PROVE  Clean(cexpUnredir(w), q, e, w.open \ Closes(w.ctx, w.std))
<1> DEFINE o == w.open \ Closes(w.ctx, w.std)
           c == NewParser(q, e)
           t == Terminal(e)
<1>1. Before(w) = e
  BY DEF ContextGood, Before
<1>2. CtxBefore(w.ctx) = c
  BY DEF ContextGood
<1>3. (w.open \ IfSaved(w.ctx.o_stdout, w.std.out)) \ IfSaved(w.ctx.o_stdin, w.std.in) = o
  BY DEF Closes
<1>4. cexpUnredir(w) = [std |-> e, term |-> t, ctx |-> c, open |-> o]
  BY <1>1, <1>2, <1>3 DEF cexpUnredir
<1>5. o \in SUBSET Streams /\ c \in Contexts /\ t \in Terminals
  BY CleanContext, TerminalType
<1> HIDE DEF o, c, t
<1>6. cexpUnredir(w) \in Worlds
  BY <1>4, <1>5 DEF Worlds
<1> QED
  BY <1>4, <1>6 DEF Clean, o, c, t

-----------------------------------------------------------------------------
(* What cexpRedir does with streams that are not redirected *)

\* World w after a redirection, of an instance that was started with streams e while the
\* streams o were open.
Opened(w, q, e, o) ==
    /\ w \in Worlds
    /\ ContextGood(w.ctx, q, w.std, e)
    /\ w.open = o \cup Closes(w.ctx, w.std)
    /\ Closes(w.ctx, w.std) \subseteq Files \ o

LEMMA InputOpened ==
    ASSUME NEW q \in BOOLEAN, NEW e \in StdStreams, NEW o \in SUBSET Streams, NEW f \in Files \ o,
           NEW v, Clean(v, q, e, o), NEW w, w = InputFrom(v, f)
    PROVE  /\ Opened(w, q, e, o)
           /\ w.std = [e EXCEPT !.in = f]
           /\ w.ctx = [NewParser(q, e) EXCEPT !.o_stdin = e.in]
           /\ w.open = o \cup {f}
<1> DEFINE s == [e EXCEPT !.in = f]
           p == NewParser(q, e)
           c == [p EXCEPT !.o_stdin = e.in]
<1>1. /\ v \in Worlds /\ v.std = e /\ v.ctx = p /\ v.open = o
  BY DEF Clean
<1>2. w.std = s /\ w.ctx = c /\ w.open = o \cup {f}
  <2> HIDE DEF p
  <2> QED
    BY <1>1 DEF InputFrom, Worlds
<1>3. e.in \in Streams /\ e.in # None /\ f \in Streams
  BY StreamsNotNone DEF StdStreams, Streams
<1>4. s \in StdStreams
  BY <1>3 DEF StdStreams
<1>5. p \in Contexts
  BY CleanContext
<1>6. c \in Contexts
  <2> HIDE DEF p
  <2> QED
    BY <1>3, <1>5 DEF Contexts, Saved
<1>7. w \in Worlds
  <2> HIDE DEF p
  <2>1. o \cup {f} \in SUBSET Streams
    BY <1>3
  <2> QED
    BY <1>1, <1>4, <1>6, <2>1 DEF InputFrom, Worlds
<1>8. /\ c.outf = (IF q THEN None ELSE e.out) /\ c.errf = e.err /\ c.o_stdin = e.in
      /\ c.o_stdout = None /\ c.o_stderr = None /\ c.o_outf = None /\ c.o_errf = None
  BY DEF NewParser, ParserCtx
<1>9. s.in = f /\ s.out = e.out /\ s.err = e.err
  BY DEF StdStreams
<1> HIDE DEF s, c
<1>10. Before([std |-> s, ctx |-> c]) = e
  BY <1>3, <1>8, <1>9 DEF Before, Either, StdStreams
<1>11. CtxBefore(c) = p
  BY <1>8 DEF CtxBefore, Either, NewParser
<1>12. ContextGood(c, q, s, e)
  BY <1>8, <1>9, <1>10, <1>11 DEF ContextGood
<1>13. Closes(c, s) = {f}
  BY <1>3, <1>8, <1>9 DEF Closes, IfSaved
<1> QED
  BY <1>2, <1>7, <1>12, <1>13 DEF Opened, s, c

\* The output side is not redirected.
OutputClean(w, e) ==
    /\ w.std.out = e.out /\ w.std.err = e.err
    /\ w.ctx.o_stdout = None /\ w.ctx.o_stderr = None
    /\ w.ctx.o_outf = None /\ w.ctx.o_errf = None

LEMMA ContextOutput ==
    ASSUME NEW c \in Contexts, NEW a1 \in Saved, NEW a2 \in Saved, NEW a3 \in Saved,
           NEW a4 \in Saved, NEW a5 \in Saved, NEW a6 \in Streams
    PROVE  [c EXCEPT !.o_stdout = a1, !.o_outf = a2, !.outf = a3, !.o_stderr = a4,
                     !.o_errf = a5, !.errf = a6] \in Contexts
BY DEF Contexts

LEMMA WorldOutput ==
    ASSUME NEW w \in Worlds, NEW f, NEW o \in SUBSET Streams, NEW c \in Contexts, NEW both,
           [w.std EXCEPT !.out = f, !.err = IF both THEN f ELSE @] \in StdStreams
    PROVE  [w EXCEPT !.std.out = f, !.std.err = IF both THEN f ELSE @,
                     !.open = o, !.ctx = c] \in Worlds
BY DEF Worlds

LEMMA OutputOpened ==
    ASSUME NEW q \in BOOLEAN, NEW e \in StdStreams, NEW o \in SUBSET Streams, NEW v,
           Opened(v, q, e, o), OutputClean(v, e), NEW f \in Files \ v.open, NEW both \in BOOLEAN
    PROVE  Opened(OutputTo(v, f, both), q, e, o)
<1> DEFINE w == OutputTo(v, f, both)
           s == w.std
           c == w.ctx
           p == NewParser(q, e)
<1>1. /\ v \in Worlds /\ v.std \in StdStreams /\ v.ctx \in Contexts /\ v.open \in SUBSET Streams
      /\ v.term \in Terminals
  BY DEF Opened, Worlds
<1>2. e.in = Either(v.ctx.o_stdin, v.std.in)
  BY DEF Opened, ContextGood, Before
<1>3. /\ v.ctx.outf = (IF q THEN None ELSE e.out) /\ v.ctx.errf = e.err
  BY DEF Opened, OutputClean, ContextGood
<1>4. /\ e.in \in Streams /\ e.out \in Streams /\ e.err \in Streams /\ f \in Streams
      /\ e.out # None /\ e.err # None /\ f # None
  BY StreamsNotNone DEF StdStreams, Streams
<1>5. /\ s = [v.std EXCEPT !.out = f, !.err = IF both THEN f ELSE @]
      /\ w.open = v.open \cup {f} /\ w.term = v.term
      /\ c = [v.ctx EXCEPT
                !.o_stdout = v.std.out,
                !.o_outf = IF v.ctx.outf # None THEN v.ctx.outf ELSE @,
                !.outf   = IF v.ctx.outf # None THEN f ELSE @,
                !.o_stderr = IF both THEN v.std.err ELSE @,
                !.o_errf = IF both /\ v.ctx.errf # None THEN v.ctx.errf ELSE @,
                !.errf   = IF both /\ v.ctx.errf # None THEN f ELSE @]
  BY <1>1 DEF OutputTo, Worlds
<1>6. /\ s.in = v.std.in /\ s.out = f /\ s.err = IF both THEN f ELSE e.err
  <2> HIDE DEF s, c
  <2> QED
    BY <1>1, <1>5 DEF StdStreams, OutputClean
<1>7. /\ c.o_stdin = v.ctx.o_stdin /\ c.o_stdout = e.out
      /\ c.o_stderr = IF both THEN e.err ELSE None
  <2> HIDE DEF s, c
  <2> QED
    BY <1>1, <1>5 DEF Contexts, OutputClean
<1>8. /\ c.outf = (IF q THEN None ELSE f)
      /\ c.o_outf = (IF q THEN None ELSE e.out)
  <2> HIDE DEF s, c
  <2> QED
    BY <1>1, <1>3, <1>4, <1>5 DEF Contexts, OutputClean
<1>9. /\ c.errf = (IF both THEN f ELSE e.err)
      /\ c.o_errf = (IF both THEN e.err ELSE None)
  <2> HIDE DEF s, c
  <2> QED
    BY <1>1, <1>3, <1>4, <1>5 DEF Contexts, OutputClean
<1>10. w \in Worlds
  <2>1. s \in StdStreams
    <3> HIDE DEF s, c
    <3> QED
      BY <1>1, <1>4, <1>5 DEF StdStreams
  <2>2. c \in Contexts
    <3> DEFINE a1 == v.std.out
               a2 == IF v.ctx.outf # None THEN v.ctx.outf ELSE v.ctx.o_outf
               a3 == IF v.ctx.outf # None THEN f ELSE v.ctx.outf
               a4 == IF both THEN v.std.err ELSE v.ctx.o_stderr
               a5 == IF both /\ v.ctx.errf # None THEN v.ctx.errf ELSE v.ctx.o_errf
               a6 == IF both /\ v.ctx.errf # None THEN f ELSE v.ctx.errf
    <3>1. a1 \in Saved /\ a2 \in Saved /\ a3 \in Saved /\ a4 \in Saved /\ a5 \in Saved
      BY <1>3, <1>4 DEF OutputClean, Saved
    <3>2. a6 \in Streams
      BY <1>3, <1>4
    <3>3. c = [v.ctx EXCEPT !.o_stdout = a1, !.o_outf = a2, !.outf = a3, !.o_stderr = a4,
                            !.o_errf = a5, !.errf = a6]
      BY <1>5
    <3> HIDE DEF c, a1, a2, a3, a4, a5, a6
    <3> QED
      BY <1>1, <3>1, <3>2, <3>3, ContextOutput
  <2>3. w.open \in SUBSET Streams
    BY <1>1, <1>4, <1>5
  <2> DEFINE o2 == v.open \cup {f}
             c2 == [v.ctx EXCEPT
                      !.o_stdout = v.std.out,
                      !.o_outf = IF v.ctx.outf # None THEN v.ctx.outf ELSE @,
                      !.outf   = IF v.ctx.outf # None THEN f ELSE @,
                      !.o_stderr = IF both THEN v.std.err ELSE @,
                      !.o_errf = IF both /\ v.ctx.errf # None THEN v.ctx.errf ELSE @,
                      !.errf   = IF both /\ v.ctx.errf # None THEN f ELSE @]
  <2>4. w = [v EXCEPT !.std.out = f, !.std.err = IF both THEN f ELSE @, !.open = o2,
                      !.ctx = c2]
    BY DEF OutputTo
  <2>5. c2 \in Contexts /\ o2 \in SUBSET Streams
    BY <1>5, <2>2, <2>3
  <2>6. [v.std EXCEPT !.out = f, !.err = IF both THEN f ELSE @] \in StdStreams
    BY <1>5, <2>1
  <2> HIDE DEF w, c2, o2
  <2> QED
    BY <1>1, <2>4, <2>5, <2>6, WorldOutput
<1> HIDE DEF w, s, c
<1>11. Before([std |-> s, ctx |-> c]) = e
  BY <1>2, <1>4, <1>6, <1>7 DEF Before, Either, StdStreams
<1>12. CtxBefore(c) = p
  BY <1>4, <1>8, <1>9 DEF CtxBefore, Either, NewParser
<1>13. ContextGood(c, q, s, e)
  BY <1>4, <1>6, <1>7, <1>8, <1>9, <1>11, <1>12 DEF ContextGood
<1>14. Closes(c, s) = Closes(v.ctx, v.std) \cup {f}
  BY <1>4, <1>6, <1>7 DEF Closes, IfSaved, OutputClean
<1>15. w.open = o \cup Closes(c, s) /\ Closes(c, s) \subseteq Files \ o
  <2>1. w.open = v.open \cup {f}
    BY <1>5 DEF w
  <2> QED
    BY <1>14, <2>1 DEF Opened
<1> QED
  BY <1>10, <1>13, <1>15 DEF Opened, w, s, c

LEMMA CleanIsOpened ==
    ASSUME NEW q \in BOOLEAN, NEW e \in StdStreams, NEW o, NEW v, Clean(v, q, e, o)
    PROVE  Opened(v, q, e, o) /\ OutputClean(v, e)
<1>1. OutputClean(v, e)
  BY DEF Clean, OutputClean, NewParser, ParserCtx
<1> QED
  BY <1>1, CleanContext DEF Clean, Opened

LEMMA TermTold ==
    ASSUME NEW q, NEW e, NEW o, NEW v, Opened(v, q, e, o),
           NEW w, w = [v EXCEPT !.term = Terminal(v.std)]
    PROVE  Opened(w, q, e, o) /\ w.term = Terminal(w.std)
<1> DEFINE t == Terminal(v.std)
<1>1. v \in Worlds /\ t \in Terminals
  BY TerminalType DEF Opened, Worlds
<1>2. w.std = v.std /\ w.ctx = v.ctx /\ w.open = v.open /\ w.term = t /\ w \in Worlds
  <2>1. w = [v EXCEPT !.term = t]
    OBVIOUS
  <2> HIDE DEF t
  <2> QED
    BY <1>1, <2>1 DEF Worlds
<1> QED
  BY <1>2 DEF Opened

\* A line is refused after its input has been opened: the file is closed and stdin put
\* back, but not forgotten.
LEMMA InputRefused ==
    ASSUME NEW q \in BOOLEAN, NEW e \in StdStreams, NEW o \in SUBSET Streams, NEW f \in Files \ o,
           NEW v, Clean(v, q, e, o), NEW w, w = InputFrom(v, f)
    PROVE  Clean(cexpUnredir(InputBack(w, w.std.in)), q, e, o \ {e.in})
<1> DEFINE b == InputBack(w, w.std.in)
           p == NewParser(q, e)
           c == [p EXCEPT !.o_stdin = e.in]
<1>1. w \in Worlds /\ w.std = [e EXCEPT !.in = f] /\ w.ctx = c /\ w.open = o \cup {f}
  <2>1. /\ Opened(w, q, e, o) /\ w.std = [e EXCEPT !.in = f]
        /\ w.ctx = [NewParser(q, e) EXCEPT !.o_stdin = e.in] /\ w.open = o \cup {f}
    BY InputOpened
  <2> QED
    BY <2>1 DEF Opened
<1>2. e.in \in Streams /\ e.in # None /\ f \in Streams
  BY StreamsNotNone DEF StdStreams, Streams
<1>3. p \in Contexts
  BY CleanContext
<1>4. c.o_stdin = e.in
  <2> HIDE DEF p
  <2> QED
    BY <1>3 DEF Contexts
<1>5. b.std = [w.std EXCEPT !.in = e.in] /\ b.ctx = c /\ b.open = o
  <2>1. w.std.in = f
    BY <1>1 DEF StdStreams
  <2> HIDE DEF c
  <2>2. b.std = [w.std EXCEPT !.in = w.ctx.o_stdin] /\ b.ctx = w.ctx /\ b.open = w.open \ {w.std.in}
    BY <1>1 DEF InputBack, Worlds
  <2>3. b.open = o
    BY <1>1, <2>1, <2>2
  <2> HIDE DEF b
  <2> QED
    BY <1>1, <1>4, <2>2, <2>3
<1>6. b.std = e
  <2> HIDE DEF b
  <2> QED
    BY <1>1, <1>5 DEF StdStreams
<1>7. /\ c.outf = (IF q THEN None ELSE e.out) /\ c.errf = e.err
      /\ c.o_stdout = None /\ c.o_stderr = None /\ c.o_outf = None /\ c.o_errf = None
  BY DEF NewParser, ParserCtx
<1> HIDE DEF b, c
<1>8. Before([std |-> e, ctx |-> c]) = e
  BY <1>4, <1>7 DEF Before, Either, StdStreams
<1>9. CtxBefore(c) = p
  BY <1>7 DEF CtxBefore, Either, NewParser
<1>10. ContextGood(c, q, e, e)
  BY <1>7, <1>8, <1>9 DEF ContextGood
<1>11. Closes(c, e) = {e.in}
  BY <1>2, <1>4, <1>7 DEF Closes, IfSaved
<1>12. Clean(cexpUnredir(b), q, e, b.open \ Closes(b.ctx, b.std))
  BY <1>5, <1>6, <1>10, Unredirected
<1> QED
  BY <1>5, <1>6, <1>11, <1>12 DEF b

\* All that can become of a line: it is evaluated with the streams it asked for, or the
\* parser gives up and cexpUnredir leaves what there was, save for the case in question.
LEMMA Redirections ==
    ASSUME NEW q \in BOOLEAN, NEW e \in StdStreams, NEW o \in SUBSET Streams,
           NEW v, Clean(v, q, e, o), NEW r \in Redirectors, NEW result \in cexpRedir(v, r)
    PROVE  \/ result.ok /\ Opened(result.w, q, e, o) /\ result.w.term = Terminal(result.w.std)
           \/ ~result.ok /\ Clean(cexpUnredir(result.w), q, e, o)
           \/ ~result.ok /\ r.in /\ r.out /\ Clean(cexpUnredir(result.w), q, e, o \ {e.in})
<1> DEFINE Inputs == IF r.in THEN {InputFrom(v, f) : f \in Files \ v.open} ELSE {v}
           done(x) == [ok |-> TRUE, w |-> [x EXCEPT !.term = Terminal(x.std)]]
           refused(x) == [ok |-> FALSE, w |-> IF r.in THEN InputBack(x, x.std.in) ELSE x]
<1>1. r.in \in BOOLEAN /\ r.out \in BOOLEAN /\ r.both \in BOOLEAN
  BY DEF Redirectors
<1>2. \/ result = [ok |-> TRUE, w |-> v] \/ result = [ok |-> FALSE, w |-> v]
      \/ /\ r.out /\ \E x \in Inputs : \E f \in Files \ x.open : result = done(OutputTo(x, f, r.both))
      \/ /\ r.out /\ \E x \in Inputs : result = refused(x)
      \/ \E x \in Inputs : result = done(x)
  <2> DEFINE Refused0 == (r.out /\ (v.ctx.o_stdout # None \/ v.ctx.o_stderr # None))
                            \/ (r.in /\ v.ctx.o_stdin # None)
             outs(x) == {done(OutputTo(x, f, r.both)) : f \in Files \ x.open}
             A == IF r.in THEN {[ok |-> FALSE, w |-> v]} ELSE {}
             B == UNION {outs(x) : x \in Inputs}
             C == {refused(x) : x \in Inputs}
             D == {done(x) : x \in Inputs}
  <2>1. cexpRedir(v, r) = IF ~r.in /\ ~r.out THEN {[ok |-> TRUE, w |-> v]}
                          ELSE IF Refused0 THEN {[ok |-> FALSE, w |-> v]}
                          ELSE A \cup (IF r.out THEN B \cup C ELSE D)
    BY DEF cexpRedir
  <2>2. result \in B => \E x \in Inputs : \E f \in Files \ x.open :
                           result = done(OutputTo(x, f, r.both))
    <3> HIDE DEF Inputs, done
    <3> QED
      OBVIOUS
  <2>3. result \in C => \E x \in Inputs : result = refused(x)
    <3> HIDE DEF Inputs, refused
    <3> QED
      OBVIOUS
  <2>4. result \in D => \E x \in Inputs : result = done(x)
    <3> HIDE DEF Inputs, done
    <3> QED
      OBVIOUS
  <2>5. result \in A => result = [ok |-> FALSE, w |-> v]
    OBVIOUS
  <2> HIDE DEF Inputs, done, refused, A, B, C, D, Refused0
  <2> QED
    BY <1>1, <2>1, <2>2, <2>3, <2>4, <2>5
<1>3. Opened(v, q, e, o) /\ OutputClean(v, e) /\ v.term = Terminal(v.std) /\ v.open = o
  BY CleanIsOpened DEF Clean
<1>4. Clean(cexpUnredir(v), q, e, o)
  <2>1. ContextGood(v.ctx, q, v.std, e) /\ Closes(v.ctx, v.std) = {} /\ v.open = o
    BY CleanContext DEF Clean
  <2>2. Clean(cexpUnredir(v), q, e, v.open \ Closes(v.ctx, v.std))
    BY <2>1, Unredirected
  <2> QED
    BY <2>1, <2>2
<1>5. \A x \in Inputs : Opened(x, q, e, o) /\ OutputClean(x, e)
  <2>1. ASSUME NEW f \in Files \ v.open, r.in
        PROVE  Opened(InputFrom(v, f), q, e, o) /\ OutputClean(InputFrom(v, f), e)
    <3> DEFINE w == InputFrom(v, f)
    <3>1. /\ Opened(w, q, e, o) /\ w.std = [e EXCEPT !.in = f]
          /\ w.ctx = [NewParser(q, e) EXCEPT !.o_stdin = e.in]
      BY <1>3, InputOpened
    <3> HIDE DEF w
    <3>2. w.std.out = e.out /\ w.std.err = e.err
      BY <3>1 DEF StdStreams
    <3>3. /\ w.ctx.o_stdout = None /\ w.ctx.o_stderr = None
          /\ w.ctx.o_outf = None /\ w.ctx.o_errf = None
      BY <3>1 DEF NewParser, ParserCtx
    <3> QED
      BY <3>1, <3>2, <3>3 DEF OutputClean, w
  <2> QED
    BY <1>1, <1>3, <2>1
<1>6. CASE result = [ok |-> TRUE, w |-> v]
  BY <1>3, <1>6
<1>7. CASE result = [ok |-> FALSE, w |-> v]
  BY <1>4, <1>7
<1>8. ASSUME r.out, NEW x \in Inputs, NEW f \in Files \ x.open, result = done(OutputTo(x, f, r.both))
      PROVE  result.ok /\ Opened(result.w, q, e, o) /\ result.w.term = Terminal(result.w.std)
  <2> DEFINE y == OutputTo(x, f, r.both)
  <2>1. Opened(y, q, e, o)
    BY <1>1, <1>5, OutputOpened
  <2> HIDE DEF y
  <2>2. result = done(y)
    BY <1>8 DEF y
  <2>3. result.ok /\ result.w = [y EXCEPT !.term = Terminal(y.std)]
    BY <2>2
  <2> QED
    BY <2>1, <2>3, TermTold
<1>9. ASSUME NEW x \in Inputs, result = done(x)
      PROVE  result.ok /\ Opened(result.w, q, e, o) /\ result.w.term = Terminal(result.w.std)
  <2>1. result.ok /\ result.w = [x EXCEPT !.term = Terminal(x.std)]
    BY <1>9
  <2>2. Opened(x, q, e, o)
    BY <1>5
  <2> QED
    BY <2>1, <2>2, TermTold
<1>10. ASSUME r.out, NEW x \in Inputs, result = refused(x)
       PROVE  \/ ~result.ok /\ Clean(cexpUnredir(result.w), q, e, o)
              \/ ~result.ok /\ r.in /\ r.out /\ Clean(cexpUnredir(result.w), q, e, o \ {e.in})
  <2>1. CASE r.in
    <3>1. PICK f \in Files \ o : x = InputFrom(v, f)
      BY <1>3, <2>1
    <3>2. result.w = InputBack(x, x.std.in) /\ ~result.ok
      BY <1>10, <2>1
    <3> QED
      BY <1>10, <2>1, <3>1, <3>2, InputRefused
  <2>2. CASE ~r.in
    BY <1>4, <1>10, <2>2
  <2> QED
    BY <1>1, <2>1, <2>2
<1> HIDE DEF Inputs, done, refused
<1> QED
  BY <1>2, <1>6, <1>7, <1>8, <1>9, <1>10

-----------------------------------------------------------------------------
(* Steps on the stack of instances *)

LEMMA LastOff ==
    ASSUME NEW S, NEW s \in Seq(S), s # <<>>
    PROVE  /\ Len(s) \in Nat \ {0} /\ s[Len(s)] \in S
           /\ SubSeq(s, 1, Len(s) - 1) \in Seq(S)
           /\ Len(SubSeq(s, 1, Len(s) - 1)) = Len(s) - 1
           /\ \A i \in 1..(Len(s) - 1) : SubSeq(s, 1, Len(s) - 1)[i] = s[i]
<1> DEFINE n == Len(s) - 1
           t == SubSeq(s, 1, n)
<1>1. Len(s) \in Nat /\ Len(s) # 0 /\ \A i \in 1..Len(s) : s[i] \in S
  OBVIOUS
<1>2. n \in Nat /\ \A i \in 1..n : s[i] \in S
  BY <1>1
<1> HIDE DEF n
<1>3. /\ t \in Seq(S) /\ Len(t) = (IF 1 <= n THEN n - 1 + 1 ELSE 0)
      /\ \A i \in 1..(n - 1 + 1) : t[i] = s[1 + i - 1]
  BY <1>2, SubSeqProperties
<1>4. Len(t) = n /\ \A i \in 1..n : t[i] = s[i]
  BY <1>2, <1>3
<1> QED
  BY <1>1, <1>3, <1>4 DEF n

LEMMA LastOn ==
    ASSUME NEW S, NEW s \in Seq(S), NEW x \in S
    PROVE  /\ Append(s, x) \in Seq(S) /\ Len(Append(s, x)) = Len(s) + 1
           /\ Append(s, x)[Len(s) + 1] = x
           /\ \A i \in 1..Len(s) : Append(s, x)[i] = s[i]
OBVIOUS

\* The step leaves the m outermost instances alone, the streams they have redirected
\* included; at most one is above them, before and after.
Stacked(m) ==
    /\ m \in Nat /\ Len(stack) \in {m, m + 1} /\ Len(stack') \in {m, m + 1}
    /\ stack' \in Seq(Instances)
    /\ \A i \in 1..m : stack'[i] = stack[i] /\ Held(i)' = Held(i)

LEMMA Pushed ==
    ASSUME TypeOK, NEW x \in Instances, stack' = Append(stack, x), x.entry = std
    PROVE  Stacked(Len(stack)) /\ Len(stack') = Len(stack) + 1 /\ stack'[Len(stack')] = x
<1>1. stack \in Seq(Instances)
  BY DEF TypeOK
<1>2. /\ stack' \in Seq(Instances) /\ Len(stack') = Len(stack) + 1 /\ stack'[Len(stack) + 1] = x
      /\ \A i \in 1..Len(stack) : stack'[i] = stack[i]
      /\ Len(stack) \in Nat
  BY <1>1, LastOn
<1>3. \A i \in 1..Len(stack) : Held(i)' = Held(i)
  BY <1>2 DEF Held
<1> QED
  BY <1>2, <1>3 DEF Stacked

LEMMA Replaced ==
    ASSUME TypeOK, stack # <<>>, NEW x \in Instances, stack' = Append(Callers, x),
           x.entry = Top.entry
    PROVE  Stacked(Len(stack) - 1) /\ Len(stack') = Len(stack) /\ stack'[Len(stack)] = x
<1>1. stack \in Seq(Instances)
  BY DEF TypeOK
<1>2. /\ Len(stack) \in Nat \ {0} /\ Callers \in Seq(Instances) /\ Len(Callers) = Len(stack) - 1
      /\ \A i \in 1..(Len(stack) - 1) : Callers[i] = stack[i]
  BY <1>1, LastOff DEF Callers
<1>3. /\ stack' \in Seq(Instances) /\ Len(stack') = Len(stack) /\ stack'[Len(stack)] = x
      /\ \A i \in 1..(Len(stack) - 1) : stack'[i] = stack[i]
  BY <1>2, LastOn
<1>4. \A i \in 1..(Len(stack) - 1) : Held(i)' = Held(i)
  BY <1>2, <1>3 DEF Held, Top
<1> QED
  BY <1>2, <1>3, <1>4 DEF Stacked

LEMMA Popped ==
    ASSUME TypeOK, stack # <<>>, stack' = Callers, std' = Top.entry
    PROVE  Stacked(Len(stack) - 1) /\ Len(stack') = Len(stack) - 1
<1>1. stack \in Seq(Instances)
  BY DEF TypeOK
<1>2. /\ Len(stack) \in Nat \ {0} /\ stack' \in Seq(Instances) /\ Len(stack') = Len(stack) - 1
      /\ \A i \in 1..(Len(stack) - 1) : stack'[i] = stack[i]
  BY <1>1, LastOff DEF Callers
<1>3. \A i \in 1..(Len(stack) - 1) : Held(i)' = Held(i)
  BY <1>2 DEF Held, Top
<1> QED
  BY <1>2, <1>3 DEF Stacked

LEMMA TypesKept ==
    ASSUME TypeOK, NEW m, Stacked(m),
           std' \in StdStreams, open' \subseteq Streams, lost' \subseteq Files, spoilt' \in BOOLEAN,
           term' \in {None} \cup Terminals,
           Len(stack') = m + 1 => /\ Len(stack'[m + 1].scripts) <= ST_DEPTH
                                  /\ m > 0 => stack[m].at = "eval"
    PROVE  TypeOK'
<1>1. \A i \in DOMAIN stack' : Len(stack'[i].scripts) <= ST_DEPTH
  BY DEF Stacked, TypeOK
<1>2. \A i \in DOMAIN stack' : i < Len(stack') => stack'[i].at = "eval"
  BY DEF Stacked, TypeOK
<1> QED
  BY <1>1, <1>2 DEF TypeOK, Stacked, Terminals

LEMMA SourcedBy ==
    \A x : x \in Sourced <=>
             \E i \in DOMAIN stack : \E k \in DOMAIN stack[i].scripts : x = stack[i].scripts[k]
<1>1. \A i \in DOMAIN stack : \A x :
        x \in Range(stack[i].scripts) <=> \E k \in DOMAIN stack[i].scripts : x = stack[i].scripts[k]
  BY DEF Range
<1>2. \A x : x \in Sourced <=> \E i \in DOMAIN stack : x \in Range(stack[i].scripts)
  BY DEF Sourced
<1> QED
  BY <1>1, <1>2

LEMMA SourcedByNext ==
    \A x : x \in Sourced' <=>
             \E i \in DOMAIN stack' : \E k \in DOMAIN stack'[i].scripts : x = stack'[i].scripts[k]
<1> DEFINE R(i) == {stack'[i].scripts[k] : k \in DOMAIN stack'[i].scripts}
<1>1. Sourced' = UNION {R(i) : i \in DOMAIN stack'}
  BY DEF Sourced, Range
<1>2. \A i \in DOMAIN stack' : \A x :
        x \in R(i) <=> \E k \in DOMAIN stack'[i].scripts : x = stack'[i].scripts[k]
  OBVIOUS
<1> HIDE DEF R
<1> QED
  BY <1>1, <1>2

LEMMA RedirectedBy ==
    /\ \A x : x \in Redirected <=> x \in Three(std) \/ \E i \in DOMAIN stack : x \in Three(stack[i].entry)
    /\ \A x : x \in Redirected' <=> x \in Three(std') \/ \E i \in DOMAIN stack' : x \in Three(stack'[i].entry)
BY DEF Redirected, Three

LEMMA Levels ==
    ASSUME TypeOK, NEW m, Stacked(m)
    PROVE  /\ \A i \in DOMAIN stack' : i \in 1..m \/ (i = m + 1 /\ Len(stack') = m + 1)
           /\ \A i \in 1..m : i \in DOMAIN stack /\ i \in DOMAIN stack' /\ 1..i \subseteq 1..m
           /\ Len(stack') = m + 1 => DOMAIN stack' = 1..(m + 1)
<1>1. /\ m \in Nat /\ Len(stack) \in {m, m + 1} /\ Len(stack') \in {m, m + 1}
      /\ DOMAIN stack' = 1..Len(stack') /\ Len(stack') \in Nat /\ m \in Int
  BY DEF Stacked
<1>2. DOMAIN stack = 1..Len(stack) /\ Len(stack) \in Nat
  <2>1. stack \in Seq(Instances)
    BY DEF TypeOK
  <2> QED
    BY <2>1
<1>3. \A i \in 1..m : 1..i \subseteq 1..m
  <2>1. m \in Nat
    BY <1>1
  <2> QED
    BY <2>1
<1>4. ASSUME NEW i \in DOMAIN stack'
      PROVE  i \in 1..m \/ (i = m + 1 /\ Len(stack') = m + 1)
  BY DEF Stacked
<1>5. \A i \in 1..m : i \in DOMAIN stack /\ i \in DOMAIN stack'
  <2>1. \A i \in 1..m : i \in 1..Len(stack) /\ i \in DOMAIN stack'
    BY DEF Stacked
  <2> QED
    BY <1>2, <2>1
<1> QED
  BY <1>1, <1>3, <1>4, <1>5

\* The streams of the innermost instance that the step has made or changed.
LEMMA ContextsKept ==
    ASSUME TypeOK, ContextsGood, NEW m, Stacked(m),
           Len(stack') = m + 1 =>
              LET t == stack'[m + 1] IN
              /\ ContextGood(t.parser, t.quiet, std', t.entry)
              /\ t.at = "ready" => t.parser = NewParser(t.quiet, t.entry)
    PROVE  ContextsGood'
<1> SUFFICES ASSUME NEW i \in DOMAIN stack'
             PROVE  LET t == stack'[i] IN
                    /\ ContextGood(t.parser, t.quiet, Held(i)', t.entry)
                    /\ t.at = "ready" => t.parser = NewParser(t.quiet, t.entry)
  BY DEF ContextsGood, ContextGood, Before, CtxBefore, NewParser, ParserCtx, Either
<1>1. i \in 1..m \/ (i = m + 1 /\ Len(stack') = m + 1)
  BY Levels
<1>2. CASE i \in 1..m
  <2>1. stack'[i] = stack[i] /\ Held(i)' = Held(i) /\ i \in DOMAIN stack
    BY <1>2 DEF Stacked
  <2> QED
    BY <2>1 DEF ContextsGood
<1>3. CASE i = m + 1 /\ Len(stack') = m + 1
  <2>1. Held(i)' = std'
    BY <1>3 DEF Held
  <2> QED
    BY <1>3, <2>1
<1> QED
  BY <1>1, <1>2, <1>3

LEMMA ExclusiveKept ==
    ASSUME TypeOK, Exclusive, NEW m, Stacked(m), StreamsOpen', (Redirected \cap Sourced = {})',
           Len(stack') = m + 1 =>
              /\ \A j \in 1..(m + 1) : Private(m + 1)' \cap Entries(j)' = {}
              /\ \A k \in DOMAIN stack'[m + 1].scripts :
                    \/ /\ Len(stack) = m + 1 /\ k \in DOMAIN stack[m + 1].scripts
                       /\ stack'[m + 1].scripts[k] = stack[m + 1].scripts[k]
                    \/ /\ k = Len(stack'[m + 1].scripts)
                       /\ stack'[m + 1].scripts[k] \notin Sourced
    PROVE  Exclusive'
<1>1. ASSUME NEW i \in DOMAIN stack', NEW j \in 1..i
      PROVE  Private(i)' \cap Entries(j)' = {}
  <2>1. i \in 1..m \/ (i = m + 1 /\ Len(stack') = m + 1)
    BY Levels
  <2>2. CASE i \in 1..m
    <3>1. j \in 1..m /\ i \in DOMAIN stack /\ j \in DOMAIN stack
      BY <2>2 DEF Stacked
    <3>2. stack'[i] = stack[i] /\ stack'[j] = stack[j] /\ Held(i)' = Held(i)
      BY <2>2, <3>1 DEF Stacked
    <3>3. Private(i)' = Private(i)
      BY <3>2 DEF Private
    <3>4. Entries(j)' = Entries(j)
      BY <3>2 DEF Entries
    <3> QED
      BY <3>1, <3>3, <3>4 DEF Exclusive
  <2>3. CASE i = m + 1 /\ Len(stack') = m + 1
    BY <2>3
  <2> QED
    BY <2>1, <2>2, <2>3
<1>2. ASSUME NEW i \in DOMAIN stack', NEW j \in DOMAIN stack',
             NEW k \in DOMAIN stack'[i].scripts, NEW l \in DOMAIN stack'[j].scripts,
             stack'[i].scripts[k] = stack'[j].scripts[l]
      PROVE  i = j /\ k = l
  <2> DEFINE old(a, b) == /\ a \in DOMAIN stack /\ b \in DOMAIN stack[a].scripts
                          /\ stack'[a].scripts[b] = stack[a].scripts[b]
             new(a, b) == /\ a = m + 1 /\ b = Len(stack'[m + 1].scripts)
                          /\ stack'[a].scripts[b] \notin Sourced
  <2>1. ASSUME NEW a \in DOMAIN stack', NEW b \in DOMAIN stack'[a].scripts
        PROVE  old(a, b) \/ new(a, b)
    BY DEF Stacked
  <2>2. ASSUME NEW a, NEW b, old(a, b)
        PROVE  stack'[a].scripts[b] \in Sourced
    <3> DEFINE x == stack[a].scripts[b]
    <3>1. a \in DOMAIN stack /\ b \in DOMAIN stack[a].scripts /\ stack'[a].scripts[b] = x
      BY <2>2
    <3>2. x \in Sourced
      BY <3>1, SourcedBy
    <3> QED
      BY <3>1, <3>2
  <2>5. CASE old(i, k) /\ old(j, l)
    <3>1. \A a, b \in DOMAIN stack :
             \A c \in DOMAIN stack[a].scripts, d \in DOMAIN stack[b].scripts :
                stack[a].scripts[c] = stack[b].scripts[d] => a = b /\ c = d
      BY DEF Exclusive
    <3>2. stack[i].scripts[k] = stack[j].scripts[l]
      BY <1>2, <2>5
    <3> QED
      BY <2>5, <3>1, <3>2
  <2>6. CASE new(i, k) /\ new(j, l)
    BY <2>6
  <2>7. CASE new(i, k) /\ old(j, l)
    <3> HIDE DEF old
    <3> QED
      BY <1>2, <2>2, <2>7
  <2>8. CASE old(i, k) /\ new(j, l)
    <3> HIDE DEF old
    <3> QED
      BY <1>2, <2>2, <2>8
  <2> HIDE DEF old, new
  <2>9. (old(i, k) \/ new(i, k)) /\ (old(j, l) \/ new(j, l))
    BY <2>1
  <2> QED
    BY <2>5, <2>6, <2>7, <2>8, <2>9
<1> QED
  BY <1>1, <1>2 DEF Exclusive

-----------------------------------------------------------------------------
(* The kinds of steps *)

\* An instance is called.
Calling ==
    /\ stack # <<>> => Top.at = "eval"
    /\ std' = std /\ open' = open /\ lost' = lost /\ term' = Terminal(std')
    /\ \E x \in Instances :
          /\ x.parser = NewParser(x.quiet, std) /\ x.entry = std /\ x.scripts = <<>>
          /\ x.at = "ready"
          /\ stack' = Append(stack, x)

\* A line is evaluated with the streams it has redirected.
Opening ==
    /\ stack # <<>> /\ Top.at = "ready" /\ lost' = lost
    /\ \E w : /\ Opened(w, Top.quiet, std, open)
              /\ std' = w.std /\ open' = w.open /\ term' = Terminal(w.std)
              /\ \E x \in Instances :
                    /\ x.parser = w.ctx /\ x.quiet = Top.quiet /\ x.entry = Top.entry
                    /\ x.scripts = Top.scripts /\ x.at = "eval"
                    /\ stack' = Append(Callers, x)

\* A script is opened.
Sourcing ==
    /\ stack # <<>> /\ Top.at = "ready" /\ lost' = lost
    /\ \E f \in Files \ open :
          /\ std' = std /\ open' = open \cup {f} /\ term' = Terminal(std')
          /\ Len(Top.scripts) < ST_DEPTH
          /\ \E x \in Instances :
                /\ x.parser = Top.parser /\ x.quiet = Top.quiet /\ x.entry = Top.entry
                /\ x.scripts = Append(Top.scripts, f) /\ x.at = "ready"
                /\ stack' = Append(Callers, x)

\* The streams of the innermost instance are put back; it goes on with the scripts S, or
\* returns.
Back(S) ==
    /\ std' = Top.entry
    /\ term' = IF stack' = <<>> THEN None ELSE Terminal(std')
    /\ \/ stack' = Callers /\ S = <<>>
       \/ \E x \in Instances :
             /\ x.parser = NewParser(x.quiet, x.entry) /\ x.entry = Top.entry
             /\ x.scripts = S /\ x.at = "ready"
             /\ stack' = Append(Callers, x)

\* What the innermost instance has redirected is put back: it goes on with the first
\* of its scripts, S, or returns.  The files Q are closed.
Closing(S, Q) ==
    /\ stack # <<>> /\ Back(S)
    /\ S \in Seq(Files) /\ Len(S) <= Len(Top.scripts)
    /\ \A k \in 1..Len(S) : S[k] = Top.scripts[k]
    /\ open' = (open \ Private(Len(stack))) \ Q
    /\ lost \subseteq lost' /\ lost' \subseteq Files
    /\ \A k \in (Len(S) + 1)..Len(Top.scripts) : Top.scripts[k] \in Q \cup lost'

LEMMA TopType ==
    ASSUME TypeOK, stack # <<>>
    PROVE  /\ Len(stack) \in Nat \ {0} /\ Top = stack[Len(stack)] /\ Len(stack) \in DOMAIN stack
           /\ DOMAIN stack = 1..Len(stack)
           /\ Top \in Instances /\ Len(Top.scripts) <= ST_DEPTH
           /\ \A i \in 1..(Len(stack) - 1) : stack[i].at = "eval"
           /\ Held(Len(stack)) = std
<1>1. stack \in Seq(Instances)
  BY DEF TypeOK
<1>2. /\ Len(stack) \in Nat \ {0} /\ Len(stack) \in DOMAIN stack /\ DOMAIN stack = 1..Len(stack)
      /\ stack[Len(stack)] \in Instances
  BY <1>1
<1>3. /\ Len(stack[Len(stack)].scripts) <= ST_DEPTH
      /\ \A i \in 1..(Len(stack) - 1) : stack[i].at = "eval"
  BY <1>2 DEF TypeOK
<1> QED
  BY <1>2, <1>3 DEF Top, Held

LEMMA InstanceTypes ==
    ASSUME NEW x \in Instances
    PROVE  /\ x.parser \in Contexts /\ x.quiet \in BOOLEAN /\ x.become_interactive \in BOOLEAN
           /\ x.mode \in {"script", "line", "prompt"} /\ x.at \in {"ready", "eval"}
           /\ x.scripts \in Seq(Files) /\ x.entry \in StdStreams
BY DEF Instances

\* An instance between two lines has not redirected anything.
LEMMA ReadyClean ==
    ASSUME TypeOK, ContextsGood, stack # <<>>, Top.at = "ready"
    PROVE  /\ std = Top.entry /\ Top.parser = NewParser(Top.quiet, Top.entry)
           /\ Private(Len(stack)) = {}
<1>1. Top = stack[Len(stack)] /\ Len(stack) \in DOMAIN stack /\ Held(Len(stack)) = std
  BY TopType
<1>2. /\ Top.quiet \in BOOLEAN /\ Top.entry \in StdStreams /\ std \in StdStreams
  BY TopType, InstanceTypes DEF TypeOK
<1>3. /\ ContextGood(Top.parser, Top.quiet, std, Top.entry)
      /\ Top.parser = NewParser(Top.quiet, Top.entry)
  BY <1>1 DEF ContextsGood
<1>4. std = Top.entry
  BY <1>2, <1>3, CleanStreams
<1>5. Private(Len(stack)) = Closes(Top.parser, std)
  BY <1>1 DEF Private, Closes
<1> QED
  BY <1>2, <1>3, <1>4, <1>5, CleanContext

LEMMA ClosingShape ==
    ASSUME TypeOK, NEW STATE S, NEW STATE Q, Closing(S, Q), NEW m, m = Len(stack) - 1
    PROVE  /\ Stacked(m) /\ m \in Nat /\ Len(stack) = m + 1 /\ DOMAIN stack = 1..(m + 1)
           /\ Top = stack[m + 1] /\ Top \in Instances /\ Top.entry \in StdStreams
           /\ Held(m + 1) = std
           /\ Len(stack') = m + 1 => /\ stack'[m + 1] \in Instances
                                     /\ stack'[m + 1].scripts = S
                                     /\ stack'[m + 1].at = "ready"
                                     /\ stack'[m + 1].entry = Top.entry
                                     /\ stack'[m + 1].parser
                                          = NewParser(stack'[m + 1].quiet, Top.entry)
           /\ S = <<>> \/ Len(stack') = m + 1
<1>1. stack # <<>> /\ std' = Top.entry
  BY DEF Closing, Back
<1>2. /\ m \in Nat /\ Len(stack) = m + 1 /\ Top = stack[m + 1] /\ Top \in Instances
      /\ Held(m + 1) = std /\ DOMAIN stack = 1..(m + 1)
  <2>1. m + 1 = Len(stack) /\ m \in Nat
    BY <1>1, TopType
  <2> QED
    BY <1>1, <2>1, TopType
<1>3. Top.entry \in StdStreams
  BY <1>2, InstanceTypes
<1>4. /\ Stacked(m) /\ (Len(stack') = m + 1 => /\ stack'[m + 1] \in Instances
                                                /\ stack'[m + 1].scripts = S
                                                /\ stack'[m + 1].at = "ready"
                                                /\ stack'[m + 1].entry = Top.entry
                                                /\ stack'[m + 1].parser
                                                     = NewParser(stack'[m + 1].quiet, Top.entry))
      /\ S = <<>> \/ Len(stack') = m + 1
  <2>1. CASE stack' = Callers /\ S = <<>>
    BY <1>1, <1>2, <2>1, Popped
  <2>2. CASE stack' # Callers \/ S # <<>>
    <3>1. PICK x \in Instances : /\ x.parser = NewParser(x.quiet, x.entry) /\ x.entry = Top.entry
                                 /\ x.scripts = S /\ x.at = "ready"
                                 /\ stack' = Append(Callers, x)
      BY <2>2 DEF Closing, Back
    <3>2. Stacked(m) /\ Len(stack') = m + 1 /\ stack'[m + 1] = x
      BY <1>1, <1>2, <3>1, Replaced
    <3> QED
      BY <3>1, <3>2
  <2> QED
    BY <2>1, <2>2
<1> QED
  BY <1>2, <1>3, <1>4

LEMMA ClosingKeeps ==
    ASSUME TypeOK, ContextsGood, FilesAccounted, NEW STATE S, NEW STATE Q, Closing(S, Q),
           spoilt' \in BOOLEAN
    PROVE  TypeOK' /\ EditorFollows' /\ ContextsGood' /\ FilesAccounted'
<1> PICK m : m = Len(stack) - 1
  OBVIOUS
<1>1. /\ stack # <<>> /\ std' = Top.entry /\ open' \subseteq open /\ lost' \subseteq Files
      /\ lost \subseteq lost'
  BY DEF Closing, Back
<1>2. /\ m \in Nat /\ Len(stack) = m + 1 /\ Top = stack[m + 1] /\ Top \in Instances
      /\ Len(Top.scripts) <= ST_DEPTH /\ Held(m + 1) = std
      /\ \A i \in 1..m : stack[i].at = "eval"
      /\ DOMAIN stack = 1..(m + 1)
  BY <1>1, TopType
<1>3. Top.entry \in StdStreams /\ std' \in StdStreams /\ Top.quiet \in BOOLEAN
  BY <1>1, <1>2, InstanceTypes
<1>4. /\ Stacked(m) /\ (Len(stack') = m + 1 => /\ stack'[m + 1] \in Instances
                                                /\ stack'[m + 1].scripts = S
                                                /\ stack'[m + 1].at = "ready"
                                                /\ stack'[m + 1].entry = Top.entry
                                                /\ stack'[m + 1].parser
                                                     = NewParser(stack'[m + 1].quiet, Top.entry))
      /\ S = <<>> \/ Len(stack') = m + 1
  BY ClosingShape
<1>5. TypeOK'
  <2>1. term' \in {None} \cup Terminals
    BY <1>3, TerminalType DEF Closing, Back
  <2>2. Len(stack') = m + 1 => Len(stack'[m + 1].scripts) <= ST_DEPTH
    <3>1. Len(S) <= Len(Top.scripts) /\ Len(S) \in Nat /\ Len(Top.scripts) \in Nat
      BY <1>2, InstanceTypes DEF Closing, Back
    <3> QED
      BY <1>2, <1>4, <3>1, DepthsOK
  <2>3. open' \subseteq Streams
    BY <1>1 DEF TypeOK
  <2> QED
    BY <1>1, <1>2, <1>3, <1>4, <2>1, <2>2, <2>3, TypesKept
<1>6. EditorFollows'
  BY DEF Closing, Back, EditorFollows, Terminal
<1>7. ContextsGood'
  <2>1. Len(stack') = m + 1 => ContextGood(stack'[m + 1].parser, stack'[m + 1].quiet, std', Top.entry)
    BY <1>1, <1>3, <1>4, CleanContext, InstanceTypes
  <2> QED
    BY <1>4, <2>1, ContextsKept
<1>8. FilesAccounted'
  <2> SUFFICES ASSUME NEW f \in open', f \in Files
               PROVE  f \in Redirected' \/ f \in Sourced' \/ f \in lost'
    BY DEF FilesAccounted
  <2>1. \A i \in 1..m : i \in DOMAIN stack' /\ stack'[i] = stack[i]
    BY <1>4, Levels DEF Stacked
  <2>2. CASE f \in Three(std)
    <3>1. ContextGood(Top.parser, Top.quiet, std, Top.entry)
      BY <1>2 DEF ContextsGood
    <3>2. f \notin Closes(Top.parser, std)
      BY <1>2 DEF Closing, Back, Private, Closes
    <3>3. f \in Three(std')
      BY <1>1, <1>3, <2>2, <3>1, <3>2, OwnStreams
    <3> QED
      BY <3>3, RedirectedBy
  <2>3. ASSUME NEW i \in DOMAIN stack, f \in Three(stack[i].entry)
        PROVE  f \in Redirected'
    <3>1. CASE i \in 1..m
      BY <2>1, <2>3, <3>1, RedirectedBy
    <3>2. CASE i = m + 1
      BY <1>1, <1>2, <2>3, <3>2, RedirectedBy
    <3> QED
      BY <1>2, <3>1, <3>2
  <2>4. ASSUME NEW i \in DOMAIN stack, NEW k \in DOMAIN stack[i].scripts, f = stack[i].scripts[k]
        PROVE  f \in Sourced' \/ f \in lost'
    <3>1. CASE i \in 1..m
      BY <2>1, <2>4, <3>1, SourcedByNext
    <3>2. CASE i = m + 1
      <4>1. /\ S \in Seq(Files) /\ Top.scripts \in Seq(Files) /\ Len(S) <= Len(Top.scripts)
            /\ k \in DOMAIN Top.scripts /\ f = Top.scripts[k]
        BY <1>2, <2>4, <3>2, InstanceTypes DEF Closing, Back
      <4>2. k \in 1..Len(S) \/ k \in (Len(S) + 1)..Len(Top.scripts)
        BY <4>1
      <4>3. CASE k \in 1..Len(S)
        <5>1. S[k] = f /\ k \in DOMAIN S /\ S # <<>>
          BY <4>1, <4>3 DEF Closing, Back
        <5>2. Len(stack') = m + 1 /\ stack'[m + 1].scripts = S /\ m + 1 \in DOMAIN stack'
          BY <1>4, <5>1, Levels
        <5> QED
          BY <5>1, <5>2, SourcedByNext
      <4>4. CASE k \in (Len(S) + 1)..Len(Top.scripts)
        BY <4>1, <4>4 DEF Closing, Back
      <4> QED
        BY <4>2, <4>3, <4>4
    <3> QED
      BY <1>2, <3>1, <3>2
  <2>5. f \in open
    BY <1>1
  <2>6. f \in Redirected \/ f \in Sourced \/ f \in lost
    BY <2>5 DEF FilesAccounted
  <2> QED
    BY <1>1, <2>2, <2>3, <2>4, <2>6, RedirectedBy, SourcedBy
<1> QED
  BY <1>5, <1>6, <1>7, <1>8

LEMMA ClosingExclusive ==
    ASSUME TypeOK, ContextsGood, Exclusive, NEW STATE S, NEW STATE Q, Closing(S, Q),
           \A f \in Q : \E k \in (Len(S) + 1)..Len(Top.scripts) : f = Top.scripts[k]
    PROVE  Exclusive'
<1> PICK m : m = Len(stack) - 1
  OBVIOUS
<1>1. /\ Stacked(m) /\ m \in Nat /\ Len(stack) = m + 1 /\ DOMAIN stack = 1..(m + 1)
      /\ Top = stack[m + 1] /\ Top \in Instances /\ Top.entry \in StdStreams
      /\ Held(m + 1) = std
  BY ClosingShape
<1>2. /\ Len(stack') = m + 1 => /\ stack'[m + 1] \in Instances
                                /\ stack'[m + 1].scripts = S
                                /\ stack'[m + 1].entry = Top.entry
                                /\ stack'[m + 1].parser
                                     = NewParser(stack'[m + 1].quiet, Top.entry)
      /\ S = <<>> \/ Len(stack') = m + 1
  BY ClosingShape
<1>3. /\ std' = Top.entry /\ open' = (open \ Private(m + 1)) \ Q
      /\ S \in Seq(Files) /\ Len(S) <= Len(Top.scripts) /\ Top.scripts \in Seq(Files)
      /\ \A k \in 1..Len(S) : S[k] = Top.scripts[k]
  BY <1>1, InstanceTypes DEF Closing, Back
<1>4. \A i \in 1..m : i \in DOMAIN stack /\ i \in DOMAIN stack' /\ stack'[i] = stack[i]
  BY <1>1, Levels DEF Stacked
<1>5. \A i \in DOMAIN stack' : i \in 1..m \/ (i = m + 1 /\ Len(stack') = m + 1)
  BY <1>1, Levels
<1>6. ASSUME NEW f \in Redirected'
      PROVE  f \in Redirected /\ f \notin Private(m + 1)
  <2>1. PICK i \in DOMAIN stack : f \in Three(stack[i].entry)
    <3>1. m + 1 \in DOMAIN stack /\ stack[m + 1].entry = std'
      BY <1>1, <1>3
    <3>2. CASE f \in Three(std')
      BY <3>1, <3>2
    <3>3. ASSUME NEW i \in DOMAIN stack', f \in Three(stack'[i].entry)
          PROVE  \E j \in DOMAIN stack : f \in Three(stack[j].entry)
      <4>1. CASE i \in 1..m
        BY <1>4, <3>3, <4>1
      <4>2. CASE i = m + 1 /\ Len(stack') = m + 1
        BY <1>1, <1>2, <3>1, <3>3, <4>2
      <4> QED
        BY <1>5, <4>1, <4>2
    <3> QED
      BY <3>2, <3>3, RedirectedBy
  <2>2. i \in 1..(m + 1) /\ m + 1 \in DOMAIN stack
    BY <1>1
  <2>3. f \notin Private(m + 1)
    BY <2>1, <2>2 DEF Exclusive, Entries, Three
  <2> QED
    BY <2>1, <2>3, RedirectedBy
<1>7. ASSUME NEW f \in Sourced'
      PROVE  f \in Sourced /\ f \notin Q
  <2>1. PICK i \in DOMAIN stack' : \E k \in DOMAIN stack'[i].scripts : f = stack'[i].scripts[k]
    BY SourcedByNext
  <2>2. PICK k \in DOMAIN stack'[i].scripts : f = stack'[i].scripts[k]
    BY <2>1
  <2>3. /\ i \in DOMAIN stack /\ k \in DOMAIN stack[i].scripts /\ f = stack[i].scripts[k]
        /\ i = m + 1 => k \in 1..Len(S)
    <3>1. CASE i \in 1..m
      BY <1>1, <1>4, <2>2, <3>1
    <3>2. CASE i = m + 1 /\ Len(stack') = m + 1
      <4>1. k \in 1..Len(S) /\ f = S[k]
        BY <1>2, <1>3, <2>2, <3>2
      <4>2. k \in DOMAIN Top.scripts /\ f = Top.scripts[k]
        BY <1>3, <4>1
      <4> QED
        BY <1>1, <3>2, <4>1, <4>2
    <3> QED
      BY <1>5, <3>1, <3>2
  <2>4. f \in Sourced
    BY <2>3, SourcedBy
  <2>5. ASSUME f \in Q
        PROVE  FALSE
    <3>1. PICK l \in (Len(S) + 1)..Len(Top.scripts) : f = Top.scripts[l]
      BY <2>5
    <3>2. l \in DOMAIN stack[m + 1].scripts /\ m + 1 \in DOMAIN stack /\ f = stack[m + 1].scripts[l]
      BY <1>1, <1>3, <3>1
    <3>3. \A a, b \in DOMAIN stack :
             \A c \in DOMAIN stack[a].scripts, d \in DOMAIN stack[b].scripts :
                stack[a].scripts[c] = stack[b].scripts[d] => a = b /\ c = d
      BY DEF Exclusive
    <3>4. i = m + 1 /\ k = l
      <4> DEFINE a == m + 1
      <4>1. /\ i \in DOMAIN stack /\ k \in DOMAIN stack[i].scripts
            /\ a \in DOMAIN stack /\ l \in DOMAIN stack[a].scripts
            /\ stack[i].scripts[k] = stack[a].scripts[l]
        BY <2>3, <3>2
      <4> HIDE DEF a
      <4>2. i = a /\ k = l
        BY <3>3, <4>1
      <4> QED
        BY <4>2 DEF a
    <3> QED
      BY <1>3, <2>3, <3>1, <3>4
  <2> QED
    BY <2>4, <2>5
<1>8. StreamsOpen' /\ (Redirected \cap Sourced = {})'
  <2>1. Redirected \subseteq open /\ Sourced \subseteq open /\ Redirected \cap Sourced = {}
    BY DEF Exclusive, StreamsOpen
  <2>2. Q \subseteq Sourced
    BY <1>1, <1>3, SourcedBy
  <2>3. Private(m + 1) \subseteq Redirected
    BY <1>1, RedirectedBy DEF Private, IfSaved, Three
  <2>4. (Redirected' \cup Sourced') \subseteq open'
    BY <1>3, <1>6, <1>7, <2>1, <2>2, <2>3
  <2> QED
    BY <1>6, <1>7, <2>1, <2>4 DEF StreamsOpen
<1>9. ASSUME Len(stack') = m + 1
      PROVE  /\ \A j \in 1..(m + 1) : Private(m + 1)' \cap Entries(j)' = {}
             /\ \A k \in DOMAIN stack'[m + 1].scripts :
                   /\ Len(stack) = m + 1 /\ k \in DOMAIN stack[m + 1].scripts
                   /\ stack'[m + 1].scripts[k] = stack[m + 1].scripts[k]
  <2>1. /\ stack'[m + 1].parser.o_stdout = None /\ stack'[m + 1].parser.o_stdin = None
    BY <1>2, <1>9 DEF NewParser, ParserCtx
  <2>2. Private(m + 1)' = {}
    BY <2>1 DEF Private, IfSaved
  <2>3. \A k \in DOMAIN S : k \in DOMAIN Top.scripts /\ S[k] = Top.scripts[k]
    BY <1>3
  <2> QED
    BY <1>1, <1>2, <1>9, <2>2, <2>3
<1> QED
  BY <1>1, <1>8, <1>9, ExclusiveKept

Reading(t) == {t.scripts[k] : k \in DOMAIN t.scripts}

LEMMA ReadingNext ==
    /\ \A x : x \in Sourced <=> \E i \in DOMAIN stack : x \in Reading(stack[i])
    /\ \A x : x \in Sourced' <=> \E i \in DOMAIN stack' : x \in Reading(stack'[i])
<1>1. \A x : x \in Sourced <=> \E i \in DOMAIN stack : x \in Reading(stack[i])
  BY SourcedBy DEF Reading
<1>2. \A x : x \in Sourced' <=> \E i \in DOMAIN stack' : x \in Reading(stack'[i])
  BY SourcedByNext DEF Reading
<1> QED
  BY <1>1, <1>2

\* The innermost instance is replaced, or has been called: what there is to account for.
LEMMA StreamsNext ==
    ASSUME TypeOK, NEW m, Stacked(m), Len(stack') = m + 1
    PROVE  /\ \A x : x \in Redirected' <=>
                        \/ x \in Three(std') \/ x \in Three(stack'[m + 1].entry)
                        \/ \E i \in 1..m : x \in Three(stack[i].entry)
           /\ \A x : x \in Redirected <=>
                        \/ x \in Three(std)
                        \/ Len(stack) = m + 1 /\ x \in Three(stack[m + 1].entry)
                        \/ \E i \in 1..m : x \in Three(stack[i].entry)
           /\ \A x : x \in Sourced' <=>
                        \/ x \in Reading(stack'[m + 1])
                        \/ \E i \in 1..m : x \in Reading(stack[i])
           /\ \A x : x \in Sourced <=>
                        \/ Len(stack) = m + 1 /\ x \in Reading(stack[m + 1])
                        \/ \E i \in 1..m : x \in Reading(stack[i])
<1>1. \A i : i \in DOMAIN stack' <=> i = m + 1 \/ i \in 1..m
  <2>1. m \in Nat /\ DOMAIN stack' = 1..(m + 1)
    BY Levels DEF Stacked
  <2> QED
    BY <2>1
<1>2. \A i \in 1..m : stack'[i] = stack[i]
  BY DEF Stacked
<1>3. \A i : i \in DOMAIN stack <=> (i = m + 1 /\ Len(stack) = m + 1) \/ i \in 1..m
  <2>1. stack \in Seq(Instances)
    BY DEF TypeOK
  <2>2. DOMAIN stack = 1..Len(stack) /\ Len(stack) \in Nat
    BY <2>1
  <2>3. m \in Nat /\ (Len(stack) = m \/ Len(stack) = m + 1)
    BY DEF Stacked
  <2>4. CASE Len(stack) = m
    BY <2>2, <2>3, <2>4
  <2>5. CASE Len(stack) = m + 1
    <3>1. DOMAIN stack = 1..(m + 1)
      BY <2>2, <2>5
    <3>2. \A i : i \in 1..(m + 1) <=> i = m + 1 \/ i \in 1..m
      BY <2>3
    <3> QED
      BY <2>5, <3>1, <3>2
  <2> QED
    BY <2>3, <2>4, <2>5
<1>4. \A x : x \in Redirected' <=>
                \/ x \in Three(std') \/ x \in Three(stack'[m + 1].entry)
                \/ \E i \in 1..m : x \in Three(stack[i].entry)
  BY <1>1, <1>2, RedirectedBy
<1>5. \A x : x \in Redirected <=>
                \/ x \in Three(std)
                \/ Len(stack) = m + 1 /\ x \in Three(stack[m + 1].entry)
                \/ \E i \in 1..m : x \in Three(stack[i].entry)
  BY <1>3, RedirectedBy
<1>6. \A x : x \in Sourced' <=>
                \/ x \in Reading(stack'[m + 1])
                \/ \E i \in 1..m : x \in Reading(stack[i])
  BY <1>1, <1>2, ReadingNext
<1>7. \A x : x \in Sourced <=>
                \/ Len(stack) = m + 1 /\ x \in Reading(stack[m + 1])
                \/ \E i \in 1..m : x \in Reading(stack[i])
  BY <1>3, ReadingNext
<1> QED
  BY <1>4, <1>5, <1>6, <1>7

LEMMA CallingKeeps ==
    ASSUME TypeOK, ContextsGood, FilesAccounted, Calling, spoilt' \in BOOLEAN
    PROVE  TypeOK' /\ EditorFollows' /\ ContextsGood' /\ FilesAccounted' /\ (Exclusive => Exclusive')
<1> PICK m : m = Len(stack)
  OBVIOUS
<1> PICK x \in Instances :
        /\ x.parser = NewParser(x.quiet, std) /\ x.entry = std /\ x.scripts = <<>>
        /\ x.at = "ready" /\ stack' = Append(stack, x)
  BY DEF Calling
<1>1. Stacked(m) /\ Len(stack') = m + 1 /\ stack'[m + 1] = x
  BY Pushed
<1>2. /\ std' = std /\ open' = open /\ lost' = lost /\ term' = Terminal(std)
      /\ std \in StdStreams /\ m \in Nat
  BY <1>1 DEF Calling, TypeOK, Stacked
<1>3. TypeOK'
  <2>1. term' \in {None} \cup Terminals
    BY <1>2, TerminalType
  <2>2. Len(x.scripts) <= ST_DEPTH
    <3>1. Len(x.scripts) = 0
      OBVIOUS
    <3> QED
      BY <3>1, DepthsOK
  <2>3. m > 0 => stack[m].at = "eval"
    BY <1>2 DEF Calling, Top
  <2>4. open' \subseteq Streams /\ lost' \subseteq Files
    BY <1>2 DEF TypeOK
  <2> QED
    BY <1>1, <1>2, <2>1, <2>2, <2>3, <2>4, TypesKept
<1>4. EditorFollows'
  <2>1. stack' # <<>>
    BY <1>1, <1>2
  <2> QED
    BY <1>2, <2>1 DEF EditorFollows, Terminal
<1>5. ContextsGood'
  <2>1. x.quiet \in BOOLEAN
    BY InstanceTypes
  <2>2. ContextGood(x.parser, x.quiet, std', x.entry)
    BY <1>2, <2>1, CleanContext
  <2> QED
    BY <1>1, <2>2, ContextsKept
<1>6. (\A f : f \in Redirected' <=> f \in Redirected) /\ (\A f : f \in Sourced' <=> f \in Sourced)
  <2>1. Len(stack) # m + 1
    BY <1>2
  <2>2. Reading(x) = {}
    BY DEF Reading
  <2> QED
    BY <1>1, <1>2, <2>1, <2>2, StreamsNext
<1>7. FilesAccounted'
  BY <1>2, <1>6 DEF FilesAccounted
<1>8. ASSUME Exclusive
      PROVE  Exclusive'
  <2>1. StreamsOpen' /\ (Redirected \cap Sourced = {})'
    BY <1>2, <1>6, <1>8 DEF Exclusive, StreamsOpen
  <2>2. Private(m + 1)' = {}
    BY <1>1 DEF Private, NewParser, ParserCtx, IfSaved
  <2>3. DOMAIN x.scripts = {}
    OBVIOUS
  <2> QED
    BY <1>1, <1>8, <2>1, <2>2, <2>3, ExclusiveKept
<1> QED
  BY <1>3, <1>4, <1>5, <1>7, <1>8

LEMMA SourcingKeeps ==
    ASSUME TypeOK, EditorFollows, ContextsGood, FilesAccounted, Sourcing, spoilt' \in BOOLEAN
    PROVE  TypeOK' /\ EditorFollows' /\ ContextsGood' /\ FilesAccounted' /\ (Exclusive => Exclusive')
<1> PICK m : m = Len(stack) - 1
  OBVIOUS
<1> PICK f \in Files \ open : 
        /\ std' = std /\ open' = open \cup {f} /\ term' = Terminal(std')
        /\ Len(Top.scripts) < ST_DEPTH
        /\ \E x \in Instances :
              /\ x.parser = Top.parser /\ x.quiet = Top.quiet /\ x.entry = Top.entry
              /\ x.scripts = Append(Top.scripts, f) /\ x.at = "ready"
              /\ stack' = Append(Callers, x)
  BY DEF Sourcing
<1> PICK x \in Instances :
        /\ x.parser = Top.parser /\ x.quiet = Top.quiet /\ x.entry = Top.entry
        /\ x.scripts = Append(Top.scripts, f) /\ x.at = "ready"
        /\ stack' = Append(Callers, x)
  OBVIOUS
<1>1. /\ stack # <<>> /\ std' = std /\ open' = open \cup {f} /\ term' = Terminal(std')
      /\ lost' = lost /\ std \in StdStreams /\ Top.at = "ready"
  BY DEF Sourcing, TypeOK
<1>2. /\ m \in Nat /\ Len(stack) = m + 1 /\ m + 1 \in DOMAIN stack /\ Top = stack[m + 1]
      /\ Top \in Instances /\ Held(m + 1) = std
      /\ \A i \in 1..m : stack[i].at = "eval"
  BY <1>1, TopType
<1>3. Stacked(m) /\ Len(stack') = m + 1 /\ stack'[m + 1] = x
  BY <1>1, <1>2, Replaced
<1>4. /\ Top.scripts \in Seq(Files) /\ Len(x.scripts) = Len(Top.scripts) + 1
      /\ x.scripts[Len(Top.scripts) + 1] = f
      /\ \A k \in 1..Len(Top.scripts) : x.scripts[k] = Top.scripts[k]
      /\ DOMAIN x.scripts = 1..(Len(Top.scripts) + 1)
      /\ DOMAIN Top.scripts = 1..Len(Top.scripts) /\ Len(Top.scripts) \in Nat
  BY <1>2, InstanceTypes
<1>5. TypeOK'
  <2>1. term' \in {None} \cup Terminals
    BY <1>1, TerminalType
  <2>2. Len(x.scripts) <= ST_DEPTH
    BY <1>4, DepthsOK
  <2>3. m > 0 => stack[m].at = "eval"
    BY <1>2
  <2>4. open' \subseteq Streams /\ lost' \subseteq Files
    BY <1>1 DEF TypeOK, Streams
  <2> QED
    BY <1>1, <1>3, <2>1, <2>2, <2>3, <2>4, TypesKept
<1>6. EditorFollows'
  <2>1. stack' # <<>>
    BY <1>2, <1>3
  <2> QED
    BY <1>1, <2>1 DEF EditorFollows, Terminal
<1>7. ContextsGood'
  <2>1. ContextGood(x.parser, x.quiet, std', x.entry) /\ x.parser = NewParser(x.quiet, x.entry)
    BY <1>1, <1>2 DEF ContextsGood
  <2> QED
    BY <1>3, <2>1, ContextsKept
<1>8. \A g : g \in Redirected' <=> g \in Redirected
  BY <1>1, <1>2, <1>3, StreamsNext
<1>9. \A g : g \in Sourced' <=> g \in Sourced \/ g = f
  <2>1. \A g : g \in Reading(x) <=> g \in Reading(Top) \/ g = f
    <3>1. \A k : k \in DOMAIN x.scripts <=> k \in DOMAIN Top.scripts \/ k = Len(Top.scripts) + 1
      BY <1>4
    <3> QED
      BY <1>4, <3>1 DEF Reading
  <2>2. \A g : g \in Sourced' <=> g \in Reading(x) \/ \E i \in 1..m : g \in Reading(stack[i])
    BY <1>3, StreamsNext
  <2>3. \A g : g \in Sourced <=> g \in Reading(Top) \/ \E i \in 1..m : g \in Reading(stack[i])
    BY <1>2, <1>3, StreamsNext
  <2> QED
    BY <2>1, <2>2, <2>3
<1>10. FilesAccounted'
  BY <1>1, <1>8, <1>9 DEF FilesAccounted
<1>11. ASSUME Exclusive
       PROVE  Exclusive'
  <2>1. /\ Redirected \subseteq open /\ Sourced \subseteq open /\ Redirected \cap Sourced = {}
        /\ \A j \in 1..(m + 1) : Private(m + 1) \cap Entries(j) = {}
    BY <1>2, <1>11 DEF Exclusive, StreamsOpen
  <2>2. StreamsOpen' /\ (Redirected \cap Sourced = {})'
    BY <1>1, <1>8, <1>9, <2>1 DEF StreamsOpen
  <2>3. Private(m + 1)' = Private(m + 1)
    <3>1. Held(m + 1)' = std'
      BY <1>3 DEF Held
    <3> QED
      BY <1>1, <1>2, <1>3, <3>1 DEF Private
  <2>4. ASSUME NEW j \in 1..(m + 1)
        PROVE  Entries(j)' = Entries(j)
    <3>1. stack'[j].entry = stack[j].entry
      BY <1>2, <1>3 DEF Stacked
    <3> QED
      BY <3>1 DEF Entries
  <2>5. ASSUME NEW k \in DOMAIN x.scripts
        PROVE  \/ k \in DOMAIN stack[m + 1].scripts /\ x.scripts[k] = stack[m + 1].scripts[k]
               \/ k = Len(x.scripts) /\ x.scripts[k] \notin Sourced
    BY <1>2, <1>4, <2>1
  <2> QED
    BY <1>2, <1>3, <1>11, <2>1, <2>2, <2>3, <2>4, <2>5, ExclusiveKept
<1> QED
  BY <1>5, <1>6, <1>7, <1>10, <1>11

LEMMA OpeningKeeps ==
    ASSUME TypeOK, EditorFollows, ContextsGood, FilesAccounted, Opening, spoilt' \in BOOLEAN
    PROVE  TypeOK' /\ EditorFollows' /\ ContextsGood' /\ FilesAccounted' /\ (Exclusive => Exclusive')
<1> PICK m : m = Len(stack) - 1
  OBVIOUS
<1> PICK w :
        /\ Opened(w, Top.quiet, std, open)
        /\ std' = w.std /\ open' = w.open /\ term' = Terminal(w.std)
        /\ \E x \in Instances :
              /\ x.parser = w.ctx /\ x.quiet = Top.quiet /\ x.entry = Top.entry
              /\ x.scripts = Top.scripts /\ x.at = "eval"
              /\ stack' = Append(Callers, x)
  BY DEF Opening
<1> PICK x \in Instances :
        /\ x.parser = w.ctx /\ x.quiet = Top.quiet /\ x.entry = Top.entry
        /\ x.scripts = Top.scripts /\ x.at = "eval"
        /\ stack' = Append(Callers, x)
  OBVIOUS
<1> DEFINE P == Closes(w.ctx, w.std)
<1>1. /\ stack # <<>> /\ Top.at = "ready" /\ lost' = lost
      /\ std' = w.std /\ term' = Terminal(w.std) /\ w.std \in StdStreams
      /\ std = Top.entry /\ std \in StdStreams
  BY ReadyClean DEF Opening, Opened, Worlds, TypeOK
<1>2. /\ m \in Nat /\ Len(stack) = m + 1 /\ m + 1 \in DOMAIN stack /\ Top = stack[m + 1]
      /\ Top \in Instances /\ Len(Top.scripts) <= ST_DEPTH
      /\ \A i \in 1..m : stack[i].at = "eval"
  BY <1>1, TopType
<1>3. Stacked(m) /\ Len(stack') = m + 1 /\ stack'[m + 1] = x
  BY <1>1, <1>2, Replaced
<1>4. /\ ContextGood(w.ctx, Top.quiet, w.std, std)
      /\ open' = open \cup P /\ P \subseteq Files /\ P \cap open = {}
  BY DEF Opened
<1>5. Three(w.std) \subseteq Three(std) \cup P /\ P \subseteq Three(w.std)
  BY <1>1, <1>4, OwnStreams
<1>6. TypeOK'
  <2>1. term' \in {None} \cup Terminals
    BY <1>1, TerminalType
  <2>2. open' \subseteq Streams /\ lost' \subseteq Files
    BY <1>1, <1>4 DEF TypeOK, Streams
  <2> QED
    BY <1>1, <1>2, <1>3, <2>1, <2>2, TypesKept
<1>7. EditorFollows'
  <2>1. stack' # <<>>
    BY <1>2, <1>3
  <2> QED
    BY <1>1, <2>1 DEF EditorFollows, Terminal
<1>8. ContextsGood'
  <2>1. ContextGood(x.parser, x.quiet, std', x.entry) /\ x.at # "ready"
    BY <1>1, <1>4
  <2> QED
    BY <1>3, <2>1, ContextsKept
<1> HIDE DEF P
<1>9. \A g : g \in Redirected' <=> g \in Redirected \/ g \in P
  <2> DEFINE B(g) == \E i \in 1..m : g \in Three(stack[i].entry)
  <2>1. \A g : g \in Redirected' <=> g \in Three(w.std) \/ g \in Three(std) \/ B(g)
    BY <1>1, <1>3, StreamsNext
  <2>2. \A g : g \in Redirected <=> g \in Three(std) \/ B(g)
    BY <1>1, <1>2, <1>3, StreamsNext
  <2> HIDE DEF B
  <2> QED
    BY <1>5, <2>1, <2>2
<1>10. \A g : g \in Sourced' <=> g \in Sourced
  <2>1. \A g : g \in Sourced' <=> g \in Reading(x) \/ \E i \in 1..m : g \in Reading(stack[i])
    BY <1>3, StreamsNext
  <2>2. \A g : g \in Sourced <=> g \in Reading(Top) \/ \E i \in 1..m : g \in Reading(stack[i])
    BY <1>2, <1>3, StreamsNext
  <2>3. Reading(x) = Reading(Top)
    BY DEF Reading
  <2> QED
    BY <2>1, <2>2, <2>3
<1>11. FilesAccounted'
  BY <1>1, <1>4, <1>9, <1>10 DEF FilesAccounted
<1>12. ASSUME Exclusive
       PROVE  Exclusive'
  <2>1. Redirected \subseteq open /\ Sourced \subseteq open /\ Redirected \cap Sourced = {}
    BY <1>12 DEF Exclusive, StreamsOpen
  <2>2. StreamsOpen' /\ (Redirected \cap Sourced = {})'
    BY <1>4, <1>9, <1>10, <2>1 DEF StreamsOpen
  <2>3. Private(m + 1)' = P
    <3>1. Held(m + 1)' = std'
      BY <1>3 DEF Held
    <3> QED
      BY <1>1, <1>3, <3>1 DEF Private, P, Closes
  <2>4. ASSUME NEW j \in 1..(m + 1)
        PROVE  Entries(j)' \subseteq open
    <3>1. stack'[j].entry = stack[j].entry /\ j \in DOMAIN stack
      BY <1>2, <1>3, TopType DEF Stacked
    <3>2. Entries(j)' = Three(stack[j].entry)
      BY <3>1 DEF Entries, Three
    <3>3. \A g \in Three(stack[j].entry) : g \in Redirected
      BY <3>1, RedirectedBy
    <3> QED
      BY <2>1, <3>2, <3>3
  <2>5. \A k \in DOMAIN x.scripts :
           k \in DOMAIN stack[m + 1].scripts /\ x.scripts[k] = stack[m + 1].scripts[k]
    BY <1>2
  <2> QED
    BY <1>2, <1>3, <1>4, <1>12, <2>2, <2>3, <2>4, <2>5, ExclusiveKept
<1> QED
  BY <1>6, <1>7, <1>8, <1>11, <1>12

-----------------------------------------------------------------------------
(* Every step is of one of these kinds *)

LEMMA ParserSet ==
    ASSUME NEW t \in Instances, NEW c \in Contexts, NEW x, x = [t EXCEPT !.parser = c]
    PROVE  /\ x \in Instances /\ x.parser = c /\ x.quiet = t.quiet /\ x.entry = t.entry
           /\ x.scripts = t.scripts /\ x.at = t.at /\ x.mode = t.mode
           /\ x.become_interactive = t.become_interactive
BY DEF Instances

LEMMA AtSet ==
    ASSUME NEW t \in Instances, NEW a \in {"ready", "eval"}, NEW x, x = [t EXCEPT !.at = a]
    PROVE  /\ x \in Instances /\ x.parser = t.parser /\ x.quiet = t.quiet /\ x.entry = t.entry
           /\ x.scripts = t.scripts /\ x.at = a /\ x.mode = t.mode
           /\ x.become_interactive = t.become_interactive
BY DEF Instances

LEMMA ScriptsSet ==
    ASSUME NEW t \in Instances, NEW q \in Seq(Files), NEW x, x = [t EXCEPT !.scripts = q]
    PROVE  /\ x \in Instances /\ x.parser = t.parser /\ x.quiet = t.quiet /\ x.entry = t.entry
           /\ x.scripts = q /\ x.at = t.at /\ x.mode = t.mode
           /\ x.become_interactive = t.become_interactive
BY DEF Instances

LEMMA UpdateBack ==
    ASSUME TypeOK, stack # <<>>, NEW STATE w, NEW STATE t, t \in Instances,
           t.entry = Top.entry, t.at = "ready",
           w.std = Top.entry, w.term = Terminal(w.std), w.ctx = NewParser(t.quiet, Top.entry),
           Update(w, t)
    PROVE  Back(t.scripts) /\ open' = w.open
<1> DEFINE x == [t EXCEPT !.parser = w.ctx]
<1>1. t.quiet \in BOOLEAN /\ Top.entry \in StdStreams
  BY InstanceTypes
<1>2. w.ctx \in Contexts
  BY <1>1, CleanContext
<1>3. /\ x \in Instances /\ x.parser = w.ctx /\ x.quiet = t.quiet /\ x.entry = t.entry
      /\ x.scripts = t.scripts /\ x.at = t.at
  BY <1>2, ParserSet
<1>4. /\ std' = w.std /\ open' = w.open /\ term' = w.term /\ stack' = Append(Callers, x)
  BY DEF Update
<1>5. stack' # <<>>
  <2>1. Callers \in Seq(Instances)
    BY LastOff DEF TypeOK, Callers
  <2> HIDE DEF x
  <2> QED
    BY <1>3, <1>4, <2>1, LastOn
<1> HIDE DEF x
<1> QED
  BY <1>3, <1>4, <1>5 DEF Back

LEMMA CleanupBack ==
    ASSUME TypeOK, stack # <<>>, NEW STATE w, NEW STATE t, t \in Instances, t.entry = Top.entry,
           w.open \in SUBSET Streams, ContextGood(w.ctx, t.quiet, w.std, t.entry),
           NEW again, Cleanup(w, t, again)
    PROVE  Back(<<>>) /\ open' = w.open \ Closes(w.ctx, w.std)
<1> DEFINE u == cexpUnredir(w)
           e == Top.entry
           p == NewParser(t.quiet, e)
<1>1. t.quiet \in BOOLEAN /\ e \in StdStreams /\ p \in Contexts
  BY InstanceTypes, CleanContext
<1>2. Clean(u, t.quiet, e, w.open \ Closes(w.ctx, w.std))
  BY <1>1, Unredirected
<1>3. /\ u \in Worlds /\ u.std = e /\ u.term = Terminal(e) /\ u.ctx = p
      /\ u.open = w.open \ Closes(w.ctx, w.std)
  BY <1>2 DEF Clean
<1>4. CASE again \/ t.become_interactive
  <2> DEFINE v == [u EXCEPT !.ctx = NewParser(t.quiet, u.std)]
             i == Instance(u.ctx, t.quiet, "prompt", FALSE, t.entry)
  <2>1. Update(v, i)
    BY <1>4 DEF Cleanup
  <2>2. v.std = u.std /\ v.open = u.open /\ v.term = u.term /\ v.ctx = NewParser(t.quiet, u.std)
    <3> HIDE DEF u, p
    <3> QED
      BY <1>3 DEF Worlds
  <2>3. i \in Instances /\ i.entry = e /\ i.at = "ready" /\ i.quiet = t.quiet /\ i.scripts = <<>>
    <3>1. u.ctx \in Contexts /\ t.entry \in StdStreams
      BY <1>1, <1>3
    <3> HIDE DEF u
    <3> QED
      BY <1>1, <3>1 DEF Instance, Instances
  <2> HIDE DEF v, i, u
  <2>4. Back(i.scripts) /\ open' = v.open
    BY <1>3, <2>1, <2>2, <2>3, UpdateBack
  <2> QED
    BY <1>3, <2>2, <2>3, <2>4
<1>5. CASE ~(again \/ t.become_interactive)
  <2>1. /\ std' = u.std /\ open' = u.open /\ term' = (IF Len(stack) = 1 THEN None ELSE u.term)
        /\ stack' = Callers
    BY <1>5 DEF Cleanup
  <2>2. stack' = <<>> <=> Len(stack) = 1
    <3>1. /\ Callers \in Seq(Instances) /\ Len(Callers) = Len(stack) - 1 /\ Len(stack) \in Nat
      BY LastOff DEF TypeOK, Callers
    <3> QED
      BY <2>1, <3>1
  <2> HIDE DEF u
  <2> QED
    BY <1>3, <2>1, <2>2 DEF Back
<1> QED
  BY <1>4, <1>5

LEMMA ParsedBack ==
    ASSUME TypeOK, stack # <<>>, NEW STATE u, NEW STATE o, Clean(u, Top.quiet, Top.entry, o),
           o \in SUBSET Streams, Parsed(u, Top)
    PROVE  Back(Top.scripts) /\ open' = o
<1>1. Top \in Instances /\ Top.quiet \in BOOLEAN /\ Top.entry \in StdStreams
  BY TopType, InstanceTypes
<1>2. /\ u.std = Top.entry /\ u.term = Terminal(u.std) /\ u.ctx = NewParser(Top.quiet, Top.entry)
      /\ u.open = o
  BY DEF Clean
<1>3. CASE Top.scripts = <<>> /\ Top.mode = "line"
  <2>1. Cleanup(u, Top, FALSE)
    BY <1>3 DEF Parsed
  <2>2. ContextGood(u.ctx, Top.quiet, u.std, Top.entry) /\ Closes(u.ctx, u.std) = {}
    BY <1>1, <1>2, CleanContext
  <2>3. Back(<<>>) /\ open' = u.open \ Closes(u.ctx, u.std)
    BY <1>1, <1>2, <2>1, <2>2, CleanupBack
  <2> QED
    BY <1>2, <1>3, <2>2, <2>3
<1>4. CASE ~(Top.scripts = <<>> /\ Top.mode = "line")
  <2> DEFINE t == [Top EXCEPT !.at = "ready"]
  <2>1. Update(u, t)
    BY <1>4 DEF Parsed
  <2>2. /\ t \in Instances /\ t.entry = Top.entry /\ t.at = "ready" /\ t.quiet = Top.quiet
        /\ t.scripts = Top.scripts
    BY <1>1, AtSet
  <2> HIDE DEF t
  <2>3. Back(t.scripts) /\ open' = u.open
    BY <1>2, <2>1, <2>2, UpdateBack
  <2> QED
    BY <1>2, <2>2, <2>3
<1> QED
  BY <1>3, <1>4

\* The instance goes on with its scripts, or returns with none: what it has
\* redirected is closed.
LEMMA ClosedAll ==
    ASSUME TypeOK, stack # <<>>, Back(Top.scripts), NEW STATE Q,
           open' = (open \ Private(Len(stack))) \ Q, lost' = lost
    PROVE  Closing(Top.scripts, Q)
<1>1. Top.scripts \in Seq(Files)
  BY TopType, InstanceTypes
<1>2. lost' \subseteq Files
  BY DEF TypeOK
<1>3. Len(Top.scripts) \in Nat
  BY <1>1
<1> QED
  BY <1>1, <1>2, <1>3 DEF Closing

LEMMA WorldGood ==
    ASSUME TypeOK, ContextsGood, stack # <<>>
    PROVE  /\ World.std = std /\ World.open = open /\ World.term = term /\ World.ctx = Top.parser
           /\ open \in SUBSET Streams
           /\ Top \in Instances /\ Top.quiet \in BOOLEAN /\ Top.entry \in StdStreams
           /\ ContextGood(World.ctx, Top.quiet, World.std, Top.entry)
           /\ Private(Len(stack)) = Closes(World.ctx, World.std)
<1>1. World.std = std /\ World.open = open /\ World.term = term /\ World.ctx = Top.parser
  BY DEF World
<1>2. Top \in Instances /\ Top.quiet \in BOOLEAN /\ Top.entry \in StdStreams
  BY TopType, InstanceTypes
<1>3. Top = stack[Len(stack)] /\ Len(stack) \in DOMAIN stack /\ Held(Len(stack)) = std
  BY TopType
<1>4. ContextGood(Top.parser, Top.quiet, std, Top.entry)
  BY <1>3 DEF ContextsGood
<1>5. Private(Len(stack)) = Closes(Top.parser, std)
  BY <1>3 DEF Private, Closes
<1>6. open \in SUBSET Streams
  BY DEF TypeOK
<1> QED
  BY <1>1, <1>2, <1>4, <1>5, <1>6

LEMMA EvaluatedCloses ==
    ASSUME TypeOK, ContextsGood, Evaluated
    PROVE  Closing(Top.scripts, {})
<1>1. stack # <<>> /\ lost' = lost /\ Parsed(cexpUnredir(World), Top)
  BY DEF Evaluated
<1> DEFINE o == World.open \ Closes(World.ctx, World.std)
<1>2. Clean(cexpUnredir(World), Top.quiet, Top.entry, o)
  BY <1>1, WorldGood, Unredirected
<1>3. Back(Top.scripts) /\ open' = o
  <2>1. o \in SUBSET Streams
    BY <1>1, WorldGood
  <2> HIDE DEF o
  <2> QED
    BY <1>1, <1>2, <2>1, ParsedBack
<1>4. open' = (open \ Private(Len(stack))) \ {}
  BY <1>1, <1>3, WorldGood
<1> QED
  BY <1>1, <1>3, <1>4, ClosedAll

LEMMA KillCloses ==
    ASSUME TypeOK, ContextsGood, NEW doWhat, cexp_kill(doWhat)
    PROVE  Closing(<<>>, {})
<1>1. /\ stack # <<>> /\ Cleanup(World, Top, doWhat = "recover")
      /\ lost' = lost \cup Range(Top.scripts)
  BY DEF cexp_kill
<1>2. Back(<<>>) /\ open' = World.open \ Closes(World.ctx, World.std)
  BY <1>1, WorldGood, CleanupBack
<1>3. Top.scripts \in Seq(Files)
  BY <1>1, TopType, InstanceTypes
<1>4. \A k \in DOMAIN Top.scripts : Top.scripts[k] \in Range(Top.scripts)
  BY DEF Range
<1>5. Range(Top.scripts) \subseteq Files
  BY <1>3 DEF Range
<1>6. lost \subseteq lost' /\ lost' \subseteq Files
  BY <1>1, <1>5 DEF TypeOK
<1>7. open' = (open \ Private(Len(stack))) \ {}
  BY <1>1, <1>2, WorldGood
<1> QED
  BY <1>1, <1>2, <1>3, <1>4, <1>6, <1>7 DEF Closing

\* Scripts and lines start with nothing redirected.
LEMMA ReadyWorld ==
    ASSUME TypeOK, EditorFollows, ContextsGood, stack # <<>>, Top.at = "ready"
    PROVE  /\ std = Top.entry /\ term = Terminal(std)
           /\ Top.parser = NewParser(Top.quiet, Top.entry)
           /\ Private(Len(stack)) = {}
           /\ Clean(cexpUnredir(World), Top.quiet, Top.entry, open)
<1>1. /\ std = Top.entry /\ Top.parser = NewParser(Top.quiet, Top.entry)
      /\ Private(Len(stack)) = {}
  BY ReadyClean
<1>2. term = Terminal(std)
  BY DEF EditorFollows
<1>3. Clean(cexpUnredir(World), Top.quiet, Top.entry, World.open \ Closes(World.ctx, World.std))
  BY WorldGood, Unredirected
<1>4. World.open \ Closes(World.ctx, World.std) = open
  BY <1>1, WorldGood
<1> QED
  BY <1>1, <1>2, <1>3, <1>4

\* Between two lines the instance returns, or goes on with scripts t.scripts.
LEMMA ReadyBack ==
    ASSUME TypeOK, EditorFollows, ContextsGood, stack # <<>>, Top.at = "ready",
           NEW STATE w, w.std = std, w.term = term, w.ctx = Top.parser, w.open \in SUBSET Streams,
           NEW STATE t, t \in Instances, t.quiet = Top.quiet, t.entry = Top.entry, t.at = "ready",
           \/ Update(w, t)
           \/ t.scripts = <<>> /\ Cleanup(w, t, FALSE)
    PROVE  Back(t.scripts) /\ open' = w.open
<1>1. /\ std = Top.entry /\ term = Terminal(std) /\ Top.parser = NewParser(Top.quiet, Top.entry)
      /\ Top.quiet \in BOOLEAN /\ Top.entry \in StdStreams
  BY ReadyWorld, WorldGood
<1>2. CASE Update(w, t)
  BY <1>1, <1>2, UpdateBack
<1>3. CASE t.scripts = <<>> /\ Cleanup(w, t, FALSE)
  <2>1. ContextGood(w.ctx, t.quiet, w.std, t.entry) /\ Closes(w.ctx, w.std) = {}
    BY <1>1, CleanContext
  <2>2. Back(<<>>) /\ open' = w.open \ Closes(w.ctx, w.std)
    BY <1>3, <2>1, CleanupBack
  <2> QED
    BY <1>3, <2>1, <2>2
<1> QED
  BY <1>2, <1>3

LEMMA EndOfInputCloses ==
    ASSUME TypeOK, EditorFollows, ContextsGood, EndOfInput
    PROVE  Closing(Top.scripts, {})
<1>1. /\ stack # <<>> /\ Top.at = "ready" /\ Top.scripts = <<>> /\ Cleanup(World, Top, FALSE)
      /\ lost' = lost
  BY DEF EndOfInput, AtPrompt, Ready
<1>2. Back(Top.scripts) /\ open' = World.open
  BY <1>1, WorldGood, ReadyBack
<1>3. open' = (open \ Private(Len(stack))) \ {}
  BY <1>1, <1>2, WorldGood, ReadyWorld
<1> QED
  BY <1>1, <1>2, <1>3, ClosedAll

LEMMA SourceFailsCloses ==
    ASSUME TypeOK, EditorFollows, ContextsGood, SourceFails
    PROVE  Closing(Top.scripts, {})
<1>1. stack # <<>> /\ Top.at = "ready" /\ lost' = lost
  BY DEF SourceFails, AtPrompt, InScript, AtStart, Ready
<1>2. Update(World, Top) \/ (Top.scripts = <<>> /\ Cleanup(World, Top, FALSE))
  BY DEF SourceFails, ScriptDone
<1>3. Back(Top.scripts) /\ open' = World.open
  BY <1>1, <1>2, WorldGood, ReadyBack
<1>4. open' = (open \ Private(Len(stack))) \ {}
  BY <1>1, <1>3, WorldGood, ReadyWorld
<1> QED
  BY <1>1, <1>3, <1>4, ClosedAll

LEMMA EndOfScriptCloses ==
    ASSUME TypeOK, EditorFollows, ContextsGood, EndOfScript
    PROVE  \E S, Q : /\ Closing(S, Q)
                     /\ \A f \in Q : \E k \in (Len(S) + 1)..Len(Top.scripts) : f = Top.scripts[k]
<1> DEFINE n == Len(Top.scripts)
           S == SubSeq(Top.scripts, 1, n - 1)
           f == Top.scripts[n]
           t == [Top EXCEPT !.scripts = S]
           w == [World EXCEPT !.open = @ \ {f}]
<1>1. stack # <<>> /\ Top.at = "ready" /\ Top.scripts # <<>> /\ lost' = lost
  BY DEF EndOfScript, InScript, Ready
<1>2. (IF n = 1 THEN ScriptDone(w, t) ELSE Update(w, t))
  <2>1. t = [Top EXCEPT !.scripts = SubSeq(@, 1, n - 1)]
    OBVIOUS
  <2>2. w = [World EXCEPT !.open = @ \ {Top.scripts[n]}]
    OBVIOUS
  <2> HIDE DEF t, w
  <2> QED
    BY <2>1, <2>2 DEF EndOfScript
<1>3. Top.scripts \in Seq(Files) /\ Top \in Instances /\ lost \subseteq Files
  BY <1>1, TopType, InstanceTypes DEF TypeOK
<1>4. /\ n \in Nat \ {0} /\ S \in Seq(Files) /\ Len(S) = n - 1
      /\ \A k \in 1..(n - 1) : S[k] = Top.scripts[k]
  BY <1>1, <1>3, LastOff
<1>5. /\ t \in Instances /\ t.quiet = Top.quiet /\ t.entry = Top.entry /\ t.at = "ready"
      /\ t.scripts = S
  <2> HIDE DEF S
  <2> QED
    BY <1>1, <1>3, <1>4, ScriptsSet
<1>6. /\ w.std = std /\ w.term = term /\ w.ctx = Top.parser /\ w.open = open \ {f}
  BY DEF World
<1>7. Update(w, t) \/ (t.scripts = <<>> /\ Cleanup(w, t, FALSE))
  <2>1. CASE n = 1
    <3>1. S = <<>>
      <4> HIDE DEF S
      <4> QED
        BY <1>4, <2>1
    <3> HIDE DEF S, t, w
    <3> QED
      BY <1>2, <1>5, <2>1, <3>1 DEF ScriptDone
  <2>2. CASE n # 1
    BY <1>2, <2>2
  <2> QED
    BY <2>1, <2>2
<1>8. open \ {f} \in SUBSET Streams
  BY <1>1, WorldGood
<1> HIDE DEF t, w, S, n
<1>9. Back(S) /\ open' = open \ {f}
  <2>1. w.open \in SUBSET Streams
    BY <1>6, <1>8
  <2>2. Back(t.scripts) /\ open' = w.open
    BY <1>1, <1>5, <1>6, <1>7, <2>1, ReadyBack
  <2> QED
    BY <1>5, <1>6, <2>2
<1>10. open' = (open \ Private(Len(stack))) \ {f}
  BY <1>1, <1>9, ReadyWorld
<1>11. \A k \in (Len(S) + 1)..Len(Top.scripts) : Top.scripts[k] \in {f} \cup lost'
  <2>1. \A k \in (Len(S) + 1)..n : k = n
    BY <1>4
  <2> QED
    BY <2>1 DEF n
<1>12. Closing(S, {f})
  BY <1>1, <1>3, <1>4, <1>9, <1>10, <1>11 DEF Closing, n
<1>13. n \in (Len(S) + 1)..Len(Top.scripts)
  BY <1>4 DEF n
<1> QED
  BY <1>12, <1>13

LEMMA SourceSources ==
    ASSUME TypeOK, EditorFollows, ContextsGood, Source
    PROVE  Sourcing
<1>1. stack # <<>> /\ Top.at = "ready" /\ lost' = lost /\ Len(Top.scripts) < ST_DEPTH
  BY DEF Source, AtPrompt, InScript, AtStart, Ready
<1> PICK f \in Files \ open :
        Update([World EXCEPT !.open = @ \cup {f}], [Top EXCEPT !.scripts = Append(@, f)])
  BY DEF Source
<1> DEFINE S == Append(Top.scripts, f)
           t == [Top EXCEPT !.scripts = S]
           w == [World EXCEPT !.open = @ \cup {f}]
           x == [t EXCEPT !.parser = w.ctx]
<1>2. Update(w, t)
  OBVIOUS
<1>3. w.std = std /\ w.term = term /\ w.ctx = Top.parser /\ w.open = open \cup {f}
  BY DEF World
<1>4. Top \in Instances /\ Top.scripts \in Seq(Files) /\ Top.parser \in Contexts
  BY <1>1, TopType, InstanceTypes
<1>5. S \in Seq(Files)
  BY <1>4
<1>6. /\ t \in Instances /\ t.quiet = Top.quiet /\ t.entry = Top.entry /\ t.at = "ready"
      /\ t.scripts = S
  <2> HIDE DEF S
  <2> QED
    BY <1>1, <1>4, <1>5, ScriptsSet
<1> HIDE DEF t, w, S
<1>7. /\ x \in Instances /\ x.parser = Top.parser /\ x.quiet = Top.quiet /\ x.entry = Top.entry
      /\ x.scripts = S /\ x.at = "ready"
  BY <1>3, <1>4, <1>6, ParserSet
<1>8. std' = std /\ open' = open \cup {f} /\ term' = term /\ stack' = Append(Callers, x)
  BY <1>2, <1>3 DEF Update
<1>9. term' = Terminal(std')
  BY <1>1, <1>8, ReadyWorld DEF Terminal
<1> HIDE DEF x
<1> QED
  BY <1>1, <1>7, <1>8, <1>9 DEF Sourcing, S

LEMMA cexp_main1Calls ==
    ASSUME TypeOK, EditorFollows, NEW quiet \in BOOLEAN, NEW become \in BOOLEAN,
           NEW mode \in {"script", "line", "prompt"}, cexp_main1(quiet, mode, become)
    PROVE  Calling
<1> DEFINE b == become /\ stack = <<>>
           x == Instance(NewParser(quiet, std), quiet, mode, b, std)
<1>1. /\ stack # <<>> => Top.at = "eval"
      /\ stack' = Append(stack, x)
      /\ term' = (IF stack = <<>> THEN Terminal(std) ELSE term)
      /\ std' = std /\ open' = open /\ lost' = lost
  BY DEF cexp_main1, MayCall
<1>2. std \in StdStreams
  BY DEF TypeOK
<1>3. NewParser(quiet, std) \in Contexts
  BY <1>2, CleanContext
<1>4. /\ x \in Instances /\ x.parser = NewParser(quiet, std) /\ x.quiet = quiet /\ x.entry = std
      /\ x.scripts = <<>> /\ x.at = "ready"
  <2>1. b \in BOOLEAN
    OBVIOUS
  <2>2. <<>> \in Seq(Files)
    OBVIOUS
  <2> DEFINE p == NewParser(quiet, std)
  <2> HIDE DEF b, p
  <2>3. x = [parser |-> p, quiet |-> quiet, mode |-> mode, become_interactive |-> b,
             at |-> "ready", scripts |-> <<>>, entry |-> std]
    BY DEF Instance, p
  <2>4. p \in Contexts
    BY <1>3 DEF p
  <2> HIDE DEF x
  <2>5. x \in Instances
    BY <1>2, <2>1, <2>2, <2>3, <2>4 DEF Instances
  <2> QED
    BY <2>3, <2>5 DEF p
<1>5. term' = Terminal(std')
  <2>1. term' = Terminal(std)
    BY <1>1 DEF EditorFollows
  <2> QED
    BY <1>1, <2>1 DEF Terminal
<1> HIDE DEF x
<1> QED
  BY <1>1, <1>4, <1>5 DEF Calling

LEMMA EvaluateOpens ==
    ASSUME TypeOK, EditorFollows, ContextsGood, NEW r \in Redirectors, Evaluate(r)
    PROVE  \/ Opening
           \/ Closing(Top.scripts, {})
           \/ r.in /\ r.out /\ Closing(Top.scripts, {Top.entry.in})
<1> DEFINE v == cexpUnredir(World)
<1>1. stack # <<>> /\ Top.at = "ready" /\ lost' = lost
  BY DEF Evaluate, AtPrompt, InScript, AtStart, Ready
<1>2. /\ std = Top.entry /\ Top.quiet \in BOOLEAN /\ Top.entry \in StdStreams
      /\ open \in SUBSET Streams /\ Top \in Instances /\ Private(Len(stack)) = {}
      /\ Clean(v, Top.quiet, Top.entry, open)
  BY <1>1, ReadyWorld, WorldGood
<1>3. PICK result \in cexpRedir(v, r) :
         IF result.ok THEN Update(result.w, [Top EXCEPT !.at = "eval"])
                      ELSE Parsed(cexpUnredir(result.w), Top)
  BY DEF Evaluate
<1> HIDE DEF v
<1>4. \/ /\ result.ok /\ Opened(result.w, Top.quiet, Top.entry, open)
         /\ result.w.term = Terminal(result.w.std)
      \/ ~result.ok /\ Clean(cexpUnredir(result.w), Top.quiet, Top.entry, open)
      \/ /\ ~result.ok /\ r.in /\ r.out
         /\ Clean(cexpUnredir(result.w), Top.quiet, Top.entry, open \ {Top.entry.in})
  BY <1>2, Redirections
<1>5. CASE /\ result.ok /\ Opened(result.w, Top.quiet, Top.entry, open)
           /\ result.w.term = Terminal(result.w.std)
  <2> DEFINE w == result.w
             t == [Top EXCEPT !.at = "eval"]
             x == [t EXCEPT !.parser = w.ctx]
  <2>1. w.ctx \in Contexts
    BY <1>5 DEF Opened, Worlds
  <2>2. /\ t \in Instances /\ t.quiet = Top.quiet /\ t.entry = Top.entry /\ t.at = "eval"
        /\ t.scripts = Top.scripts
    BY <1>2, AtSet
  <2>3. Update(w, t)
    BY <1>3, <1>5
  <2> HIDE DEF t, w
  <2>4. /\ x \in Instances /\ x.parser = w.ctx /\ x.quiet = Top.quiet /\ x.entry = Top.entry
        /\ x.scripts = Top.scripts /\ x.at = "eval"
    BY <2>1, <2>2, ParserSet
  <2>5. std' = w.std /\ open' = w.open /\ term' = w.term /\ stack' = Append(Callers, x)
    BY <2>3 DEF Update
  <2> HIDE DEF x
  <2>6. Opened(w, Top.quiet, std, open) /\ w.term = Terminal(w.std)
    BY <1>2, <1>5 DEF w
  <2> QED
    BY <1>1, <2>4, <2>5, <2>6 DEF Opening
<1>6. CASE ~result.ok /\ Clean(cexpUnredir(result.w), Top.quiet, Top.entry, open)
  <2> DEFINE u == cexpUnredir(result.w)
  <2>1. Parsed(u, Top)
    BY <1>3, <1>6
  <2> HIDE DEF u
  <2>2. Back(Top.scripts) /\ open' = open
    BY <1>1, <1>2, <1>6, <2>1, ParsedBack DEF u
  <2> QED
    BY <1>1, <1>2, <2>2, ClosedAll
<1>7. CASE /\ ~result.ok /\ r.in /\ r.out
           /\ Clean(cexpUnredir(result.w), Top.quiet, Top.entry, open \ {Top.entry.in})
  <2> DEFINE u == cexpUnredir(result.w)
             o == open \ {Top.entry.in}
  <2>1. Parsed(u, Top)
    BY <1>3, <1>7
  <2>2. o \in SUBSET Streams
    BY <1>2
  <2>3. Clean(u, Top.quiet, Top.entry, o)
    BY <1>7
  <2> HIDE DEF u, o
  <2>4. Back(Top.scripts) /\ open' = o
    BY <1>1, <1>2, <2>1, <2>2, <2>3, ParsedBack
  <2>5. open' = (open \ Private(Len(stack))) \ {Top.entry.in}
    BY <1>2, <2>4 DEF o
  <2>6. Closing(Top.scripts, {Top.entry.in})
    BY <1>1, <2>4, <2>5, ClosedAll
  <2> QED
    BY <1>7, <2>6
<1> QED
  BY <1>4, <1>5, <1>6, <1>7

OwnScripts(S, Q) == \A f \in Q : \E k \in (Len(S) + 1)..Len(Top.scripts) : f = Top.scripts[k]

\* A line with input and output has been refused.
LEMMA RefusedIsBoth ==
    ASSUME TypeOK, NEW r \in Redirectors, Evaluate(r), r.in, r.out,
           Closing(Top.scripts, {Top.entry.in})
    PROVE  BothRefused
<1> PICK m : m = Len(stack) - 1
  OBVIOUS
<1>1. /\ Stacked(m) /\ m \in Nat /\ Len(stack) = m + 1
      /\ Len(stack') = m + 1 => stack'[m + 1].at = "ready"
  BY ClosingShape
<1>2. Len(stack') = m \/ Len(stack') = m + 1
  BY <1>1 DEF Stacked
<1>3. Len(stack') <= Len(stack)
  BY <1>1, <1>2
<1>4. stack'[Len(stack')].at # "eval" \/ Len(stack') < Len(stack)
  <2>1. CASE Len(stack') = m
    BY <1>1, <2>1
  <2>2. CASE Len(stack') = m + 1
    <3>1. stack'[Len(stack')].at = "ready"
      BY <1>1, <2>2
    <3> QED
      BY <3>1
  <2> QED
    BY <1>2, <2>1, <2>2
<1> QED
  BY <1>3, <1>4 DEF BothRefused

LEMMA StepKinds ==
    ASSUME TypeOK, EditorFollows, ContextsGood, Step
    PROVE  \/ Calling
           \/ Opening
           \/ Sourcing
           \/ \E S, Q : Closing(S, Q) /\ OwnScripts(S, Q)
           \/ BothRefused /\ Closing(Top.scripts, {Top.entry.in})
<1>1. ASSUME NEW S, Closing(S, {})
      PROVE  \E T, Q : Closing(T, Q) /\ OwnScripts(T, Q)
  <2>1. OwnScripts(S, {})
    BY DEF OwnScripts
  <2> QED
    BY <1>1, <2>1
<1>2. ASSUME NEW quiet \in BOOLEAN, NEW become \in BOOLEAN, NEW mode \in {"script", "line", "prompt"},
             cexp_main1(quiet, mode, become)
      PROVE  Calling
  BY <1>2, cexp_main1Calls
<1>3. ASSUME NEW r \in Redirectors, Evaluate(r)
      PROVE  \/ Opening
             \/ \E S : Closing(S, {})
             \/ BothRefused /\ Closing(Top.scripts, {Top.entry.in})
  BY <1>3, EvaluateOpens, RefusedIsBoth
<1>4. CASE Evaluated
  BY <1>1, <1>4, EvaluatedCloses
<1>5. CASE Source
  BY <1>5, SourceSources
<1>6. CASE SourceFails
  BY <1>1, <1>6, SourceFailsCloses
<1>7. CASE EndOfScript
  BY <1>7, EndOfScriptCloses DEF OwnScripts
<1>8. CASE EndOfInput
  BY <1>1, <1>8, EndOfInputCloses
<1>9. ASSUME NEW doWhat \in {"recover", "killed"}, cexp_kill(doWhat)
      PROVE  \E S : Closing(S, {})
  BY <1>9, KillCloses
<1> QED
  BY <1>1, <1>2, <1>3, <1>4, <1>5, <1>6, <1>7, <1>8, <1>9 DEF Step

\* The one kind of step that closes a stream that is in use: stdin is put back closed.
LEMMA RefusedCloses ==
    ASSUME Closing(Top.scripts, {Top.entry.in})
    PROVE  ~StreamsOpen'
<1>1. std'.in = Top.entry.in /\ Top.entry.in \notin open'
  BY DEF Closing, Back
<1> QED
  BY <1>1 DEF StreamsOpen, Redirected

LEMMA StepKeeps ==
    ASSUME IInv, Step, spoilt' \in BOOLEAN
    PROVE  /\ TypeOK' /\ EditorFollows' /\ ContextsGood' /\ FilesAccounted'
           /\ Exclusive => Exclusive' \/ (BothRefused /\ ~StreamsOpen')
<1>1. TypeOK /\ EditorFollows /\ ContextsGood /\ FilesAccounted
  BY DEF IInv
<1>2. CASE Calling
  BY <1>1, <1>2, CallingKeeps
<1>3. CASE Opening
  BY <1>1, <1>3, OpeningKeeps
<1>4. CASE Sourcing
  BY <1>1, <1>4, SourcingKeeps
<1>5. ASSUME NEW S, NEW Q, Closing(S, Q), OwnScripts(S, Q)
      PROVE  /\ TypeOK' /\ EditorFollows' /\ ContextsGood' /\ FilesAccounted'
             /\ Exclusive => Exclusive'
  <2>1. TypeOK' /\ EditorFollows' /\ ContextsGood' /\ FilesAccounted'
    BY <1>1, <1>5, ClosingKeeps
  <2>2. Exclusive => Exclusive'
    BY <1>1, <1>5, ClosingExclusive DEF OwnScripts
  <2> QED
    BY <2>1, <2>2
<1>6. CASE BothRefused /\ Closing(Top.scripts, {Top.entry.in})
  BY <1>1, <1>6, ClosingKeeps, RefusedCloses
<1>7. \/ Calling \/ Opening \/ Sourcing
      \/ \E S, Q : Closing(S, Q) /\ OwnScripts(S, Q)
      \/ BothRefused /\ Closing(Top.scripts, {Top.entry.in})
  BY <1>1, StepKinds DEF IInv
<1> QED
  BY <1>2, <1>3, <1>4, <1>5, <1>6, <1>7

-----------------------------------------------------------------------------
(* The theorems *)

LEMMA InitInvariant == Init => IInv
<1> SUFFICES ASSUME Init
             PROVE  IInv
  OBVIOUS
<1>1. /\ std = [in |-> In, out |-> Out, err |-> Err] /\ open = {In, Out, Err} /\ term = None
      /\ stack = <<>> /\ lost = {} /\ spoilt = FALSE
  BY DEF Init
<1>2. stack \in Seq(Instances) /\ DOMAIN stack = {} /\ Len(stack) = 0
  BY <1>1
<1>3. TypeOK
  BY <1>1, <1>2 DEF TypeOK, StdStreams, Streams
<1>4. EditorFollows /\ ContextsGood
  BY <1>1, <1>2 DEF EditorFollows, ContextsGood
<1>5. \A x : x \in Redirected <=> x \in {In, Out, Err}
  BY <1>1, <1>2, RedirectedBy DEF Three
<1>6. \A x : x \notin Sourced
  BY <1>2, SourcedBy
<1>7. FilesAccounted
  BY <1>1, StreamsOK DEF FilesAccounted
<1>8. Exclusive
  BY <1>1, <1>2, <1>5, <1>6 DEF Exclusive, StreamsOpen
<1> QED
  BY <1>3, <1>4, <1>7, <1>8 DEF IInv

LEMMA StutterInvariant == IInv /\ UNCHANGED vars => IInv'
<1> SUFFICES ASSUME IInv, UNCHANGED vars
             PROVE  IInv'
  OBVIOUS
<1>1. /\ std' = std /\ open' = open /\ term' = term /\ stack' = stack /\ lost' = lost
      /\ spoilt' = spoilt
  BY DEF vars
<1>2. TypeOK'
  BY <1>1 DEF IInv, TypeOK
<1>3. EditorFollows'
  BY <1>1 DEF IInv, EditorFollows, Terminal
<1>4. \A i : Held(i)' = Held(i)
  BY <1>1 DEF Held
<1>5. ContextsGood'
  <2> SUFFICES ASSUME NEW i \in DOMAIN stack'
               PROVE  LET t == stack'[i] IN
                      /\ ContextGood(t.parser, t.quiet, Held(i)', t.entry)
                      /\ t.at = "ready" => t.parser = NewParser(t.quiet, t.entry)
    BY DEF ContextsGood, ContextGood, Before, CtxBefore, NewParser, ParserCtx, Either
  <2> QED
    BY <1>1, <1>4 DEF IInv, ContextsGood
<1>6. Redirected' = Redirected /\ Sourced' = Sourced
  BY <1>1 DEF Redirected, Sourced, Range
<1>7. FilesAccounted'
  BY <1>1, <1>6 DEF IInv, FilesAccounted
<1>8. ASSUME Exclusive
      PROVE  Exclusive'
  <2>1. \A i : Private(i)' = Private(i)
    BY <1>1, <1>4 DEF Private
  <2>2. \A j : Entries(j)' = Entries(j)
    BY <1>1 DEF Entries
  <2>3. StreamsOpen' /\ (Redirected \cap Sourced = {})'
    BY <1>1, <1>6, <1>8 DEF Exclusive, StreamsOpen
  <2> QED
    BY <1>1, <1>8, <2>1, <2>2, <2>3 DEF Exclusive
<1> QED
  BY <1>1, <1>2, <1>3, <1>5, <1>7, <1>8 DEF IInv

LEMMA NextInvariant == IInv /\ [Next]_vars => IInv'
<1> SUFFICES ASSUME IInv, [Next]_vars
             PROVE  IInv'
  OBVIOUS
<1>1. CASE Next
  <2>1. Step /\ spoilt' = (spoilt \/ ~StreamsOpen') /\ spoilt \in BOOLEAN
    BY <1>1 DEF Next, IInv, TypeOK
  <2>2. spoilt' \in BOOLEAN
    BY <2>1
  <2>3. /\ TypeOK' /\ EditorFollows' /\ ContextsGood' /\ FilesAccounted'
        /\ Exclusive => Exclusive' \/ (BothRefused /\ ~StreamsOpen')
    BY <2>1, <2>2, StepKeeps
  <2>4. ~spoilt' => Exclusive /\ StreamsOpen'
    BY <2>1 DEF IInv
  <2> QED
    BY <2>3, <2>4 DEF IInv
<1> QED
  BY <1>1, StutterInvariant

\* The inductive invariant: types, the editor and the interpreter follow the streams,
\* every context holds what is needed to put back the streams the instance was started
\* with, no open file is forgotten, and as long as no stream in use has been closed
\* every file has one user who closes it (Exclusive).
THEOREM ShellInvariant == Spec => []IInv
BY InitInvariant, NextInvariant, PTL DEF Spec

\* The interpreter's and the editor's streams are those of the innermost instance.
THEOREM StreamsAreFollowed == Spec => []StreamsFollowed
<1>1. IInv => StreamsFollowed
  <2> SUFFICES ASSUME IInv
               PROVE  StreamsFollowed
    OBVIOUS
  <2>1. TypeOK /\ EditorFollows /\ ContextsGood
    BY DEF IInv
  <2>2. OutputFollows
    <3> SUFFICES ASSUME stack # <<>>
                 PROVE  /\ Top.parser.outf = IF Top.quiet THEN None ELSE std.out
                        /\ Top.parser.errf = std.err
      BY DEF OutputFollows
    <3>1. World.ctx = Top.parser /\ World.std = std
          /\ ContextGood(World.ctx, Top.quiet, World.std, Top.entry)
      BY <2>1, WorldGood
    <3> QED
      BY <3>1 DEF ContextGood
  <2> QED
    BY <2>1, <2>2 DEF StreamsFollowed
<1> QED
  BY <1>1, ShellInvariant, PTL

\* Between two lines the streams are those the instance was started with ("always",
\* says cexpparse), however the lines before have ended.
THEOREM StreamsRestored == Spec => []Restored
<1>1. IInv => Restored
  BY ReadyClean DEF IInv, Restored, Ready
<1> QED
  BY <1>1, ShellInvariant, PTL

\* No open file is forgotten but the scripts whose frames a longjmp has dropped.
THEOREM NoFileForgotten == Spec => []FilesAccounted
<1>1. IInv => FilesAccounted
  BY DEF IInv
<1> QED
  BY <1>1, ShellInvariant, PTL

LEMMA StepTransparent ==
    ASSUME IInv, Next, Len(stack') < Len(stack)
    PROVE  Len(stack') = Len(stack) - 1 /\ std' = Top.entry
<1>1. TypeOK /\ EditorFollows /\ ContextsGood /\ stack \in Seq(Instances)
  BY DEF IInv, TypeOK
<1>2. ASSUME NEW S, NEW Q, Closing(S, Q)
      PROVE  Len(stack') = Len(stack) - 1 /\ std' = Top.entry
  <2> PICK m : m = Len(stack) - 1
    OBVIOUS
  <2>1. Stacked(m) /\ m \in Nat /\ Len(stack) = m + 1
    BY <1>1, <1>2, ClosingShape
  <2>2. Len(stack') = m
    BY <2>1 DEF Stacked
  <2> QED
    BY <1>2, <2>1, <2>2 DEF Closing, Back
<1>3. CASE Calling
  <2>1. PICK x \in Instances : stack' = Append(stack, x) /\ x.entry = std
    BY <1>3 DEF Calling
  <2>2. Len(stack') = Len(stack) + 1
    BY <1>1, <2>1, Pushed
  <2> QED
    BY <1>1, <2>2
<1>4. CASE Opening \/ Sourcing
  <2>1. PICK x \in Instances : stack' = Append(Callers, x) /\ x.entry = Top.entry
    BY <1>4 DEF Opening, Sourcing
  <2>2. stack # <<>>
    BY <1>4 DEF Opening, Sourcing
  <2>3. Len(stack') = Len(stack)
    BY <1>1, <2>1, <2>2, Replaced
  <2> QED
    BY <1>1, <2>3
<1>5. \/ Calling \/ Opening \/ Sourcing
      \/ \E S, Q : Closing(S, Q)
  BY <1>1, StepKinds DEF Next
<1> QED
  BY <1>2, <1>3, <1>4, <1>5

\* An instance called from an expression gives its caller back the streams it was called
\* with.
THEOREM CallersUndisturbed == Spec => NestedTransparent
<1>1. IInv /\ [Next]_vars =>
        [Len(stack') < Len(stack) => Len(stack') = Len(stack) - 1 /\ std' = Top.entry]_vars
  BY StepTransparent
<1> QED
  BY <1>1, ShellInvariant, PTL DEF Spec, NestedTransparent

\* Only a line that redirects input and output and is refused is the first to close a
\* stream that somebody uses.
THEOREM OnlyRefusedLinesClose == Spec => StreamsStayOpen
<1>1. IInv /\ [Next]_vars => [spoilt' => spoilt \/ BothRefused]_vars
  <2> SUFFICES ASSUME IInv, Next, spoilt', ~spoilt
               PROVE  BothRefused
    OBVIOUS
  <2>1. Step /\ spoilt' = (spoilt \/ ~StreamsOpen') /\ spoilt \in BOOLEAN
    BY DEF Next, IInv, TypeOK
  <2>2. spoilt' \in BOOLEAN /\ ~StreamsOpen' /\ Exclusive
    BY <2>1 DEF IInv
  <2>3. Exclusive' \/ (BothRefused /\ ~StreamsOpen')
    BY <2>1, <2>2, StepKeeps
  <2> QED
    BY <2>2, <2>3 DEF Exclusive
<1> QED
  BY <1>1, ShellInvariant, PTL DEF Spec, StreamsStayOpen
=============================================================================
