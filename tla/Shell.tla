--------------------------------- MODULE Shell ---------------------------------
(***************************************************************************)
(* The main loop of the interpreter (cexp.c) and the redirection of its    *)
(* streams (cexp.y), in one thread: instances of the shell that call each  *)
(* other from the expressions they evaluate, scripts that source scripts,  *)
(* redirections that fail half way, and faults that longjmp back to the    *)
(* innermost instance.  The stdio streams belong to the thread, so other   *)
(* threads do not show here.                                               *)
(***************************************************************************)
EXTENDS Naturals, Sequences, Functions

CONSTANTS
    Files,       \* streams fopen may return
    In, Out, Err,\* the streams the thread starts with
    ST_DEPTH,    \* levels of nested scripts
    MaxDepth,    \* bound: nested instances of the shell
    None         \* a null pointer

ASSUME DepthsOK == ST_DEPTH \in Nat \ {0} /\ MaxDepth \in Nat
ASSUME StreamsOK == {In, Out, Err} \cap Files = {} /\ None \notin Files \cup {In, Out, Err}

VARIABLES
    std,     \* stdin, stdout and stderr
    open,    \* streams that are open
    term,    \* the streams the line editor reads and writes
    stack,   \* the instances of the shell, innermost last
    lost,    \* script files whose stack frame a longjmp has dropped
    spoilt   \* history: a stream has been closed while it was in use

vars == <<std, open, term, stack, lost, spoilt>>

Streams == Files \cup {In, Out, Err}
Terminal(s) == [in |-> s.in, out |-> s.out]

Init ==
    /\ std = [in |-> In, out |-> Out, err |-> Err]
    /\ open = {In, Out, Err}
    /\ term = None
    /\ stack = <<>>
    /\ lost = {}
    /\ spoilt = FALSE

Top == stack[Len(stack)]
Callers == SubSeq(stack, 1, Len(stack) - 1)

\* The members of a parser context that hold streams, as cexpCreateParserCtx
\* sets them.
ParserCtx(outf, errf) ==
    [outf |-> outf, errf |-> errf, o_stdin |-> None, o_stdout |-> None,
     o_stderr |-> None, o_outf |-> None, o_errf |-> None]

-----------------------------------------------------------------------------
(* Redirection.  These operators map a record of the streams and the parser *)
(* context of one instance to what they become.                             *)

World == [std |-> std, open |-> open, term |-> term, ctx |-> Top.parser]

Either(saved, current) == IF saved # None THEN saved ELSE current

Before(w) ==
    [in |-> Either(w.ctx.o_stdin, w.std.in), out |-> Either(w.ctx.o_stdout, w.std.out),
     err |-> Either(w.ctx.o_stderr, w.std.err)]
CtxBefore(c) == ParserCtx(Either(c.o_outf, c.outf), Either(c.o_errf, c.errf))

\* Whether a stream was saved, and so its present value is to be closed.
IfSaved(saved, f) == IF saved # None THEN {f} ELSE {}

\* Mutant: the line editor is not told.
UnredirSilently(w) ==
    [std |-> Before(w), term |-> w.term, ctx |-> CtxBefore(w.ctx),
     open |-> (w.open \ IfSaved(w.ctx.o_stdout, w.std.out)) \ IfSaved(w.ctx.o_stdin, w.std.in)]

\* Mutant: the file that the output went to stays open.
UnredirUnclosed(w) ==
    [std |-> Before(w), term |-> Terminal(Before(w)), ctx |-> CtxBefore(w.ctx),
     open |-> w.open \ IfSaved(w.ctx.o_stdin, w.std.in)]

\* Mutant: stdout is closed after it has been assigned.
UnredirSwapped(w) ==
    [std |-> Before(w), term |-> Terminal(Before(w)), ctx |-> CtxBefore(w.ctx),
     open |-> (w.open \ IfSaved(w.ctx.o_stdout, Before(w).out)) \ IfSaved(w.ctx.o_stdin, w.std.in)]

\* Restore what cexpRedir saved and close what it opened.
cexpUnredir(w) ==
    [std |-> Before(w), term |-> Terminal(Before(w)), ctx |-> CtxBefore(w.ctx),
     open |-> (w.open \ IfSaved(w.ctx.o_stdout, w.std.out)) \ IfSaved(w.ctx.o_stdin, w.std.in)]

\* Mutant: the context's own streams do not follow.
OutputToStdout(w, nof, both) ==
    [w EXCEPT !.std.out = nof, !.std.err = IF both THEN nof ELSE @, !.open = @ \cup {nof},
              !.ctx.o_stdout = w.std.out,
              !.ctx.o_stderr = IF both THEN w.std.err ELSE @]

\* The output branch: nof becomes stdout, and stderr too for REDIRBOTH; the
\* context's own streams follow if it has any.
OutputTo(w, nof, both) ==
    LET c == w.ctx IN
    [w EXCEPT
       !.std.out = nof,
       !.std.err = IF both THEN nof ELSE @,
       !.open    = @ \cup {nof},
       !.ctx     = [c EXCEPT !.o_stdout = w.std.out,
                             !.o_outf = IF c.outf # None THEN c.outf ELSE @,
                             !.outf   = IF c.outf # None THEN nof ELSE @,
                             !.o_stderr = IF both THEN w.std.err ELSE @,
                             !.o_errf = IF both /\ c.errf # None THEN c.errf ELSE @,
                             !.errf   = IF both /\ c.errf # None THEN nof ELSE @]]

InputFrom(w, nif) ==
    [w EXCEPT !.std.in = nif, !.open = @ \cup {nif}, !.ctx.o_stdin = w.std.in]

\* stdin is put back and the file closed, o_stdin keeps its value.
InputBack(w, nif) == [w EXCEPT !.std.in = w.ctx.o_stdin, !.open = @ \ {nif}]

\* A line's redirectors: which of stdin and stdout, and whether stderr as well.
Redirectors == {r \in [in : BOOLEAN, out : BOOLEAN, both : BOOLEAN] : r.both => r.out}

\* The outcomes of cexpRedir, with the value it returns.
cexpRedir(w, r) ==
    IF ~r.in /\ ~r.out
      THEN {[ok |-> TRUE, w |-> w]}     \* no redirectors: not called
    ELSE IF (r.out /\ (w.ctx.o_stdout # None \/ w.ctx.o_stderr # None))
              \/ (r.in /\ w.ctx.o_stdin # None)
      THEN {[ok |-> FALSE, w |-> w]}
    ELSE
      LET Opened(v) == Files \ v.open
          inputs == IF r.in THEN {InputFrom(w, f) : f \in Opened(w)} ELSE {w}
          done(v) == [ok |-> TRUE, w |-> [v EXCEPT !.term = Terminal(v.std)]]
          refused(v) == [ok |-> FALSE, w |-> IF r.in THEN InputBack(v, v.std.in) ELSE v] IN
      (IF r.in THEN {[ok |-> FALSE, w |-> w]} ELSE {})
        \cup (IF r.out
                THEN (UNION {{done(OutputTo(v, f, r.both)) : f \in Opened(v)} : v \in inputs})
                       \cup {refused(v) : v \in inputs}
                ELSE {done(v) : v \in inputs})

-----------------------------------------------------------------------------
(* An instance of the shell *)

\* What an instance reads: its script, the line of option -c, or the terminal.
\* scripts is filestack.
Instance(p, quiet, mode, become, entry) ==
    [parser |-> p, quiet |-> quiet, mode |-> mode, become_interactive |-> become,
     at |-> "ready", scripts |-> <<>>, entry |-> entry]

NewParser(quiet, s) == ParserCtx(IF quiet THEN None ELSE s.out, s.err)

Ready == stack # <<>> /\ Top.at = "ready"
AtPrompt == Ready /\ Top.mode = "prompt" /\ Top.scripts = <<>>
InScript == Ready /\ Top.scripts # <<>>
AtStart == Ready /\ Top.mode # "prompt" /\ Top.scripts = <<>>

\* Who calls the shell: a thread that runs none, or an expression.
MayCall == IF stack = <<>> THEN TRUE ELSE Top.at = "eval"

\* Write back the world of the innermost instance and the rest of its record.
Update(w, t) ==
    /\ std' = w.std
    /\ open' = w.open
    /\ term' = w.term
    /\ stack' = Append(Callers, [t EXCEPT !.parser = w.ctx])

\* The end of cexp_main1's loop: with rval -1 (again), or once if the user
\* asked for it, the instance goes on at the prompt, else it returns.
Cleanup(w, t, again) ==
    LET u == cexpUnredir(w) IN
    IF again \/ t.become_interactive
      THEN Update([u EXCEPT !.ctx = NewParser(t.quiet, u.std)],
                  Instance(u.ctx, t.quiet, "prompt", FALSE, t.entry))
      ELSE /\ std' = u.std
           /\ open' = u.open
           /\ term' = IF Len(stack) = 1 THEN None ELSE u.term
           /\ stack' = Callers

\* cexp_main1 up to the first line: a new thread's shell, or one called by the
\* expression under evaluation, which is never made interactive.
cexp_main1(quiet, mode, become) ==
    /\ Len(stack) < MaxDepth
    /\ MayCall
    /\ stack' = Append(stack, Instance(NewParser(quiet, std), quiet, mode,
                                       become /\ stack = <<>>, std))
    /\ term' = IF stack = <<>> THEN Terminal(std) ELSE term
    /\ UNCHANGED <<std, open, lost>>

\* cexpparse has returned: on to the next line, if there may be one.
Parsed(w, t) ==
    IF t.scripts = <<>> /\ t.mode = "line" THEN Cleanup(w, t, FALSE)
                                           ELSE Update(w, [t EXCEPT !.at = "ready"])

\* A line is handed to the parser, which redirects before it evaluates.  When
\* cexpRedir fails the parser gives up and cexpparse undoes redirections.
Evaluate(r) ==
    /\ AtPrompt \/ InScript \/ (AtStart /\ Top.mode = "line")
    /\ \E result \in cexpRedir(cexpUnredir(World), r) :
          IF result.ok THEN Update(result.w, [Top EXCEPT !.at = "eval"])
                       ELSE Parsed(cexpUnredir(result.w), Top)
    /\ UNCHANGED lost

\* Mutant: redirections are left in place when the expression is done.
EvaluatedRedirected ==
    /\ stack # <<>> /\ Top.at = "eval"
    /\ Parsed(World, Top)
    /\ UNCHANGED lost

\* The expression is done, or has a syntax error.
Evaluated ==
    /\ stack # <<>> /\ Top.at = "eval"
    /\ Parsed(cexpUnredir(World), Top)
    /\ UNCHANGED lost

-----------------------------------------------------------------------------
(* Scripts *)

\* process_script returns: the instance is done if the script was its argument,
\* whether or not all scripts could be opened.
ScriptDone(w, t) ==
    IF t.mode = "script" THEN Cleanup(w, t, FALSE) ELSE Update(w, t)

\* Mutant: one more level than filestack holds.
SourceTooDeep ==
    /\ AtPrompt \/ InScript \/ (AtStart /\ Top.mode = "script")
    /\ Len(Top.scripts) <= ST_DEPTH
    /\ \E f \in Files \ open :
          Update([World EXCEPT !.open = @ \cup {f}], [Top EXCEPT !.scripts = Append(@, f)])
    /\ UNCHANGED lost

\* A line, or the argument, names a script: push it.
Source ==
    /\ AtPrompt \/ InScript \/ (AtStart /\ Top.mode = "script")
    /\ Len(Top.scripts) < ST_DEPTH
    /\ \E f \in Files \ open :
          Update([World EXCEPT !.open = @ \cup {f}], [Top EXCEPT !.scripts = Append(@, f)])
    /\ UNCHANGED lost

\* The script cannot be opened, or is nested too deeply: the scripts around it
\* go on.
SourceFails ==
    /\ AtPrompt \/ InScript \/ (AtStart /\ Top.mode = "script")
    /\ IF Top.scripts = <<>> THEN ScriptDone(World, Top) ELSE Update(World, Top)
    /\ UNCHANGED lost

\* The innermost script is at its end: close and pop it.
EndOfScript ==
    /\ InScript
    /\ LET n == Len(Top.scripts)
           t == [Top EXCEPT !.scripts = SubSeq(@, 1, n - 1)]
           w == [World EXCEPT !.open = @ \ {Top.scripts[n]}] IN
          IF n = 1 THEN ScriptDone(w, t) ELSE Update(w, t)
    /\ UNCHANGED lost

\* readline_r returns no line.
EndOfInput ==
    /\ AtPrompt
    /\ Cleanup(World, Top, FALSE)
    /\ UNCHANGED lost

-----------------------------------------------------------------------------
(* Faults *)

\* Mutant: the longjmp goes to the outermost instance.
cexp_killOutermost(doWhat) ==
    /\ stack # <<>> /\ Top.at = "eval"
    /\ stack' = <<Instance(NewParser(stack[1].quiet, std), stack[1].quiet, "prompt",
                           FALSE, stack[1].entry)>>
    /\ lost' = lost \cup UNION {Range(stack[i].scripts) : i \in DOMAIN stack}
    /\ UNCHANGED <<std, open, term>>

\* An exception handler, or the expression itself, calls cexp_kill: longjmp to
\* the innermost instance; the frame of process_script is gone.
cexp_kill(doWhat) ==
    /\ stack # <<>> /\ Top.at = "eval"
    /\ Cleanup(World, Top, doWhat = "recover")
    /\ lost' = lost \cup Range(Top.scripts)

\* The streams that are in use or that some instance will put back, and the
\* scripts that are being read.
Redirected ==
    {std.in, std.out, std.err} \cup UNION {{stack[i].entry.in, stack[i].entry.out,
                                          stack[i].entry.err} : i \in DOMAIN stack}
Sourced == UNION {Range(stack[i].scripts) : i \in DOMAIN stack}

\* No script is read through a stream that has been closed, and no expression
\* is evaluated, here or in an outer instance, with one for stdin, stdout or
\* stderr: "redirections are undone always" (cexpparse).  It fails when a line
\* redirects input and output and the second file cannot be opened: o_stdin
\* stays set, and cexpUnredir closes the original stdin.
StreamsOpen == Redirected \cup Sourced \subseteq open

Step ==
    \/ \E quiet, become \in BOOLEAN, mode \in {"script", "line", "prompt"} :
          cexp_main1(quiet, mode, become)
    \/ \E r \in Redirectors : Evaluate(r)
    \/ Evaluated
    \/ Source
    \/ SourceFails
    \/ EndOfScript
    \/ EndOfInput
    \/ \E doWhat \in {"recover", "killed"} : cexp_kill(doWhat)

Next == Step /\ spoilt' = (spoilt \/ ~StreamsOpen')

Spec == Init /\ [][Next]_vars

-----------------------------------------------------------------------------
(* Properties *)

\* Types; filestack has ST_DEPTH entries, and nobody but the innermost instance
\* is between two lines.
Saved == Streams \cup {None}
StdStreams == [in : Streams, out : Streams, err : Streams]
Contexts == [outf : Saved, errf : Streams, o_stdin : Saved, o_stdout : Saved,
             o_stderr : Saved, o_outf : Saved, o_errf : Saved]
Instances == [parser : Contexts, quiet : BOOLEAN, mode : {"script", "line", "prompt"},
              become_interactive : BOOLEAN, at : {"ready", "eval"}, scripts : Seq(Files),
              entry : StdStreams]

TypeOK ==
    /\ std \in StdStreams
    /\ open \subseteq Streams /\ lost \subseteq Files /\ spoilt \in BOOLEAN
    /\ term \in {None} \cup [in : Streams, out : Streams]
    /\ stack \in Seq(Instances)
    /\ \A i \in DOMAIN stack :
          /\ Len(stack[i].scripts) <= ST_DEPTH
          /\ i < Len(stack) => stack[i].at = "eval"

\* cexpparse undoes redirections "always and before cexpparse() returns": no
\* matter how a line ended, between two lines the streams are the ones the
\* instance was started with.
Restored == Ready => std = Top.entry

\* An instance called from an expression, with whatever it redirected, sourced
\* or was killed in, gives its caller back the streams it was called with.
NestedTransparent ==
    [][Len(stack') < Len(stack) => Len(stack') = Len(stack) - 1 /\ std' = Top.entry]_vars

\* The interpreter's own output and messages go where the expression's go, also
\* after an instance inside a redirection has come and gone.
OutputFollows ==
    stack # <<>> =>
       /\ Top.parser.outf = IF Top.quiet THEN None ELSE std.out
       /\ Top.parser.errf = std.err

\* The line editor, which all instances share, is told of every change of the
\* streams (redir_cb).
EditorFollows == term = IF stack = <<>> THEN None ELSE Terminal(std)

\* Whatever reads or writes for an instance uses the instance's streams.
StreamsFollowed == TypeOK /\ OutputFollows /\ EditorFollows

\* Every open stream is in use as a stream, saved, or a script being read,
\* unless a fault made the shell forget the script it was reading.
FilesAccounted == open \cap Files \subseteq Redirected \cup Sourced \cup lost

\* A line that redirects input and output ends before it is evaluated.
BothRefused ==
    \E r \in Redirectors : r.in /\ r.out /\ Evaluate(r) /\ Len(stack') <= Len(stack)
                                  /\ (stack' # <<>> => stack'[Len(stack')].at # "eval"
                                                         \/ Len(stack') < Len(stack))

\* This is the only way in which StreamsOpen fails: no other sequence of redirections, scripts, nested
\* instances and faults is the first to close a stream that is still used.
StreamsStayOpen == [][spoilt' => spoilt \/ BothRefused]_vars
-----------------------------------------------------------------------------
(* The inductive invariant behind these *)

\* The streams as instance i has redirected them: those the instance it has called
\* was started with.
Held(i) == IF i = Len(stack) THEN std ELSE stack[i + 1].entry

\* Context c of an instance that was started with streams e (quiet or not) and has
\* made them s: cexpUnredir will put back e, and the context's own streams follow s.
ContextGood(c, quiet, s, e) ==
    /\ Before([std |-> s, ctx |-> c]) = e
    /\ CtxBefore(c) = NewParser(quiet, e)
    /\ c.outf = (IF quiet THEN None ELSE s.out) /\ c.errf = s.err
    /\ c.o_stderr # None => c.o_stdout # None /\ s.err = s.out

ContextsGood ==
    \A i \in DOMAIN stack :
        LET t == stack[i] IN
        /\ ContextGood(t.parser, t.quiet, Held(i), t.entry)
        /\ t.at = "ready" => t.parser = NewParser(t.quiet, t.entry)

\* Streams that instance i has opened by redirection and will close.
Private(i) ==
    LET c == stack[i].parser IN
    IfSaved(c.o_stdout, Held(i).out) \cup IfSaved(c.o_stdin, Held(i).in)

Entries(i) == {stack[i].entry.in, stack[i].entry.out, stack[i].entry.err}

\* As long as no stream in use has been closed, what somebody will close is used by
\* nobody else, or only by the instances it has called.
Exclusive ==
    /\ StreamsOpen
    /\ Redirected \cap Sourced = {}
    /\ \A i \in DOMAIN stack : \A j \in 1..i : Private(i) \cap Entries(j) = {}
    /\ \A i, j \in DOMAIN stack :
         \A k \in DOMAIN stack[i].scripts, l \in DOMAIN stack[j].scripts :
            stack[i].scripts[k] = stack[j].scripts[l] => i = j /\ k = l

\* Every instance can give back what it was started with, the editor and the
\* interpreter follow, and open streams have one user who closes them.
IInv ==
    /\ TypeOK /\ EditorFollows /\ ContextsGood /\ FilesAccounted
    /\ ~spoilt => Exclusive
=============================================================================
