----------------------------- MODULE Redaction -----------------------------
(* crates/core/src/redact.rs: the registry of live secrets, the log writer
   that scrubs every finished line, and the filter that drops the events of
   named dependency modules before they are formatted.

   Text is a sequence of letters; a letter is a model value, Newline ends a
   line and Redacted stands for the whole placeholder. *)
EXTENDS Naturals, Sequences, SequencesExt

CONSTANTS Letters, Newline, Redacted,
          Secrets,         \* the local secret values, sequences of letters
          MIN_SECRET_LEN,
          MaxLine          \* longest line the log is fed

VARIABLES handles,   \* strong references per secret value
          registry,  \* REGISTRY: the registered values, weakly held
          line,      \* LineScrubWriter.line
          out        \* what flush_line forwarded in the last step: [text, from, alive]

vars == <<handles, registry, line, out>>

\* Handle counts, registered values and lines stay in their domains.
TypeOK ==
    /\ handles \in [Secrets -> 0..2]
    /\ registry \subseteq Secrets
    /\ line \in Seq(Letters \union {Newline}) /\ Len(line) <= MaxLine + 1

Nothing == [text |-> <<>>, from |-> <<>>, alive |-> {}]

Init ==
    /\ handles = [s \in Secrets |-> 0]
    /\ registry = {} /\ line = <<>>
    /\ out = Nothing

Alive(s) == handles[s] > 0
retained == {s \in registry : Alive(s)}

\* register_owned: dead entries go, and a value long enough to scrub comes in.
register_owned(s) ==
    /\ handles[s] < 2
    /\ handles' = [handles EXCEPT ![s] = @ + 1]
    /\ registry' = IF Len(s) >= MIN_SECRET_LEN THEN retained \union {s} ELSE registry
    /\ out' = Nothing
    /\ UNCHANGED line

\* Dropping a handle only zeroizes; its registration goes at the next prune.
drop(s) ==
    /\ Alive(s)
    /\ handles' = [handles EXCEPT ![s] = @ - 1]
    /\ out' = Nothing
    /\ UNCHANGED <<registry, line>>

-----------------------------------------------------------------------------
(* scrub *)

Occurs(s, text, i) == i + Len(s) - 1 <= Len(text) /\ SubSeq(text, i, i + Len(s) - 1) = s
contains(text, s) == \E i \in DOMAIN text : Occurs(s, text, i)

\* str::replace: left to right, occurrences that do not overlap. done counts
\* the letters consumed so far.
Replace(text, s) ==
    LET step(acc, i) ==
            IF i <= acc.done THEN acc
            ELSE IF Occurs(s, text, i)
                 THEN [done |-> i + Len(s) - 1, text |-> Append(acc.text, Redacted)]
                 ELSE [done |-> i, text |-> Append(acc.text, text[i])]
    IN FoldLeft(step, [done |-> 0, text |-> <<>>], [i \in DOMAIN text |-> i]).text

\* sort_by_key(Reverse(len)): longest first.
scrub_ShortestFirst(input) ==
    LET secrets == SetToSortSeq(retained, LAMBDA a, b : Len(a) < Len(b))
    IN FoldLeft(LAMBDA text, s : IF contains(input, s) THEN Replace(text, s) ELSE text,
                input, secrets)

scrub(input) ==
    LET secrets == SetToSortSeq(retained, LAMBDA a, b : Len(a) > Len(b))
    IN FoldLeft(LAMBDA text, s : IF contains(input, s) THEN Replace(text, s) ELSE text,
                input, secrets)

\* flush_line of one line; an empty one forwards nothing.
Forwarded(text) ==
    /\ out' = [text |-> scrub(text), from |-> text, alive |-> {s \in Secrets : Alive(s)}]
    /\ registry' = retained

\* LineScrubWriter::write of one piece: what ends a line is forwarded, the
\* rest waits. A piece holds at most one newline, at its end.
write(piece) ==
    /\ Len(line \o piece) <= MaxLine
    /\ IF Last(piece) = Newline
       THEN Forwarded(line \o piece) /\ line' = <<>>
       ELSE line' = line \o piece /\ out' = Nothing /\ UNCHANGED registry
    /\ UNCHANGED handles

Pieces == UNION {[1..n -> Letters] : n \in 1..2} \union {<<Newline>>}

Next ==
    \/ \E s \in Secrets : register_owned(s) \/ drop(s)
    \/ \E piece \in Pieces : write(piece)

Spec == Init /\ [][Next]_vars

-----------------------------------------------------------------------------
(* The filter. A target is the sequence of its path segments. *)

ERROR == 1
WARN == 2
INFO == 3
DEBUG == 4
TRACE == 5
Levels == ERROR..TRACE

MODULE_DROP_ALL == {<<"muon", "common", "auth">>}

MODULE_CAPS ==
    {[module |-> <<"muon", "auth", "login">>, cap |-> WARN],
     [module |-> <<"muon", "auth", "from_fork">>, cap |-> WARN],
     [module |-> <<"muon", "store">>, cap |-> WARN],
     [module |-> <<"muon", "client">>, cap |-> WARN],
     [module |-> <<"muon", "transport">>, cap |-> ERROR],
     [module |-> <<"muon", "common", "retry">>, cap |-> WARN],
     [module |-> <<"muon", "doh">>, cap |-> INFO],
     [module |-> <<"pvpnclient">>, cap |-> DEBUG]}

target_matches(target, prefix) == IsPrefix(prefix, target)

\* own: the target's first segment starts with OWN_TARGET_PREFIX.
allows(release, target, own, level) ==
    /\ ~\E module \in MODULE_DROP_ALL : target_matches(target, module)
    /\ ~\E entry \in MODULE_CAPS : level > entry.cap /\ target_matches(target, entry.module)
    /\ ~(release /\ level > DEBUG /\ ~own)

\* capture_at_level: an event is formatted when the runtime level and the
\* filter both let it through.
formatted(runtime, release, event) ==
    event.level <= runtime /\ allows(release, event.target, FALSE, event.level)

\* StubDependencyEmitter: the dependency log sites that carry secrets.
StubEvents ==
    {[target |-> <<"muon", "auth", "login">>, level |-> INFO],
     [target |-> <<"muon", "auth", "from_fork">>, level |-> INFO],
     [target |-> <<"muon", "store">>, level |-> INFO],
     [target |-> <<"muon", "common", "auth">>, level |-> INFO],
     [target |-> <<"muon", "client">>, level |-> INFO],
     [target |-> <<"pvpnclient", "pvpnclient", "supervisor", "localagent">>, level |-> TRACE],
     [target |-> <<"muon", "transport", "http", "req">>, level |-> WARN],
     [target |-> <<"muon", "transport", "http", "hyper", "sender">>, level |-> DEBUG],
     [target |-> <<"muon", "transport", "http", "hyper", "http1">>, level |-> TRACE],
     [target |-> <<"muon", "common", "retry">>, level |-> DEBUG],
     [target |-> <<"muon", "common", "auth">>, level |-> WARN],
     [target |-> <<"muon", "common", "auth">>, level |-> ERROR],
     [target |-> <<"muon", "doh">>, level |-> DEBUG]}

assert_no_secrets_reach_logs ==
    \A runtime \in Levels, release \in BOOLEAN, event \in StubEvents :
        ~formatted(runtime, release, event)

-----------------------------------------------------------------------------
(* Properties. *)

\* The stretches of a text that a secret long enough to register covers.
Stretches(text, alive) ==
    {i..(i + Len(s) - 1) : <<s, i>> \in
        {p \in {s \in alive : Len(s) >= MIN_SECRET_LEN} \X DOMAIN text :
            Occurs(p[1], text, p[2])}}

\* However a line was cut into writes, and whatever was registered or dropped
\* meanwhile, no value alive when it is forwarded appears in it whole; and where
\* the values in it nest without otherwise overlapping, exactly the letters
\* that none of them covered are forwarded, in their order: scrub's
\* longest-first order leaves nothing of a longer secret behind by replacing a
\* shorter one inside it, and ordinary text is not lost.
NoSecretIsLogged ==
    LET stretches == Stretches(out.from, out.alive)
        kept == SelectSeq([i \in DOMAIN out.from |-> i], LAMBDA i : i \notin UNION stretches)
        nested == \A x, y \in stretches : x \subseteq y \/ y \subseteq x \/ x \intersect y = {}
    IN /\ Stretches(out.text, out.alive) = {}
       /\ nested => SelectSeq(out.text, LAMBDA ch : ch # Redacted)
                        = [k \in DOMAIN kept |-> out.from[kept[k]]]

=============================================================================
