----------------------------- MODULE CommandLine -----------------------------
(***************************************************************************)
(* Which sockets a command line or a configuration file asks for:          *)
(* parse_upstream_groups_from_args (cli/args.rs), load_configuration and   *)
(* print_config_from_args (cli/commands/run.rs), the filters of the file   *)
(* (config/mod.rs), and print_config_as_cli (cli/commands/config.rs).      *)
(*                                                                         *)
(* In round 1 the arguments come from a user and the file, if there are    *)
(* no arguments, from an editor.  Then `run --print-config` writes the     *)
(* configuration to a file, `config command` turns that file into a        *)
(* command line, and round 2 reads this one.                               *)
(***************************************************************************)
EXTENDS SequencesExt

CONSTANTS
    Upstreams, Paths,
    Filters,       \* arguments of the form type=value
    Verbose,       \* the argument "-v"
    Stem,          \* the file stem of each path, as a name
    FileConfigs,   \* what an edited configuration file may hold
    NoUpstream, NoGroup, NoSpec,
    MaxArgs        \* bound: arguments of the user, after `run`

(***************************************************************************)
(* An argument with its value: `--upstream U` and `--upstream=U` are read  *)
(* alike, and so are the two forms of `--socket`.  An "option" is any      *)
(* other long option: `--quiet`, `--print-config`, `--config FILE`.        *)
(***************************************************************************)
Words == Filters \cup {Verbose}
Args == [kind : {"upstream"}, arg : Upstreams] \cup [kind : {"socket"}, arg : Paths]
        \cup [kind : {"word"}, arg : Words] \cup {[kind |-> "option", arg |-> "--config"]}

SocketSpec == [path : Paths, filters : Seq(Words)]
UpstreamGroup == [upstream : Upstreams, sockets : Seq(SocketSpec)]
SocketEntry == [path : Paths, upstream : Upstreams \cup {NoUpstream}, filters : Seq(Seq(Words))]

(* A configuration has a default upstream, and a finite table of sockets.  *)
IsConfig(c) ==
    /\ c = [upstream |-> c.upstream, sockets |-> c.sockets]
    /\ c.sockets \in [DOMAIN c.sockets -> SocketEntry] /\ IsFiniteSet(DOMAIN c.sockets)

(* A name is a stem, or a name with a number appended: "work", "work-2".   *)
(* The two No... stand for a None.                                         *)
ASSUME CommandLineAssumption ==
    /\ DOMAIN Stem = Paths /\ \A path \in Paths : Stem[path] \in Seq(ToSet(Stem[path]))
    /\ NoUpstream \notin Upstreams
    /\ NoGroup \notin UpstreamGroup /\ NoSpec \notin SocketSpec
    /\ Verbose \notin Filters
    /\ MaxArgs \in Nat
    /\ \A c \in FileConfigs : IsConfig(c) /\ c.upstream \in Upstreams

(* External: clap wants a filter behind a socket or another filter, and    *)
(* "-v" at most once, anywhere.                                            *)
ClapAccepts(read, t) ==
    t.kind = "word" =>
        IF t.arg = Verbose THEN t \notin ToSet(read)
        ELSE read # <<>> /\ Last(read).kind \in {"socket", "word"} /\ Last(read).arg # Verbose

VARIABLES
    phase,    \* "parse", "load", "loaded", "saved"
    round,    \* 1: the user's arguments; 2: those `config command` printed
    env,      \* SSH_AUTH_SOCK
    args,     \* the arguments read so far
    input,    \* round 2: the arguments still to be read
    group,    \* current_group
    spec,     \* current_socket
    groups,   \* the finished groups
    pending,  \* the sockets that load_configuration has still to take
    config,   \* the configuration: default upstream and table of sockets
    before    \* history: the configuration of round 1

vars == <<phase, round, env, args, input, group, spec, groups, pending, config, before>>

parserVars == <<group, spec, groups>>

NoConfig == [upstream |-> NoUpstream, sockets |-> <<>>]

ParserStart ==
    /\ group' = NoGroup /\ spec' = NoSpec /\ groups' = <<>>
    /\ pending' = <<>> /\ config' = NoConfig /\ args' = <<>>

Init ==
    /\ phase = "parse" /\ round = 1
    /\ env \in Upstreams \cup {NoUpstream}
    /\ args = <<>> /\ input = <<>>
    /\ group = NoGroup /\ spec = NoSpec /\ groups = <<>>
    /\ pending = <<>> /\ config = NoConfig /\ before = NoConfig

-----------------------------------------------------------------------------
(***************************************************************************)
(* parse_upstream_groups_from_args: one action per branch of the loop.     *)
(***************************************************************************)

(* `iter.next()` *)
NextArg(t) ==
    /\ phase = "parse"
    /\ IF round = 1 THEN Len(args) < MaxArgs /\ ClapAccepts(args, t)
                    ELSE input # <<>> /\ t = Head(input)
    /\ args' = Append(args, t)
    /\ input' = IF round = 1 THEN input ELSE Tail(input)
    /\ UNCHANGED <<phase, round, env, pending, config, before>>

NewGroup(u) == [upstream |-> u, sockets |-> <<>>]

(* `if let Some(spec) = current_socket.take() && let Some(group)` *)
WithSpec == IF spec = NoSpec \/ group = NoGroup THEN group
            ELSE [group EXCEPT !.sockets = Append(@, spec)]

(* An operator marked "Mutant" is no part of the model: it is the one below *)
(* it with a plausible mistake, which a property has to catch.             *)
(* Mutant: a group without sockets is kept. *)
WithAnyGroup(g) == IF g = NoGroup THEN groups ELSE Append(groups, g)

(* `if let Some(group) = current_group.take() && !group.sockets.is_empty()` *)
WithGroup(g) == IF g = NoGroup THEN groups
                ELSE IF g.sockets = <<>> THEN groups ELSE Append(groups, g)

TakeUpstream(t) ==
    /\ t.kind = "upstream" /\ NextArg(t)
    /\ groups' = WithGroup(WithSpec)
    /\ group' = NewGroup(t.arg)
    /\ spec' = NoSpec

TakeSocket(t) ==
    /\ t.kind = "socket" /\ NextArg(t)
    /\ group' = IF group = NoGroup /\ env # NoUpstream THEN NewGroup(env) ELSE WithSpec
    /\ spec' = [path |-> t.arg, filters |-> <<>>]
    /\ UNCHANGED groups

(* Whatever does not begin with "--" is a filter of the socket. *)
TakeWord(t) ==
    /\ t.kind = "word" /\ spec # NoSpec /\ NextArg(t)
    /\ spec' = [spec EXCEPT !.filters = Append(@, t.arg)]
    /\ UNCHANGED <<group, groups>>

SkipArg(t) ==
    /\ t.kind = "option" \/ (t.kind = "word" /\ spec = NoSpec)
    /\ NextArg(t)
    /\ UNCHANGED parserVars

-----------------------------------------------------------------------------
(***************************************************************************)
(* load_configuration.  Its table of sockets is a function from names.     *)
(***************************************************************************)
SocketsOf(g) ==
    [s \in 1..Len(g.sockets) |->
        [upstream |-> g.upstream, path |-> g.sockets[s].path, filters |-> g.sockets[s].filters]]

EndOfArgs ==
    /\ phase = "parse"
    /\ round = 2 => input = <<>>
    /\ WithGroup(WithSpec) # <<>>
    /\ groups' = WithGroup(WithSpec)
    /\ group' = NoGroup /\ spec' = NoSpec
    /\ config' = [upstream |-> groups'[1].upstream, sockets |-> <<>>]
    /\ pending' = FlattenSeq([g \in 1..Len(groups') |-> SocketsOf(groups'[g])])
    /\ phase' = "load"
    /\ UNCHANGED <<round, env, args, input, before>>

EntriesAt(path) == {n \in DOMAIN config.sockets : config.sockets[n].path = path}

(* An AND group, unless there is nothing in it. *)
AsGroups(filters) == IF filters = <<>> THEN <<>> ELSE <<filters>>

SetEntry(name, entry) ==
    config' = [config EXCEPT !.sockets =
                  [n \in DOMAIN @ \cup {name} |-> IF n = name THEN entry ELSE @[n]]]

NextSpec ==
    /\ phase = "load" /\ pending # <<>>
    /\ pending' = Tail(pending)
    /\ UNCHANGED <<phase, round, env, args, input, group, spec, groups, before>>

(* "Same path: add filters as OR group" *)
MergeSpec ==
    /\ NextSpec
    /\ \E name \in EntriesAt(Head(pending).path) :
          SetEntry(name, [config.sockets[name] EXCEPT !.filters = @ \o AsGroups(Head(pending).filters)])

(* "Handle duplicate names": the stem, or the first free number behind it *)
FreshName(stem) ==
    LET taken == DOMAIN config.sockets
        Free(i) == Append(stem, i) \notin taken
    IN  IF stem \notin taken THEN stem
        ELSE Append(stem, CHOOSE i \in 2..(2 + Cardinality(taken)) :
                              Free(i) /\ \A j \in 2..(i - 1) : ~Free(j))

(* Mutant: the name of a socket is its stem. *)
AddSpecUnderStem ==
    /\ NextSpec
    /\ EntriesAt(Head(pending).path) = {}
    /\ SetEntry(Stem[Head(pending).path],
                [path |-> Head(pending).path,
                 upstream |-> IF Head(pending).upstream = config.upstream THEN NoUpstream
                              ELSE Head(pending).upstream,
                 filters |-> AsGroups(Head(pending).filters)])

AddSpec ==
    /\ NextSpec
    /\ EntriesAt(Head(pending).path) = {}
    /\ SetEntry(FreshName(Stem[Head(pending).path]),
                [path |-> Head(pending).path,
                 upstream |-> IF Head(pending).upstream = config.upstream THEN NoUpstream
                              ELSE Head(pending).upstream,
                 filters |-> AsGroups(Head(pending).filters)])

Loaded ==
    /\ phase = "load" /\ pending = <<>>
    /\ phase' = "loaded"
    /\ UNCHANGED <<round, env, args, input, group, spec, groups, pending, config, before>>

(* No socket on the command line: the configuration file is read. *)
LoadFile ==
    /\ phase = "parse" /\ round = 1 /\ WithGroup(WithSpec) = <<>>
    /\ config' \in FileConfigs
    /\ phase' = "loaded"
    /\ args' = <<>> /\ group' = NoGroup /\ spec' = NoSpec
    /\ UNCHANGED <<round, env, input, groups, pending, before>>

-----------------------------------------------------------------------------
(***************************************************************************)
(* The conversions.                                                        *)
(***************************************************************************)

(* A socket is served from its own upstream, or from the default one. *)
UpstreamOf(c, name) ==
    IF c.sockets[name].upstream = NoUpstream THEN c.upstream ELSE c.sockets[name].upstream

Meaning(c) == {[path |-> c.sockets[n].path, upstream |-> UpstreamOf(c, n),
                filters |-> c.sockets[n].filters] : n \in DOMAIN c.sockets}

(* serialize_filters: a group of one is a string, any other an array. *)
Serialize(filters) ==
    [i \in 1..Len(filters) |->
        IF Len(filters[i]) = 1 THEN [string |-> TRUE, value |-> filters[i][1]]
                               ELSE [string |-> FALSE, value |-> filters[i]]]

(* deserialize_filters *)
Deserialize(values) ==
    [i \in 1..Len(values) |-> IF values[i].string THEN <<values[i].value>> ELSE values[i].value]

Reread(entry) == [entry EXCEPT !.filters = Deserialize(Serialize(@))]

(* `run --print-config` into a file, and the file read again; without      *)
(* sockets on the command line there is a file already.                    *)
PrintConfig ==
    /\ phase = "loaded" /\ round = 1
    /\ before' = config
    /\ config' = IF groups = <<>> THEN config ELSE
          [config EXCEPT !.sockets = [n \in DOMAIN @ |-> Reread(@[n])]]
    /\ phase' = "saved"
    /\ UNCHANGED <<round, env, args, input, group, spec, groups, pending>>

(* Mutant: the groups of a socket are printed behind one `--socket`. *)
OneLineSocketArgs(entry) ==
    <<[kind |-> "socket", arg |-> entry.path]>>
        \o [i \in 1..Len(FlattenSeq(entry.filters)) |->
               [kind |-> "word", arg |-> FlattenSeq(entry.filters)[i]]]

(* "Each AND group becomes a separate --socket line" *)
SocketArgs(entry) ==
    LET Line(words) == <<[kind |-> "socket", arg |-> entry.path]>>
                       \o [i \in 1..Len(words) |-> [kind |-> "word", arg |-> words[i]]]
    IN  IF entry.filters = <<>> THEN Line(<<>>)
        ELSE FlattenSeq([k \in 1..Len(entry.filters) |-> Line(entry.filters[k])])

(* The sockets of one upstream, in the order given *)
UpstreamArgs(c, u, names) ==
    <<[kind |-> "upstream", arg |-> u]>>
        \o FlattenSeq([i \in 1..Len(names) |-> SocketArgs(c.sockets[names[i]])])

(***************************************************************************)
(* print_config_as_cli.  Upstreams are printed by name, and the sockets of *)
(* each by path: any order stands for these.                               *)
(***************************************************************************)
ConfigCommand ==
    /\ phase = "saved"
    /\ LET used == {UpstreamOf(config, n) : n \in DOMAIN config.sockets}
           Named(u) == {n \in DOMAIN config.sockets : UpstreamOf(config, n) = u}
       IN  \E us \in SetToSeqs(used) :
           \E order \in {f \in [used -> UNION {SetToSeqs(Named(u)) : u \in used}] :
                            \A u \in used : f[u] \in SetToSeqs(Named(u))} :
               input' = FlattenSeq([i \in 1..Len(us) |-> UpstreamArgs(config, us[i], order[us[i]])])
    /\ ParserStart
    /\ phase' = "parse" /\ round' = 2
    /\ UNCHANGED <<env, before>>

Next ==
    \/ \E t \in Args : TakeUpstream(t) \/ TakeSocket(t) \/ TakeWord(t) \/ SkipArg(t)
    \/ EndOfArgs \/ MergeSpec \/ AddSpec \/ Loaded \/ LoadFile
    \/ PrintConfig \/ ConfigCommand

Spec == Init /\ [][Next]_vars

-----------------------------------------------------------------------------
(***************************************************************************)
(* Properties.                                                             *)
(***************************************************************************)
TypeOK ==
    /\ phase \in {"parse", "load", "loaded", "saved"}
    /\ round \in {1, 2}
    /\ env \in Upstreams \cup {NoUpstream}
    /\ args \in Seq(Args) /\ input \in Seq(Args)
    /\ spec \in SocketSpec \cup {NoSpec}
    /\ group \in UpstreamGroup \cup {NoGroup}
    /\ groups \in Seq({g \in UpstreamGroup : g.sockets # <<>>})
    /\ pending \in Seq([upstream : Upstreams, path : Paths, filters : Seq(Words)])
    /\ \A c \in {config, before} : IsConfig(c) /\ c.upstream \in Upstreams \cup {NoUpstream}
    /\ phase # "parse" => config.upstream \in Upstreams

(***************************************************************************)
(* What a command line says, read as a whole, `first` being SSH_AUTH_SOCK. *)
(***************************************************************************)

(* The upstream in force at the i-th argument: the last one named before   *)
UpstreamFor(first, line, i) ==
    LET earlier == {j \in 1..(i - 1) : line[j].kind = "upstream"}
    IN  IF earlier = {} THEN first ELSE line[Max(earlier)].arg

(* The filters of a socket at i: the words up to the next socket or upstream *)
BelongsTo(line, i, j) ==
    /\ line[j].kind = "word"
    /\ \A k \in (i + 1)..(j - 1) : line[k].kind \notin {"upstream", "socket"}

FiltersFor(line, i) ==
    LET upto[j \in 0..Len(line)] ==
            IF j <= i THEN <<>>
            ELSE IF BelongsTo(line, i, j) THEN Append(upto[j - 1], line[j].arg)
            ELSE upto[j - 1]
    IN  upto[Len(line)]

(* The `--socket` arguments that have an upstream, in their order          *)
DeclaredUpto(first, line) ==
    LET upto[i \in 0..Len(line)] ==
            IF i = 0 THEN <<>>
            ELSE IF line[i].kind = "socket" /\ UpstreamFor(first, line, i) # NoUpstream
            THEN Append(upto[i - 1], [upstream |-> UpstreamFor(first, line, i),
                                      path |-> line[i].arg, filters |-> FiltersFor(line, i)])
            ELSE upto[i - 1]
    IN  upto

Declared(first, line) == DeclaredUpto(first, line)[Len(line)]

(* The filters that these ask for at a path, in their order; a socket      *)
(* without filters adds none.                                              *)
AllFilters(sockets, path) ==
    LET upto[i \in 0..Len(sockets)] ==
            IF i = 0 THEN <<>>
            ELSE IF sockets[i].path = path /\ sockets[i].filters # <<>>
            THEN Append(upto[i - 1], sockets[i].filters)
            ELSE upto[i - 1]
    IN  upto[Len(sockets)]

AskedAt(sockets, path) == {i \in 1..Len(sockets) : sockets[i].path = path}

(* What they ask for: a path is served from each upstream it is named under *)
Wanted(sockets, path) ==
    {[path |-> path, upstream |-> sockets[i].upstream, filters |-> AllFilters(sockets, path)] :
        i \in AskedAt(sockets, path)}

(* A path that the documentation and the code read alike: it is below one  *)
(* upstream only, and no "-v" stands among its filters.                    *)
Unambiguous(sockets, path) ==
    \A i, j \in AskedAt(sockets, path) :
        sockets[i].upstream = sockets[j].upstream /\ Verbose \notin ToSet(sockets[i].filters)

(***************************************************************************)
(* The table built argument by argument is the one the command line asks   *)
(* for: a path is served if and only if some `--socket` with an upstream   *)
(* names it, by one entry (paths with the same file stem do not displace   *)
(* one another), from its upstream, through the filters of all of them in  *)
(* their order.  Where code and documentation read a line differently, it  *)
(* says nothing: see SocketKeepsUpstream, and README on "-v".               *)
(***************************************************************************)
ConfigIsAsDeclared ==
    phase = "loaded" /\ groups # <<>> =>
        \A path \in Paths :
            Unambiguous(Declared(env, args), path) =>
                {m \in Meaning(config) : m.path = path} = Wanted(Declared(env, args), path)

(***************************************************************************)
(* "Each `--upstream` starts a new group. Subsequent `--socket` definitions *)
(* belong to that upstream" (README.md:112): each socket is served from    *)
(* the upstream that it was named under.                                   *)
(***************************************************************************)
SocketKeepsUpstream ==
    phase = "loaded" /\ groups # <<>> =>
        \A d \in ToSet(Declared(env, args)) :
            \E m \in Meaning(config) : m.path = d.path /\ m.upstream = d.upstream

(***************************************************************************)
(* `run --print-config` and `config command` are faithful: the command     *)
(* line printed for a saved configuration serves the same paths from the   *)
(* same upstreams through the same filters.  A file edited by hand must    *)
(* have one entry per path, and no empty group beside another.             *)
(***************************************************************************)
Printable(c) ==
    /\ \A m, n \in DOMAIN c.sockets : c.sockets[m].path = c.sockets[n].path => m = n
    /\ \A n \in DOMAIN c.sockets : <<>> \notin ToSet(c.sockets[n].filters)

ConversionKeepsMeaning ==
    phase = "loaded" /\ round = 2 /\ Printable(before) => Meaning(config) = Meaning(before)

=============================================================================
