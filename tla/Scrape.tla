------------------------------- MODULE Scrape -------------------------------
(***************************************************************************)
(* One collection of the system module: internal/modules/system scrapes a  *)
(* node_exporter, internal/shared/promparse reads the answer line by line, *)
(* and Extract reduces the samples to the dashboard's metrics.             *)
(*                                                                         *)
(* A line is a sequence of tokens: the characters the parser looks at, one *)
(* token each, and words for what stands between them.  The exporter       *)
(* writes its lines in any way the text format allows, and its answer may  *)
(* be damaged or cut on its way.                                           *)
(***************************************************************************)
EXTENDS Integers, SequencesExt

CONSTANTS
    Token,      \* the tokens of a text
    Machines,   \* what there may be to measure (see MachineAssumption)
    Values,     \* the values of their labels, each a sequence of tokens
    Number,     \* numeral -> the number it stands for
    Time,       \* time.Now().Unix() at the scrape
    Comments,   \* lines without a sample
    Garbage     \* lines that are not in the format

\* The marks of the format.
Space  == " "
Quote  == "\""
Comma  == ","
Equals == "="
LBrace == "{"
RBrace == "}"
Hash   == "#"
Mark   == {Space, Quote, Comma, Equals, LBrace, RBrace, Hash}

\* What Extract looks for: the exporter's unlabelled families, its modes, the root
\* directory.
Plain == {"node_boot_time_seconds", "node_load1", "node_memory_MemTotal_bytes"}
Mode  == <<"idle", "nice", "user">>
Slash == "/"

\* The words of the format that a machine does not determine.
Stamp == "1"
Word  == Plain \cup ToSet(Mode) \cup {Slash, Stamp}
         \cup {"node_cpu_seconds_total", "cpu", "mode",
               "node_filesystem_avail_bytes", "node_filesystem_size_bytes",
               "device", "mountpoint"}

ASSUME TokenAssumption == Mark \cup Word \subseteq Token

\* A label value has no closing brace and no quote: parseLine and parseLabels make
\* something else of them.
ASSUME ValueAssumption ==
    \A v \in Values : v \in Seq(Token) /\ ToSet(v) \cap {RBrace, Quote} = {}

\* cpu: the cores with their seconds per mode.  fs: the filesystems that could be
\* read, in the order in which every family of the exporter lists them.  plain: the
\* unlabelled families that there are.
ASSUME MachineAssumption ==
    /\ Machines \subseteq
          [cpu   : Seq([id : Values, seconds : [ToSet(Mode) -> DOMAIN Number]]),
           fs    : Seq([device : Values, mount : Values,
                        size : DOMAIN Number, avail : DOMAIN Number]),
           plain : Seq([name : Plain, value : DOMAIN Number])]
    /\ \A f \in Machines :
          /\ \A i, j \in DOMAIN f.cpu : f.cpu[i].id = f.cpu[j].id => i = j
          /\ \A i, j \in DOMAIN f.plain : f.plain[i].name = f.plain[j].name => i = j
ASSUME NumberAssumption ==
    \A n \in DOMAIN Number : n \in Token \ Mark /\ Number[n] \in Nat
ASSUME TimeAssumption == Time \in Nat

\* The first token of a line that is no space.
Begins(line, i) == /\ i \in DOMAIN line /\ line[i] # Space
                   /\ \A j \in 1..(i - 1) : line[j] = Space

\* A comment is blank or begins with "#".
ASSUME CommentsAssumption ==
    \A line \in Comments :
        line \in Seq(Token) /\ \A i \in DOMAIN line : Begins(line, i) => line[i] = Hash

\* A line may be damaged in four ways: no number is left in it; its labels have lost
\* their end; nothing follows them; they are not text = "text" any more.
NoNumber(line) == ToSet(line) \cap DOMAIN Number = {}

LabelsFrom(line, i) == /\ i \in DOMAIN line /\ line[i] = LBrace
                       /\ \A j \in 1..(i - 1) : line[j] \notin {LBrace, Space}

LabelsEnd(line, i, k) == /\ k \in (i + 1)..Len(line) /\ line[k] = RBrace
                         /\ \A j \in (i + 1)..(k - 1) : line[j] # RBrace

NotClosed(line, i) == ~\E k \in DOMAIN line : LabelsEnd(line, i, k)

NotQuoted(line, i, k) ==
    /\ \E j \in (i + 1)..(k - 1) : line[j] \notin {Space, Comma}
    /\ \/ \A j \in (i + 1)..(k - 1) : line[j] # Equals
       \/ \A j, l \in (i + 1)..(k - 1) : line[j] = Quote /\ line[l] = Quote => j = l

Damaged(line) ==
    \/ NoNumber(line)
    \/ \E i \in DOMAIN line :
          /\ LabelsFrom(line, i)
          /\ \/ NotClosed(line, i)
             \/ LabelsEnd(line, i, Len(line))
             \/ \E k \in DOMAIN line : LabelsEnd(line, i, k) /\ NotQuoted(line, i, k)

ASSUME GarbageAssumption ==
    \A line \in Garbage :
        /\ line \in Seq(Token) /\ Damaged(line)
        /\ \E i \in DOMAIN line : Begins(line, i) /\ line[i] # Hash

VARIABLES
    facts,      \* what the exporter measures in this collection
    pc,         \* "idle", "request", "scan", "done", "failed"
    samples,    \* what Parse has collected
    data,       \* the metrics of modules.Data
    fault       \* history: the scrape was refused, damaged or cut

vars == <<facts, pc, samples, data, fault>>

-----------------------------------------------------------------------------
(* The exporter. *)

\* A sample as it is written: its labels in an order.
Written(name, labels, value) == [name |-> name, labels |-> labels, value |-> value]

CpuSamples(f) ==
    [k \in 1..(Len(f.cpu) * Len(Mode)) |->
        LET core == f.cpu[(k - 1) \div Len(Mode) + 1]
            mode == Mode[((k - 1) % Len(Mode)) + 1]
        IN  Written("node_cpu_seconds_total",
                    << <<"cpu", core.id>>, <<"mode", <<mode>>>> >>, core.seconds[mode])]

FsSamples(f, name, field) ==
    [i \in DOMAIN f.fs |->
        Written(name, << <<"device", f.fs[i].device>>, <<"mountpoint", f.fs[i].mount>> >>,
                f.fs[i][field])]

PlainSamples(f) == [i \in DOMAIN f.plain |-> Written(f.plain[i].name, <<>>, f.plain[i].value)]

Exported(f) == CpuSamples(f)
               \o FsSamples(f, "node_filesystem_avail_bytes", "avail")
               \o FsSamples(f, "node_filesystem_size_bytes", "size")
               \o PlainSamples(f)

\* The liberties of the format: spaces between tokens and a trailing comma, empty
\* braces, a timestamp after the value.
Style == [spaced : BOOLEAN, braces : BOOLEAN, stamped : BOOLEAN]

Blank(style) == IF style.spaced THEN <<Space>> ELSE <<>>

RenderLabel(label, style) ==
    Blank(style) \o <<label[1], Equals, Quote>> \o label[2] \o <<Quote>>

\* A sample has two labels or none.
RenderLabels(labels, style) ==
    IF labels = <<>> THEN <<>>
    ELSE RenderLabel(labels[1], style) \o <<Comma>> \o RenderLabel(labels[2], style)
         \o (IF style.spaced THEN <<Comma>> ELSE <<>>)

Braces(labels, style) ==
    IF labels # <<>> \/ style.braces
    THEN <<LBrace>> \o RenderLabels(labels, style) \o <<RBrace>> ELSE <<>>

Fields(value, style) == <<value>> \o (IF style.stamped THEN <<Space, Stamp>> ELSE <<>>)

Render(s, style) ==
    <<s.name>> \o Braces(s.labels, style) \o <<Space>> \o Fields(s.value, style)
    \o Blank(style)

-----------------------------------------------------------------------------
(* promparse. *)

At(s, marks) == {i \in DOMAIN s : s[i] \in marks}
From(s, i) == SubSeq(s, i, Len(s))
Before(s, i) == SubSeq(s, 1, i - 1)

\* strings.TrimSpace.
TrimSpace(s) ==
    LET words == {i \in DOMAIN s : s[i] # Space}
    IN  IF words = {} THEN <<>> ELSE SubSeq(s, Min(words), Max(words))

Skipped(line) == line # <<>> => line[1] = Hash

\* Mutant of TopLevel: a comma separates labels wherever it stands.
TopLevelAnywhere(s) == At(s, {Comma})

\* The commas outside of quoted strings: an even number of quotes before them.
TopLevel(s) == {i \in At(s, {Comma}) : Cardinality({j \in At(s, {Quote}) : j < i}) % 2 = 0}

SplitTopLevel(s) ==
    LET cuts == TopLevel(s) \cup {0, Len(s) + 1}
    IN  {TrimSpace(SubSeq(s, i + 1, Min({j \in cuts : j > i}) - 1)) :
            i \in cuts \ {Len(s) + 1}}

Pairs(s) == SplitTopLevel(s) \ {<<>>}

Key(pair) == TrimSpace(Before(pair, Min(At(pair, {Equals}))))
Quoted(pair) == TrimSpace(From(pair, Min(At(pair, {Equals})) + 1))

WellFormed(pair) ==
    /\ At(pair, {Equals}) # {}
    /\ Len(Quoted(pair)) >= 2
    /\ Quoted(pair)[1] = Quote /\ Last(Quoted(pair)) = Quote

ParseLabels(s) ==
    [k \in {Key(p) : p \in Pairs(s)} |->
        LET val == Quoted(CHOOSE p \in Pairs(s) : Key(p) = k)
        IN  SubSeq(val, 2, Len(val) - 1)]

\* The parts of a line: its name, what is between the first brace and the first
\* closing one, and the fields after it.
NameEnd(line) == Min(At(line, {LBrace, Space}))
Labelled(line) == line[NameEnd(line)] = LBrace
Closing(line) == {i \in At(line, {RBrace}) : i > NameEnd(line)}
Close(line) == Min(Closing(line))
LabelStr(line) == IF Labelled(line) THEN SubSeq(line, NameEnd(line) + 1, Close(line) - 1)
                                    ELSE <<>>
Rest(line) == TrimSpace(From(line, IF Labelled(line) THEN Close(line) + 1 ELSE NameEnd(line)))

\* Mutant of ValueField: the last field instead of the first.
ValueFieldLast(line) == From(Rest(line), Max(At(Rest(line), {Space}) \cup {0}) + 1)

ValueField(line) ==
    Before(Rest(line), Min(At(Rest(line), {Space}) \cup {Len(Rest(line)) + 1}))

IsSample(line) ==
    /\ At(line, {LBrace, Space}) # {}
    /\ Labelled(line) => Closing(line) # {}
    /\ \A p \in Pairs(LabelStr(line)) : WellFormed(p)
    /\ Len(ValueField(line)) = 1 /\ ValueField(line)[1] \in DOMAIN Number

ParseLine(line) == [name   |-> Before(line, NameEnd(line)),
                    labels |-> ParseLabels(LabelStr(line)),
                    value  |-> Number[ValueField(line)[1]]]

-----------------------------------------------------------------------------
(* Extract. *)

Total(v) ==
    LET sum[n \in 0..Len(v)] == IF n = 0 THEN 0 ELSE sum[n - 1] + v[n]
    IN  sum[Len(v)]

Named(name) == {i \in DOMAIN samples : samples[i].name = <<name>>}

\* Labels[k], which is "" when there is no such label.
Label(i, k) == IF <<k>> \in DOMAIN samples[i].labels THEN samples[i].labels[<<k>>] ELSE <<>>

With(name, k, v) == {i \in Named(name) : Label(i, k) = <<v>>}

Metric(name, value) == [name |-> name, value |-> value]

\* A metric from the first of some samples, when there is one.
FirstOf(name, rows) ==
    IF rows = {} THEN {} ELSE {Metric(name, samples[Min(rows)].value)}

SimpleMetrics == FirstOf("load_average_1m", Named("node_load1"))
                 \cup FirstOf("memory_total_bytes", Named("node_memory_MemTotal_bytes"))

Cpu(mode) == With("node_cpu_seconds_total", "mode", mode)

CpuMetric == [user   |-> "cpu_user_seconds_total", system |-> "cpu_system_seconds_total",
              idle   |-> "cpu_idle_seconds_total", iowait |-> "cpu_iowait_seconds_total"]

\* What the samples of a mode add to its sum, one by one.
Seconds(mode) == [i \in DOMAIN samples |-> IF i \in Cpu(mode) THEN samples[i].value ELSE 0]

CpuMetrics ==
    {Metric(CpuMetric[mode], Total(Seconds(mode))) :
        mode \in {m \in DOMAIN CpuMetric : Cpu(m) # {}}}

CoreMetrics ==
    LET cpus == {Label(i, "cpu") : i \in Cpu("idle")}
    IN  IF cpus = {} THEN {} ELSE {Metric("cpu_cores", Cardinality(cpus))}

\* Mutant of DiskMetrics: the second loop has no break, and the last one counts.
DiskMetricsLast ==
    LET avail == With("node_filesystem_avail_bytes", "mountpoint", Slash) IN
    FirstOf("filesystem_size_bytes", With("node_filesystem_size_bytes", "mountpoint", Slash))
    \cup (IF avail = {} THEN {}
          ELSE {Metric("filesystem_avail_bytes", samples[Max(avail)].value)})

DiskMetrics ==
    FirstOf("filesystem_size_bytes", With("node_filesystem_size_bytes", "mountpoint", Slash))
    \cup
    FirstOf("filesystem_avail_bytes", With("node_filesystem_avail_bytes", "mountpoint", Slash))

\* Mutant of UptimeMetrics: a boot time in the future is not left out.
UptimeMetricsAny ==
    {Metric("uptime_seconds", Time - boot.value) :
        boot \in FirstOf("", Named("node_boot_time_seconds"))}

UptimeMetrics ==
    {Metric("uptime_seconds", Time - boot.value) :
        boot \in {b \in FirstOf("", Named("node_boot_time_seconds")) : Time - b.value > 0}}

Extract == SimpleMetrics \cup CpuMetrics \cup CoreMetrics \cup DiskMetrics \cup UptimeMetrics

-----------------------------------------------------------------------------
(* Collect. *)

NoFacts == [cpu |-> <<>>, fs |-> <<>>, plain |-> <<>>]

Init == facts = NoFacts /\ pc = "idle" /\ samples = <<>> /\ data = {} /\ fault = FALSE

\* The next tick of the agent.
Begin(f) ==
    /\ pc \in {"idle", "done", "failed"}
    /\ facts' = f /\ pc' = "request" /\ samples' = <<>> /\ data' = {} /\ fault' = FALSE

Fail == pc' = "failed" /\ UNCHANGED <<facts, samples, data>>

\* The exporter does not answer, or not with 200.
RequestFails == pc = "request" /\ Fail /\ fault' = TRUE

RequestAnswered == pc = "request" /\ pc' = "scan" /\ UNCHANGED <<facts, samples, data, fault>>

\* One pass of Parse's loop: an error ends it, and the whole collection.
Scan(text) ==
    LET line == TrimSpace(text) IN
    \/ Skipped(line) /\ UNCHANGED <<facts, pc, samples, data>>
    \/ ~Skipped(line) /\ ~IsSample(line) /\ Fail
    \/ /\ ~Skipped(line) /\ IsSample(line)
       /\ samples' = Append(samples, ParseLine(line))
       /\ UNCHANGED <<facts, pc, data>>

ToCome == Len(samples) < Len(Exported(facts))

SampleComes == /\ pc = "scan" /\ ToCome
               /\ \E style \in Style :
                     Scan(Render(Exported(facts)[Len(samples) + 1], style))
               /\ UNCHANGED fault

CommentComes == /\ pc = "scan"
                /\ \E line \in Comments : Scan(line)
                /\ UNCHANGED fault

GarbageComes == /\ pc = "scan" /\ ToCome
                /\ \E line \in Garbage : Scan(line)
                /\ fault' = TRUE

\* The connection or the client's timeout ends the body: scanner.Err.
BodyBreaks == pc = "scan" /\ Fail /\ fault' = TRUE

BodyEnds == /\ pc = "scan" /\ ~ToCome
            /\ data' = Extract
            /\ pc' = "done"
            /\ UNCHANGED <<facts, samples, fault>>

Next == \/ \E f \in Machines : Begin(f)
        \/ RequestFails \/ RequestAnswered
        \/ SampleComes \/ CommentComes \/ GarbageComes
        \/ BodyBreaks \/ BodyEnds

Spec == Init /\ [][Next]_vars

-----------------------------------------------------------------------------
(* Properties *)

TypeOK == /\ facts \in Machines \cup {NoFacts}
          /\ pc \in {"idle", "request", "scan", "done", "failed"}
          /\ Len(samples) <= Len(Exported(facts))
          /\ \A m \in data : m.value \in Nat
          /\ fault \in BOOLEAN

(***************************************************************************)
(* What the parser has read is what the exporter wrote, sample by sample   *)
(* and label by label, in whatever style it was written and whatever marks *)
(* stand inside the label values: promparse.go:53-58 and 134-135 ("Label   *)
(* values may legitimately contain the separator").                        *)
(***************************************************************************)
Meant(s) == [name   |-> <<s.name>>,
             labels |-> [k \in {<<s.labels[i][1]>> : i \in DOMAIN s.labels} |->
                            s.labels[CHOOSE i \in DOMAIN s.labels : <<s.labels[i][1]>> = k][2]],
             value  |-> Number[s.value]]

ReadsEveryLine ==
    ~fault => \A i \in DOMAIN samples : samples[i] = Meant(Exported(facts)[i])

(***************************************************************************)
(* A scrape is reported whole or not at all: a damaged or cut body never   *)
(* gives data, and an undamaged one always does (promparse.go:39-48,       *)
(* system.go:77-82).                                                       *)
(***************************************************************************)
WholeOrNothing == /\ pc = "done" => ~fault
                  /\ pc = "failed" => fault /\ data = {}

(***************************************************************************)
(* What is reported is true of the machine (extract.go:16-93): each metric *)
(* once; the seconds of a mode over all its cores; size and available      *)
(* space of one and the same root filesystem, also when several are        *)
(* mounted there; no uptime from a boot time in the future; nothing else   *)
(* is left out.                                                            *)
(***************************************************************************)
Reported(name) == {m.value : m \in {d \in data : d.name = name}}

NoNameTwice == \A m, d \in data : m.name = d.name => m = d

CpuIsTotal ==
    /\ facts.cpu # <<>> => Reported("cpu_cores") = {Len(facts.cpu)}
    /\ \A mode \in {"idle", "user"} :
          facts.cpu # <<>> => Reported(CpuMetric[mode]) =
              {Total([i \in DOMAIN facts.cpu |-> Number[facts.cpu[i].seconds[mode]]])}

Roots == {i \in DOMAIN facts.fs : facts.fs[i].mount = <<Slash>>}

DiskIsOneFilesystem ==
    IF Roots = {}
    THEN Reported("filesystem_size_bytes") = {} /\ Reported("filesystem_avail_bytes") = {}
    ELSE \E i \in Roots : /\ Reported("filesystem_size_bytes") = {Number[facts.fs[i].size]}
                          /\ Reported("filesystem_avail_bytes") = {Number[facts.fs[i].avail]}

PlainIsReported ==
    \A i \in DOMAIN facts.plain :
        LET p == facts.plain[i].name
            v == Number[facts.plain[i].value]
        IN
        CASE p = "node_load1" -> Reported("load_average_1m") = {v}
          [] p = "node_memory_MemTotal_bytes" -> Reported("memory_total_bytes") = {v}
          [] p = "node_boot_time_seconds" ->
                Reported("uptime_seconds") = IF v < Time THEN {Time - v} ELSE {}

ReportsTheMachine ==
    pc = "done" => NoNameTwice /\ CpuIsTotal /\ DiskIsOneFilesystem /\ PlainIsReported
=============================================================================
