# Verification of airgapped-es-diag-analyzer

`analyze.py` reads one or more support-diagnostics bundles of an Elasticsearch
cluster and writes a report: what is wrong, what changed since an earlier
bundle, and a summary for Elastic Support in which names are replaced by
aliases. It talks to no cluster and keeps no state of its own between runs
except the files it writes. This directory holds TLA+ models of it, the TLC runs
that check them and the TLAPS proofs about them.

Contents: [the system](#the-system), [modules](#modules),
[runs](#runs), [bounds](#bounds), [fairness and deadlock](#fairness-and-deadlock),
[proofs](#proofs), [findings](#findings), [what is left out](#what-is-left-out),
[plan](#plan).

## The system

| Part | Code | State it keeps | Operations |
|---|---|---|---|
| Command line program | `analyze.py` | the opened bundles, the process-wide language, the alias map of the first language, the files on disk | parse arguments, one pass per language (analyze, summary, map, three reports), list of files, exit status |
| Analysis engine | `esdoctor/engine.py` | findings, skipped and failed rules, the baselines and the base | open, run rules, choose the base, run rules on it, compare, rate intervals |
| Result | `esdoctor/engine.py` (class `Result`) | the findings, the hidden ones | counts, grade, areas, priority list, facts, JSON |
| Comparison | `esdoctor/diff.py` | none: a function of two contexts | restarts, members, deltas of cumulative counters, disk projection, throughput, index growth, DIF-012 changes, DIF-014 interval rates |
| Rule inputs | `esdoctor/rules/__init__.py` | table of files per rule | which rules are skipped |
| Rules | `esdoctor/rules/*.py` | none | 12 modules of threshold rules over one context |
| Context | `esdoctor/context.py` | lazily computed views of a bundle | nodes, tiers, settings, indices, watermarks, time of collection |
| Loader | `esdoctor/loader.py` | map of resolved names, cache of parsed JSON | resolve, exists, json, text, streaming arrays, logs |
| Masker | `esdoctor/mask.py` | aliases both ways, numbering, lookup of tokens | add, text, value, leaks, mapping |
| Support summary | `esdoctor/report/handoff.py` | none | render, refuse on a leak |
| Bottleneck summary | `esdoctor/bottleneck.py` | none | picks one verdict per axis from finding ids |
| Knowledge base, thresholds, bases | `settings_kb.py`, `thresholds.py`, `basis.py` | tables | defaults of settings, comparisons with them |
| Reports, catalogs, utilities, tools | `report/`, `i18n/`, `util.py`, `model.py`, `mapsum.py`, `envcheck.py`, `tools/` | the process-wide language | layout of text, parsing of sizes and times, building |

How they interact. `main()` calls `analyze()` once per language with the same
dict of opened bundles; `analyze()` builds a `Context` over a `Bundle` and calls
every rule in turn with it, then does the same for the base and hands both to
`compare()`. The rules' findings meet in `Result`. `_support_summary()` builds a
`Masker` over the context, renders through it, asks it for leaks and writes the
summary and the map. All calls are plain calls in one thread. What is shared is
the dict of bundles (and the loader's cache inside each), the language, and the
files, which a later run of the program overwrites.

What is hard. There are no threads, so the hazards are of other kinds:

* **Inference about a concurrent system.** `diff.py` draws conclusions on what a
  cluster did between two moments from two snapshots of it. The date of a
  snapshot, its list of nodes and its statistics are from three different
  moments; nodes restart, join, leave and fail to answer in between; counters
  restart with their process. Every error here is an interleaving of the cluster
  with the collector that nobody wrote a test for.
* **Partial failure.** A file was not collected, a file holds the body of a
  failed API call, a rule fails, a node did not answer. "Not there" must
  not turn into "no longer a problem".
* **Crash and error in the middle of output.** Several files belong together,
  among them a masked summary and the map that reads it back, in two languages.
* **Global and cached state.** The language changes under the renderers; bundles
  and contexts are shared between passes.
* **Order.** Baselines come in any order, dated or not, of any cluster.
* **Inference about one moment.** The rules on disks, nodes, indices and copies
  read gauges, counters and settings that several calls took at several moments,
  from nodes of which some were silent, and must say what Elasticsearch itself
  does with them: where a write goes, who may become master, why a copy stays
  unassigned. Each of these is decided from several files, each of which may be
  missing.

The properties that make each part correct, in short:

* Comparison: a restart is reported if and only if there was one; growth
  is the events of the interval, neither old history nor less than happened;
  "past history" has stopped.
* Program: what it was asked for is on disk when it says so; files fit together;
  nothing of a leaking text is written; the languages do not mix.
* Engine: the base is the bundle before; the intervals that are rated follow the same
  order, share no time, and leave out what the comparison refused; changes are changes of the cluster, not of the collection; no
  rule's failure hides another's finding.
* Result: grade, areas, exit status and priority list tell the same story.
* Masker: aliases are injective, never change and can be read back; a masked cell that
  passes `leaks()` holds no known name but one that is too short to be searched and may
  be part of an alias, and the text around the cells none but a short one; what is
  refused is refused for a reason.
* Disks: two rules and the projection agree on which disks are full; fuller
  disks are never told milder; the projection is of what was written.
* Nodes and bottleneck summary: history is not told as present trouble; a silent
  node hides only what it has; the summary does not contradict the report.
* Indices: what is taken for written, finished, mounted or managed is so, and the
  advice fits; a file that is missing alarms nobody.
* Cluster: status, shard list and counts agree; quorum and zones are judged as
  Elasticsearch decides them; a copy that cannot be placed has a reason in the report.

## Modules

| Module | Models | In short |
|---|---|---|
| `ClusterHistory` | external: the cluster and the collector | nodes run, work, count, stop and start; two bundles are taken |
| `Comparison` | `diff.py`, DIF-002 to DIF-007 | the rules as operators of the two bundles, their conclusions against the history |
| `Throughput` | `diff.py`: `r_throughput`, `node_changes` | what each node did in the interval; extends `Comparison` |
| `Cli` | `analyze.py`: `main`, `_support_summary`, `_write` | successive runs over the same files |
| `Delivery` | | abstract: a run delivers what it was asked for or fails, and its exit status says which, if it can; `Cli` implements it |
| `Findings` | findings and severities, `_finding_delta` | shared by all modules of rules |
| `Analysis` | `engine.analyze`, `rules.missing_inputs`, from `diff.py` `compare`, `r_cluster_identity`, `r_interval_rates` | one analysis step by step |
| `Result` | class `Result`, `--fail-on` | what is concluded from the findings; extends `Analysis` |
| `Masker` | class `Masker`, the use `handoff.render` makes of it | names are registered, a summary is written part by part, its cells masked, then searched as a whole and released or refused |
| `Disks` | watermarks and paths of `context.py`, `r_disk`, the disk indicator of `r_internal_health`, `r_disk_projection` | disks fill, empty and grow around two collections |
| `Nodes` | the other rules of `rules/nodes.py`, `r_rejections_delta` as the summary sees it | processes with gauges and counters, judged at any moment |
| `Bottleneck` | `bottleneck.py` | the five questions of the summary; extends `Nodes` |
| `Indices` | kinds of indices, write targets and managers of `context.py`, most of `rules/shards.py`, `rules/sharding.py`, `r_ilm_policies`, `r_hot_rolled_over`, `r_index_growth` | indices are filled, rolled over, mounted and deleted |
| `Cluster` | nodes, shard rows and settings of `context.py`, `rules/cluster.py`, the rules of `rules/shards.py` on placement, `r_status_change` | nodes come and go, copies are placed and moved |
| `MCComparison`, `MCCli`, `MCAnalysis`, `MCMasker`, `MCDisks`, `MCBottleneck`, `MCIndices`, `MCCluster` | | the instances for TLC |
| `Comparison_proofs` | | theorems about `ClusterHistory`, `Comparison`, `Throughput` |
| `Cli_proofs` | | theorems about `Cli`, its refinement of `Delivery`, and `Masker`, which it composes with |
| `Analysis_proofs`, `Disks_proofs`, `Bottleneck_proofs`, `Indices_proofs`, `Cluster_proofs` | | theorems about `Analysis` and `Result`, `Disks`, `Nodes` and `Bottleneck`, `Indices`, `Cluster` |
| `SetTheorems` | | lemmas that all of them cite: finite sets, their least and greatest elements, images, sums |

`Throughput` composes with `Comparison`, `Result` with `Analysis`, `Bottleneck` with
`Nodes`: the second of each pair runs on the states of the first. `Findings` is
what all rules produce and what `Analysis`, `Result` and `Bottleneck` consume.

### ClusterHistory and Comparison

`compare()` is a function, and a property of a function of two bundles is only as
good as the pairs of bundles it is asked about. So the world that produces them
is a state machine: `Tick`, `Event` and `OldGc` are time and what nodes count,
`StopNode` and `StartNode` are processes that end and begin, and the collector
goes `OpenBase` (the date of the manifest and `nodes.json`, either of which may be
missing), `ReadBase` (`nodes_stats.json`, some time up to `MaxLag` later and
without the nodes that time out), then `OpenCur` and `ReadCur`. A bundle is
what the code reads: whether it is dated, which nodes it lists (`ctx.nodes` is
the union of both files), uptime and counters with 0 where `num()` would give 0.
The ghosts `since` (events since the earlier stats call), `bounced` (nodes that
stopped or started since), and `at` and `began` inside a bundle are what really
happened; no rule reads them.

`Comparison` gives `_elapsed_hours` (`Known`, `Elapsed`), `_restarted`,
`_joined_fresh`, `_span_hours`, `r_node_restart`, and the three delta rules, which
share one shape: the nodes compared, the value before, the difference, the
total. The slack `max(600 s, 5% of the interval)` is `Slack`, with the two numbers
as constants; `SlackAssumption` says that a collection takes no longer than the
smaller one, which is what the slack is there for.

`Throughput` adds the operations of nodes (`Work`): `r_throughput` (DIF-009) with
its totals and its skew within a tier, and the rows of the table of nodes, which
must tell of a restart and of growth what the rules beside it tell.

### Cli and Delivery

A state is one moment of a run: the language list, which language the process is
in, the pass's aliases, the map of the first language, and the disk. Every file
is written in a step of its own, in the order of the code, so that `Killed` and
`WriteFails` (a torn file and an exception that nobody catches) fall between any
two. `Start` may follow an ended run, over the files it left. Bundles are opened
by the first pass only (`opened`). An alias assignment is an opaque value:
rendering in another language may assign aliases in another order, which is what
makes `WriteMap` compare the maps.

`Delivery` has five variables: what was asked, whether the run is graded as well
(`--fail-on`), what is delivered, how the run ended, and what its exit status says of
that. `Cli!Promise` maps to them the files and the grade asked for by the options, the
complete files written by this run, the way `main()` was left (`Outcome`) and the number
it ended with (`Verdict`, which reads nothing but `code` and the option). An exception
that nobody catches ends Python with status 1, which is also the status of a bad grade,
so with `--fail-on` the status 1 can only say "either"; every other status is
unambiguous, which is what the refinement shows.

### Analysis and Result

A finding is an id and a severity. A bundle carries the truth about its cluster
and, per file, whether it holds data, an error body or is absent. `RunRule` is one
turn of the loop of `_run_rules`, with a failure possible at every turn.
`ChooseBase` is the sort and the filter over the baselines, `Compare` is
`compare()`, `Intervals` is `r_interval_rates()` and the end of `analyze()`.
`Result` is pure: its operators are evaluated in the final states of `Analysis`.

### Masker

A text is a sequence of pieces: the tokens between delimiters, values with spaces
(which `text()` replaces first, by search) and addresses. `Register` is one call
of `add()` by `_collect()`, in any order; which names a bundle holds, which
`add()` turns down and which are shorter than six characters are constants.

`handoff.render()` does not mask a summary as a whole. The cells of its tables and the
titles of the findings go through `text()` one by one; headings, versions, states, areas,
roles and the names of rules stand as they are. So a draft is a sequence of parts, each a
cell or not. `Render` takes one out of `Drafts`; `AllocateIp` registers the next address
that only the cell to be written holds; `Write` appends what the part becomes
(`Written`) to `out`; and `Check` is `leaks()`, which searches all that was written,
masked or not. An observation that `truncate()` has cut is a text like any other: its
last piece may be the beginning of a name, which is no name and is neither masked nor
found. `_cell()` replaces `|` and line breaks, so no name reaches over the edge of a cell.

Every scan of a text goes from the left and is
written with one recursive function, `Read`: of the `Rest` of the text some pieces are
taken and others given for them. `NamesMasked` is the greedy search of `_span`, which
takes the longest of the names that begin here (`Heads`) within its `Window`. `Restored`
is external: it is what the reader of an answer does with the map, for which the program
has no code. An alias is spelled with two pieces, as `node-001` is with
two tokens, so that names may look like aliases. Where a value with spaces contains
another, the code replaces the longer one first; here such values are single pieces.
Initial state, next-state relation and specification are called `MInit`, `MNext` and `MSpec`,
since `Cli_proofs` extends `Cli` as well.

`Cli` abstracts a masker to the assignment of aliases it ends with, which two
languages need not agree on since they meet new addresses in different orders.

A `Lookalike` is a name that may be part of an alias or overlap with two of them: it holds
one, begins with a number or ends with a kind (a node that is really called
`node-001`). Whoever reads the map could take it for an alias, so `ReadsBack` is about
bundles without such names and parts that hold no alias of their own (`HoldsAlias`).
`leaks()` finds such a name in the alias and has the summary refused, unless the name is too
short to be searched. A name may also stand in the text around the cells, where nothing
masks it (a host that is called like a word of a heading, a role or a version): it is
refused as well, unless it is too short. `NoNameIsLeft` says that exactly these two may be
left: any short name in what is not masked, a short lookalike in a cell. `RefusedForAReason`
lists what a refusal can come from: a lookalike, a name inside a longer word of the text or
of an alias, or a name or an address in what is not masked. The instance has names of
all these sorts, and text around a cell that holds them.

### Disks

Bytes are units, and percentages are kept exact by comparing a hundred times the
bytes. A watermark is a percentage with a headroom or a number of free units;
the headroom may stand in the cluster's settings, in `elasticsearch.yml` or only
among the defaults, and counts as `watermark_used_pct` decides. A node has one or
two data paths, and `LeastPath` and `MostPath` are the paths that low and the two others
are held against. A collection reads `nodes.json`, the health report and the
stats at three moments; disks are written, emptied and enlarged and nodes come
and go between any two. `Indicator` is what Elasticsearch itself says
in the health report. `grown` is a ghost: what was written, less what was deleted.

### Nodes and Bottleneck

A process has gauges, which show the moment (queues, use of breakers, pressure,
load), and counters, which a restart resets. Ingest counters are kept per pipeline, as
ING-001 rates each one; a document runs through one pipeline here, where pipelines that
call others would count it in each. Write latency is judged from `MinOps` flushes on.
What a rule compares with two thresholds is a level: low, warn or crit. Rules take the set of nodes that
answered as an argument, so a property can compare the report with the one that
a silent node would have left. `Collect` takes an earlier bundle, after which
`r_rejections_delta` can tell history from growth. `Bottleneck` walks symptoms,
scopes and cause groups over these findings and over findings of rules outside
the model (`Others`).

### Indices

An index is named by its series, its generation and the prefix a mount or a
restore gives it. Series are a data stream, its failure store, a rollover alias
and an index of its own. `Receives` and `Manager` are what Elasticsearch does:
where a write goes and what manages an index. The operators of `context.py` take
the set of files that could be read and must come to the same answer, or to none.
Whether an index is searched or written slowly and whether it ignores fields are `Trait`s;
which templates come with a package (`Packaged`), that a cluster has a single data node
and that mappings are near their limit are constants, for the rules that change their
severity or their id with it.

### Cluster

`Worlds` gives nodes with roles and zones and indices with tiers. `voting` is the
voting configuration, which keeps nodes that left when too few remain; `HasMaster`
is what an election needs. `Leave`, `Join`, `AssignPrimary`, `AssignReplica`,
`Recover`, `Move` and `Arrive` are Elasticsearch's: they follow its allocation deciders
for enabling and exclusion, tiers, releases and copies on one node. The rules are evaluated
in every state, on what health, the shard list and cat indices say at that moment. The
node of a relocating copy is written "source -> target" in the list (`NodeField`), of which
`NodeOf` keeps the part before the arrow. Health may be missing or unreadable, and
allocation explain may be about any unassigned copy or about none (`Explanations`).

### Conjunctions

A property that a configuration names is often a conjunction of predicates that are
defined, and commented, one by one just above it (`GrowthIsExact` of four,
`ReportAgrees` of five). Each part is a statement of its own; they are checked
together because they share their states and their subject.

### Mutants

Next to some definitions stands a variant of it whose comment begins with
"Mutant:". It is the definition with a plausible bug (a missing reset, an
inclusive comparison, a swapped order). `PROJECT.json` lists which property each
of them breaks: with the variant in place of the definition, TLC finds a
violation under the same configuration. No other definition uses them.

## Runs

Run a configuration with `tlc -workers 2 -config X.cfg M`.

| Run | Configuration | Question | Properties |
|---|---|---|---|
| `one_node` | `MCComparison`, `MCComparisonNode.cfg` | one node with a pool and a breaker, old GCs, restarts at any moment: are the conclusions what happened? | `IInv` (the inductive invariant, with the types), `RestartsAreTold`, `GrowthIsExact`, `GcVerdictIsEarned`, `TableShowsWhatHappened` |
| `two_nodes` | `MCComparison`, `MCComparisonCluster.cfg` | two nodes that work, join, leave and fail to answer independently, with thresholds that one event does not reach | `JoinedGrowthIsRecent`, `VerdictsAreEarned`, `ThroughputIsReal` |
| `cli` | `MCCli.cfg` | two runs over the same files, all options, faults, leaks, kills | `TypeOK`, `FilesBelongTogether`, `RefusalsLeaveNothing`, `DeliversWhatIsAsked` (refinement of `Delivery`), `EveryRunEnds` (liveness) |
| `analysis` | `MCAnalysis.cfg` | files absent or holding error bodies and failing rules; baselines in any order, of two clusters; all severities of five rules in several areas and groups | `TypeOK`, `ChangesAreTold`, `NoProblemIsLost`, `BaseIsRight`, `IntervalsFitTheBase`, `ConclusionsAgree` |
| `masker` | `MCMasker.cfg` | overlapping, short and alias-like names, known, unknown and loopback addresses, registered in any order, in cells and in text that is not masked | `MInv` (the inductive invariant, with the types), `ReadsBack`, `ReleasedWhenClean`, `AliasesAreStable` |
| `disks` | `MCDisks.cfg` | two hot nodes and a frozen one under six kinds of watermark settings | `TypeOK`, `DiskRulesAgree`, `FullerIsNeverMilder`, `ProjectionFollowsWrites` |
| `bottleneck` | `MCBottleneck.cfg` | nodes with a history, with and without an earlier bundle and findings of other rules: is history told as present trouble, does the summary fit the report? | `TypeOK`, `HistoryIsNoTrouble`, `SilenceOnlyHides`, `ReportAgrees` |
| `indices` | `MCIndices.cfg` | a stream, a failure store, an alias and a single index through their life, whichever files are missing | `TypeOK`, `IndicesAreUnderstood`, `AdviceFitsTheIndex`, `MissingFilesAlarmNobody`, `MountsAreNoChange` |
| `cluster` | `MCCluster.cfg` | voting-only nodes, zones, tiers and releases; copies that are lost, promoted, assigned, recovered and moved | `IInv` (the inductive invariant, with the types), `AccountsAgree`, `TopologyIsJudged`, `PlacementIsExplained` |

All of these hold. Three more runs, one property each, show where a sentence of the
repository does not hold of the code; see [findings](#findings).

Preconditions worth knowing when reading the results:

* `LongUp(n)`: a node had been up for longer than the slack at the earlier stats
  call. A node that restarts twice in short order can hide its second restart in
  the slack, and no rule could tell. The exact properties (`GrowthIsComplete`,
  `RestartsAreNoticed`, `PastHistoryHasStopped`, `SkewIsReal`) are therefore about nodes that
  had been up longer; `GrowthIsReal` and `RestartsAreReal`, the absence of false
  alarms, are about every node.
* `Answered`: nodes with statistics in both bundles. What happens to the others
  is the subject of the finding on missing stats.
* `Clean(r)`: no file that rule `r` needs holds an error body; what happens
  otherwise is the finding on error bodies.
* `StaleMap(l)`: a map for a second language that an earlier run left over the
  same path. A later run whose aliases agree between the languages does not write
  such a map and does not remove the old one either, so a reader could take the
  wrong map. `SummariesCanBeRead` excludes exactly this situation; pointing every
  run at paths of its own avoids it.
* `FullerIsNeverMilder` leaves out nodes whose two paths differ in size, where the
  path with the least free bytes, which Elasticsearch takes, need not be the
  fullest, and `DISK-005`, the imbalance, which growth may remove.
* `Marked`: every watermark leaves something of each disk to use. One that does not (a
  headroom larger than the disk) reads as none in the code; `DiskRulesAgree` and
  `ProjectionFollowsWrites` are about the others.
* `SkewIsReal` is about instances whose work includes indexing, the operation the skew is
  measured by.
* `TiersAreMissing` needs a data node: without one, IDX-009 keeps silent and the other rules
  speak.
* `MountsAreNoChange`: what DIF-011 lists as deleted are indices of the user
  (`UserName`): internal ones, and streams that Elasticsearch itself manages, are none.
* `ReadsBack`: no name looks like an alias and no part of the summary held one (see
  [Masker](#masker)).
* `VerdictsAreEarned`: that a verdict is not missed is about intervals in which all growth
  shows (`GrowthShows`); that one is not raised without cause is about all. A node that the
  earlier bundle lists without stats may raise `GcVerdictIsEarned`'s warning with
  old history, which is the finding on missing stats.
* `SilenceOnlyHides` leaves out findings about a share of all nodes (`Shares`).
* `UnassignedIsExplained` leaves out a tier that has nodes but too few, which the
  text of IDX-002 says "is not checked", the case that no node is left for data that are
  not frozen, and primaries whose data are on no node that is there.
* `CapacityIsNeverOverstated` is exact only while nothing is being recovered and no
  partial mount is closed; a shard that is initializing is not counted by the code and is counted by
  Elasticsearch.
* A bundle in `Indices` and `Cluster` is a snapshot of one state. A rollover or a
  move between two calls of the collector is not in them.

## Bounds

* `one_node`: the clock runs from 3 (when watching begins, after which a node may
  have been up for 0 to 3 units) to 8, with a lag of up to 1, a minimum slack of 1
  and a share of one half. So both arms of the slack occur (interval 2 and less,
  and 4 and more), the uptime may exceed slack plus lag before the first
  call, and two restarts fit between the two calls. Each counter of a
  node grows by at most 1 after the earlier bundle, on top of the past the node
  brings; an old GC takes 1 or 2 units. An hour is 3 units, one old GC per hour is too
  many, and so is half the time, so that DIF-006 warns for either
  reason and otherwise is for information.
  Nodes do not influence each other in any rule but the totals, so one node is
  enough here.
* `two_nodes`: shorter times, one kind of operation, and both nodes may each be in
  any of: there in both bundles, joined, left, listed without an answer. Totals
  and a skew need two rows to be wrong. DIF-005 and DIF-007 become critical at 2 where a
  node counts at most 1 since the earlier bundle: the threshold is reached over two nodes,
  or with old history, or not at all. One counter stands for an operation, a rejection
  and a trip alike, since each rule reads it for itself. The nodes are symmetric: no
  definition tells them apart.
* `cli`: two languages, two alias assignments, one kind of report (the three
  report steps have one action, `WriteReport(k)`, whose skipped form is taken for
  the other two), two runs, since all that a run knows of earlier ones is the
  content of files and one earlier run can leave any of them.
* `analysis`: five families of inputs. Changes: one rule that needs two files and
  one that will do with either of two, every combination of data, error body and
  absence that matters, one baseline. Choice of the base: up to three
  baselines out of two clusters, two dates (three values of time with the
  undated), with and without uuid, so that equal dates occur. Names: another cluster
  with the same name and a cluster that was renamed. Order: three baselines of two clusters
  at three moments or none, so that several intervals are rated. Conclusions: rules
  chosen so that one is in two root-cause groups' reach (`CLU-004.disk`,
  `DISK-002`), one shares a group with a delta rule (`TP-001`, `DIF-005`) and one is
  in the security area.
* `masker`: five registrations out of eight calls in any order, among them one
  value under two kinds. A cell of three pieces, so that two names can overlap
  in either order, an address can occur twice and two new ones in both orders; two
  cells, of which the second brings addresses that the first may hold; and a cell with
  text that is not masked.
* `disks`: totals of 3 to 8 units and watermarks at 50, 70, 85 and 95 percent, so that a
  single unit takes a disk over one line or over several; two changes between the
  first health report and the last stats call (what came before is in the layouts),
  no time or two weeks between the collections. A change of story needs one
  event between two calls and, for the projection, one before and one after.
* `bottleneck`: two events over a past that already holds rejections, trips and old
  collections, in a sound world and in one where something is amiss with each
  machine, beside findings of other rules that are causes only and causes and symptoms;
  the earlier bundle and an hour are steps besides. Two pipelines and thresholds of one
  failure and one flush tell a rate of a pipeline from that of its node.
* `indices`: three events and three generations. An event of one kind is enough for
  every property but those on aliases and managers, which need a rollover, a
  switch and a write; the earlier bundle of DIF-011 is collected at the start. Three
  of the traits, those whose rules look at the kind of the index as well, vary.
* `cluster`: three events (a node leaves, another leaves or joins, a setting or an
  index changes); assignment, recovery and the end of a move do not count as
  events. Up to five nodes, two replicas and two releases: a quorum of five and of
  three, zones of one and two nodes.

## Fairness and deadlock

`Cli` assumes `WF_vars(Main)`: `main()` is a single thread that waits for nothing
but its own file operations, so once started it goes on. No fairness is assumed
of starting runs, of failures or of kills. The other specifications state safety
only.

`CHECK_DEADLOCK FALSE` stands in every configuration because everything here
really stops: the collector after two bundles, the program after its last run,
an analysis when its result is made, and a cluster when the bound on its events is
reached. The program has no other loop and waits for nobody, so there is no other liveness to
state.

## Proofs

Every property of every run that passes, but the liveness of `Cli`, is a theorem: it holds
for all values of the constants that satisfy the named assumptions of its module, any number of
nodes, indices, rules, languages, runs, names and texts and every bound among them.
`tlapm M.tla` checks a module; the proofs use nothing that is not proved here or in the
libraries of TLAPS.

| Module | Assumptions | What they say |
|---|---|---|
| `Comparison_proofs` | `HistoryAssumption`, `SlackAssumption`, `ThroughputAssumption` | finite sets of nodes, pools and breakers; numbers are natural; a collection is no longer than the slack |
| `Cli_proofs` | `LangsAssumption`, `ValuesAssumption`, `MaskerAssumption` | finitely many languages; the values that stand for "none" are no others; names are not empty, a name of several tokens holds none with a space, kinds are no numbers, values with spaces and addresses are neither |
| `Analysis_proofs` | `RulesAssumption`, `BundleAssumption`, `CategoryAssumption` | the rules are a list, the delta rules are finitely many and none has the id of one of the three findings made after them; files, dates and truths have their types; every rule is in an area |
| `Disks_proofs` | `LayoutsAssumption`, `SettingsAssumption`, `LegalAssumption` | finitely many nodes, at least one path each; watermarks are percentages or units and stand in the order that Elasticsearch enforces |
| `Bottleneck_proofs` | `NodesAssumption`, `OthersAssumption` | finitely many nodes; thresholds are natural; findings of other rules have other ids |
| `Indices_proofs` | `SeriesAssumption`, `TraitAssumption`, `SiteAssumption` | every series is of one kind; packages are among the series |
| `Cluster_proofs` | `BoundsAssumption`, `WorldAssumption` | a world has finitely many nodes and indices and a node that can be elected |

TLC evaluates each assumption on the instance of each run. The argument of each module follows.

### Comparison

The rules compare two uptimes with two dates, and neither is taken at the moment
it stands for. What makes them right is linear arithmetic over six moments:

    base.opened <= base.at <= base.opened + MaxLag <= ... <= cur.opened <= cur.at <= cur.opened + MaxLag

and over each node's process start. The inductive invariant carries exactly that:

    IInv == TypeOK /\ ClockInv /\ BundleInv /\ HistoryInv /\ GcInv

* `ClockInv`: the order of these moments, that a collection in progress is
  within its lag, that no process started in the future.
* `BundleInv`: in a bundle that was read, uptime plus start is the moment of the
  stats call for the nodes that answered, and everything is 0 for the others.
* `HistoryInv`: the process that runs now is the one the earlier bundle saw plus
  what it counted since, or one that started after that call and counted no
  more than what was counted since (`Continues`). This is the part that none of
  the properties says and all of them need; it is stated of the running process
  while the cluster is watched and of the later bundle when it is done.
* `GcInv`: no process spends more time in old GC than it runs, and no node more since the
  earlier stats call than has gone by.

| Theorem | States |
|---|---|
| `HistoryInvariant` | `Spec => []IInv` |
| `RestartsAreToldThm` | a reported restart took place (`RestartsAreRealThm`), and a restart of a node up for longer than the slack is reported (`RestartsAreNoticedThm`) |
| `GrowthIsExactThm` | growth never exceeds what happened since the earlier stats call (`GrowthIsRealThm`), is exact for nodes up for longer than the slack (`GrowthIsCompleteThm`), GC time is not negative although only the count is guarded (`GcTimeNeverRunsBackThm`), and rejections called past history have stopped (`PastHistoryHasStoppedThm`) |
| `JoinedGrowthIsRecentThm` | a joined node counts only from a recent start |
| `VerdictsAreEarnedThm` | a critical DIF-005 or DIF-007 has as many events of the interval behind it, over all nodes, as its threshold says, and so many events raise it when they show |
| `GcVerdictIsEarnedThm` | a DIF-006 that warns stands for a process that spent that much on old GC, such a process raises it when it shows, and the share of time in GC is a share |
| `ThroughputIsRealThm` | the totals of DIF-009 are no more than was done and exactly that when every node shows; a tier is said to be skewed if and only if the work was uneven |
| `TableShowsWhatHappenedThm` | the rows of the table of nodes tell what the rules beside it tell |

`HistoryInvariant` has one lemma per kind of step. The others have one argument in
common: `TwoAnswers` and `TwoCounts` spell the invariant out for one node,
`RunningIsNotRestarted` and `LongUpShows` are the two directions of
`_restarted`, and each theorem is a case split on it. Totals are sums over sets of nodes,
and a sum is compared term by term (`SetTheorems`).

### Cli and Delivery

`IInv` follows `main()`: which languages are behind the current pass (`PassesInOrder`), which
kinds of file are behind the current step, and that the files of this run on the disk are
the ones these two have written (`FilesOfThisRun`), with the map that fits each summary
(`MapsOfThisRun`) and no text that leaks (`RefusedAtOnce`). Each step has a lemma, since
a kill or a failed write may follow any of them.

| Theorem | States |
|---|---|
| `RunInvariant`, `RunTypes` | `Spec => []IInv`, and the types |
| `FilesBelongTogetherThm` | files and the list of them are in their languages, and every masked summary has the map on disk that reads it back (`StaleMap` aside) |
| `RefusalsLeaveNothingThm` | nothing of a text that leaks is written |
| `DeliversThm` | `Cli` implements `Delivery`: initial states map to initial states, and every step to a step or a stutter (`StepPromises`) |

The refinement is that of the safety part; `Delivery` states no fairness.

### Masker

For the map, `MInv` says that aliases and names correspond one to one
and that every alias in use has a number that was given out (`NumbersGivenOut`);
the next number of a kind is larger, so a new alias is never one in use. All steps
reduce to `add()` or to nothing (`StepsRegister`).

What a scan gives for every text looks like induction over data, which the provers cannot
do with a property as a parameter. It is proved as a least counterexample instead.
`Unrolled` is a function that solves the recursion of `Read` (`UnrolledExists`: otherwise
there would be a last place at which no function solves the rest), so what `Read` gives is
known step by step (`ReadsStepByStep`). After that, `BySuffixes` does the rest: a set of texts
that holds every text whose proper suffixes it holds is all of them. With it:

* a masked cell is, piece by piece, one that was there before or part of an alias
  (`PiecesOfMasked`), and a name that is no lookalike cannot begin or end inside an alias;
* so where such a name stood in the masked text, it stood there before (`PlainPrefix`), and the
  scan would have taken it or a longer one (`NameIsMasked`, `NamesFitTheWindow` for the
  window): none is left (`NoPlainNameIsLeft`);
* the scan of the reader takes the aliases where the scans of the masker put them and nothing
  else, and so undoes them (`RestoreTakesAnAlias`, `NamesPassAliases`, `ReadBack`), and
  passes by a part that is not masked (`PlainTextReadsBack`);
* an address that a later cell brings is in no cell that was written before, so what
  they were masked to does not change with the map (`LaterAddress`).

| Theorem | States |
|---|---|
| `AliasInvariant` | `MSpec => []MInv`: the map is one to one at all times |
| `AliasesAreStableThm` | no step changes an alias that is in use |
| `RenderInvariant` | each part that was written is what it becomes under the map as it is now, although the map has grown since |
| `ReadsBackThm` | every part of a released summary comes back word for word |
| `ReleasedWhenCleanThm` | a released summary holds no name but a short one, its cells only short lookalikes, and a refusal has a reason |

### Analysis and Result

There are two invariants. `LoopInv` is about the loop of `_run_rules`: every
rule before the one whose turn it is has paid what it owes, the problem that the files tell
of or its own failure. `RanKeeps` shows that no turn takes anything out of the report and
`RanPays` that a rule's own turn pays. `AInv` says of both loops that whatever is in
a report was observed by its rule on files that were there, and that every rule whose turn has passed
is found, failed or skipped (`ReportsAreTold`); that the base is the latest of the baselines
that qualify, which exists in every finite list (`BaseIsLatest`); and that the trend is what
`compare()` makes of the two reports (`TrendIsCompared`).

| Theorem | States |
|---|---|
| `LoopInvariant`, `NoProblemIsLostThm` | a problem is found or the rule that looks for it is listed as failed, for any number of rules |
| `AnalysisInvariant`, `AnalysisTypes` | `Spec => []AInv`, and the types |
| `IntervalsFitTheBaseThm` | the last interval begins at the base, a refused comparison is not rated, and the intervals divide the time between the dated bundles |
| `BaseIsRightThm` | the base is the bundle before, whatever the order of the arguments |
| `ChangesAreToldThm` | a finding listed as new or resolved is one that the cluster gained or lost |
| `ConclusionsAgreeThm` | grade, areas, exit status and priority list are drawn from the same findings and agree |

### Disks

`IInv` says what a bundle knows: the stats are of the disks at the time of the call and of
the nodes there were (`IsBundle`), the health report tells the same disks as the stats when
nothing happened between the two calls (`HealthInv`), and what was written since the earlier
stats is the difference in use (`WrittenInv`). The theorems are arithmetic on top of it. What
a percentage with a headroom keeps free is the smaller of two amounts, each monotone in the
size of the disk, and `LegalAssumption` orders the watermarks.

| Theorem | States |
|---|---|
| `DisksInvariant`, `DisksTypes` | `Spec => []IInv`, and the types |
| `WatermarksAreOne` | the disk rules and the health report agree on which disks are full |
| `FullerIsGraver` | disks that only get fuller are never told milder |
| `ProjectionIsOfWrites` | DIF-008 projects what was written, however disks were enlarged |

### Nodes and Bottleneck

The invariant is small (`NInv`: types, and that an earlier bundle never reads more than a
process has). The theorems quantify over the nodes that answered: each rule is spelled out as what it
finds of such a set, and a larger set finds the same or more of it, but for the findings about
shares (`Told`). The sums of counters are never negative and are positive only when a
node has counted (`SetTheorems`).

| Theorem | States |
|---|---|
| `NodesInvariant`, `NodesTypes` | `BSpec => []NInv`, and the types |
| `SilenceHides` | a silent node hides only what it has itself |
| `NoHistoryIsTrouble` | what has stopped is not told as present trouble |
| `ReportsAgree` | two rules that judge one thing, and the summary and the body, do not contradict each other |

### Indices

`IInv` says how name, mount, stream and alias of an index hang together (`IndicesFit`,
`StreamsFit`, `AliasesFit`, `ManagersFit`): a series that rolls over has each generation in one
form at a time, a stream lists indices there are, each once, and writes to the last, which is
no mount; an alias writes to one index at most. That is what the program relies on when
a file is missing, so each set of files comes to the same answer or to none.

| Theorem | States |
|---|---|
| `IndexInvariant`, `IndexTypes` | `Spec => []IInv`, and the types |
| `IndicesAreUnderstoodThm` | what is taken for written, finished and managed is so |
| `AdviceFitsThm` | mounts get no advice, write blocks are taken for what they are, a filled index is not called small, and a policy that is blamed is named |
| `MissingFilesThm` | a file that is missing alarms nobody |
| `MountsAreNoChangeThm` | DIF-011 lists an index as deleted if and only if it is there in no form |

### Cluster

`IInv` is `TypeOK`, `CopiesFit` and `VotesFit`. `CopiesFit` is about the copies of an index:
they are on data nodes, there is none without a primary, one that moves has one target. `VotesFit`
is about the voting configuration, which has a majority among the nodes there are and is
the one Elasticsearch would choose for them. The three steps that reconfigure it are the hard ones
(`NewVotesFit`). Rows of the shard list are counted index by index, so that sums over
rows, over nodes and over indices come to the same (`SetTheorems`).

| Theorem | States |
|---|---|
| `ClusterInvariant` | `Spec => []IInv` |
| `AccountsAgreeThm` | status, shard list, counts and capacity agree, and a copy that moves is counted once, on the node it comes from |
| `TopologyIsJudgedThm` | quorum and zones are judged as Elasticsearch decides them |
| `PlacementIsExplainedThm` | the reasons given are true, and each copy that cannot be placed has one |

### What stays with TLC

`EveryRunEnds` of `Cli` is liveness under fairness, for which the prover has no rules. The
three runs that expect a violation show a state, which is TLC's work as well. Everything else that a
run checks is also proved; the runs remain the cheap test of a change to a model, and the
mutants, which are not proved about, show that each property can fail.

## Findings

| Run | What the code does | What the repository says |
|---|---|---|
| `finding_missing_stats` | A node that is in the earlier `nodes.json` and did not answer the earlier stats call has its whole history reported as growth, because `_joined_fresh` is asked only of nodes that are in neither file | docstring of `_joined_fresh`: such a node "has old history" |
| `finding_error_bodies` | A rule whose file holds an API error body runs on nothing and its earlier finding is listed as resolved | comment in `engine.py`: a rule that did not run "cannot tell new from resolved"; change log: error responses are "treated as missing" |
| `finding_resolved_is_relieved` | A disk that goes from the low over the high watermark loses DISK-003 and gets DISK-002; DIF-012 lists the former as resolved although every disk only got fuller | `en.txt`: "Report resolved findings as the result of earlier actions" |

More disagreements were met while modelling; the models contain them and no run is
spent on them:

* With two languages, a leak found in the second leaves the summary and the map of the
  first on disk, while the README says that they "are not written" (`RefusalsLeaveNothing`
  is about the text that leaks).
* A missing thresholds file or a failing write ends with status 1, which the README
  (`src/README.md:104`) keeps for `--fail-on`; with that option nobody can tell the two
  apart (`Delivery`).
* `src/esdoctor/mask.py:4` says that masking is "applied once to the whole string", and
  `src/esdoctor/report/handoff.py:6` "to every string"; `handoff.render()` applies it to
  cells and titles and leaves the rest as it is.
* `mask.py:15` and `handoff.py:7` say that no summary is produced if an identifier survives.
  Names of fewer than six characters are not searched and may survive in what is not
  masked, and what `truncate()` leaves of a name is no longer that name.
* DIF-014 may be reported next to DIF-013, of which the change log says that "only DIF-013
  is reported". The interval of the refused comparison is not rated, but one between two
  baselines of another cluster is, although the rule leaves out bundles of other clusters
  since their rate "would not describe this cluster": it asks only whether the two ends of
  an interval are of one cluster. Which bundles are, is a guess from uuid or name
  (`DifferentClusters`) and may be wrong of clusters that share a name.

## What is left out

`PROJECT.json` lists every component with its status. Not modelled:

* The wording and layout of reports, the message catalogs, parsing of sizes and dates,
  `--check-env`, `--print-thresholds`, `--version`, the build and documentation tools.
* The loader's search for names in directories and archives and its parsers, which
  are text handling. Its cache returns to every caller the default of the first one
  for a file with an error body; every caller in `src/` asks for the same
  default, so nothing can tell.
* The rules of `guidance.py`, `deep.py` (but `r_ilm_policies`), `cost.py` (but
  `r_hot_rolled_over`), `hotspot.py`, `ops.py`, `runtime.py`, `settings.py` and `syscalls.py`, and
  single ones of `cluster.py` and `shards.py`: each compares one number, list or
  setting with a threshold and shares no state with another. What happens to their
  findings is modelled for arbitrary findings.
* Two nodes with the same name, which collapse in `_by_name`: a node is its name.
* Releases in which streams do not say who manages an index (`Old` is FALSE): an
  unmanaged index of a stream is then taken for one that a lifecycle manages.
* A copy that is being moved is not counted among the write shards of a node by
  SHD-016. The rule is modelled; nothing in the repository says what such a copy
  should count as, so no property is stated about it.

## Plan

Done: the comparison, the command line program, the engine, the
result, the masker, disks, nodes with the bottleneck summary, indices and the
cluster, and the proofs of what their runs check. What would come next, in this order:

1. A collector with a window between two calls for `Indices` and `Cluster`, as `Disks`
   has one: a rollover between `data_stream.json` and the settings.
2. The statistical rules (`hotspot.py`, `runtime.py`) against the rates of `Throughput`.
3. A second theorem about `Cli` and `Masker` together: the opaque assignment of aliases in
   `Cli` replaced by the map of a masker per language, so that `SummariesCanBeRead` and
   `ReadsBack` become one statement about the texts on disk.
