# TLA+ models of the OS-Compas lab utilities

This directory holds TLA+ models of the Python programs under `src/`, the
TLC configurations that check them, and `PROJECT.json`. `PROJECT.json` lists
the components, the runs, the mutants, the map from definitions to source
lines, the findings and the hazards.

## 1. Inventory of the system

| Part | Source | State | Operations | Interacts with |
|---|---|---|---|---|
| Trace line parser | `lab1-1-syscall-tracer/src/syscall_tracer.py` `_parse_trace_line` | none (pure) | regex match of one line, error test, `float()` of the duration | aggregator |
| Trace aggregator / reporter | same file, class `SyscallTracer` | `syscall_stats` (Counter), `error_stats` (Counter), `timing_data` (dict of lists) | `parse_trace_file` line loop, `generate_report` in text or json form | parser, CLI, visualizer |
| Live tracing + CLI | same file, `trace_program`, `main` | the strace child process, the temporary output file | Popen, `wait(timeout)`, `terminate`, second `wait`, parse | strace (external), the traced program |
| Trace visualizer (not modelled: chart drawing only) | `src/trace_visualizer.py` | none (reads the tracer) | `visualize_trace_data` draws charts; `create_comparison_chart` is never called | tracer |
| Example trace scripts | `examples/sample_traces/analyze_*.py` | local Counters | a looser regex, an error test `'= -1' in line`, file/network call sets | trace files |
| Process monitor | `lab1-2-process-monitor/src/process_monitor.py` | psutil handles | `monitor_single_process` sampling loop, CPU top, tree print | target processes |
| /proc analyzer | `lab1-2-process-monitor/src/proc_analyzer.py` | none between calls | `main()` runs the analyses its options select: statistics over `/proc/<pid>/status`, memory top, pid-set diff loop | the kernel's /proc |
| Process manager | `lab1-2-process-monitor/src/process_manager.py` | visited set of the tree walk | tree display, kill, find by name (file truncated at line 163) | target processes |
| MQTT publisher | `lab5-2-iot-sensor-rtos/tools/mqtt_publisher.py` | paho client, loop thread | connect, sleep(1), publish each sample to three topics, subscribe in `subscribe`/`both` mode | broker |
| Sensor data visualizer | `lab5-2-iot-sensor-rtos/tools/data_visualizer.py` | three `deque(maxlen=100)` | `on_connect` subscribes, `on_message` (network thread) appends, `update_plot` (GUI thread) reads, save on exit | broker, publisher |

`spec.md` treats the trace analysis engine as the core. It lists the parser,
the aggregator and the reporter. Everything else it calls an external
collaborator.

The hard behaviours of the code are these:
- the regular expression's greedy group and its optional group;
- the `-1` result rule, applied to text that still holds its line end;
- strace's line shapes under `-f -o`: a pid prefix, and calls split into
  unfinished and resumed halves;
- the timeout, terminate and wait sequence of the live mode;
- ties in `most_common`;
- the two categorisations, text (with "other") and json (without);
- exit status;
- in the IoT pair: the two threads of the visualizer, the triplicated
  samples, subscriptions that are made after publishing or never renewed,
  and a payload that fails halfway through `on_message`;
- in the process tools: processes that exit or whose pid is reused between
  two reads.

## 2. Modules

- **`TraceLine`**: pure operators.
  - A strace line is a record: a pid prefix or none, a shape, a call name,
    and the text after ` = ` as a sequence of character classes (digit,
    `-`, `?`, a letter, space, `<`, `>`, newline).
  - `ParseTraceLine` evaluates the code's pattern the way Python's `re`
    does. `HeadMatches` is the anchored `re.match` (line 108). `ResultLen`
    is the greedy `([^<]+)`, which stops at the first `<`. `ElapsedAt` is
    the optional duration group, tried only where the greedy run stopped.
  - `IsTracerError` is the test at line 127.
  - The line loop the three example scripts share is a set of operators:
    - `ScriptMatches` is their anchored `\d+:\d+:\d+\.\d+\s+(\w+)`. It
      asks for nothing after the name, so the first half of a split call
      counts.
    - `ScriptCount` is their `syscall_stats` Counter.
    - `ScriptErrors` is their `'= -1' in line` on matched lines.
  - `SyscallCategories` and `Classify` are the category lists and the
    first-match loop with its `else`.
  - `MostCommon` is `Counter.most_common`: a stable sort by count over
    insertion order, written as an insertion sort with `FoldLeft`.
- **`StraceProducer`**: the external strace that `trace_program` starts.
  - The traced program's processes (`Procs`) enter and leave calls in any
    interleaving.
  - Each line strace writes follows its rules for `-f -o -T`. Every line
    carries the pid. A call whose line must give way to another process is
    closed with `<unfinished ...>` and finished later with a
    `<... resumed>` line.
  - `ProgramExit` writes the `+++ exited` line. `ExitOnSigterm` is strace's
    reaction to `terminate()`.
- **`SyscallTracer`**: one session of `main()`.
  - `pc` is the program counter: `main`, `spawn`, `wait`, `terminating`,
    `parse`, `lines`, `report`, `visualize`, `done`.
  - The variables `syscall_stats`, `order`, `error_stats`, `errOrder` and
    `timing_data` are the tracer's Counters, with the insertion order of
    their keys kept.
  - The actions follow the code: `Main` (the mode dispatch), `StartTrace`
    (whether strace is found), `WaitReturns`, `WaitTimeout`,
    `WaitAfterTerminate`, `ParseTraceFile` (path absent, a directory or
    unreadable, or a file), `ParseLine` (one iteration of the line loop:
    the whole `_parse_trace_line`), `FinishParse`, `GenerateReport` (text
    or json, with their different top-N, error lists and categories) and
    `Visualize` (the call at lines 242-244, which only draws charts).
  - The traced program and strace move through `Produce`, interleaved with
    the tracer's steps.
- **`MCSyscallTracer`**: the model values.
  - Three call names, one of them (`openat`) in no category.
  - Trace files are every sequence of up to 3 lines drawn from
    `LineForms`:
    - a plain call, a call ending in an error, a `-1` result with and
      without a newline (the last only at the end of a file);
    - a pid-prefixed line, an unfinished line, a resumed line and a banner.

- **`MqttBroker`**: the public broker both IoT tools use. It is an
  external collaborator, written from the MQTT 3.1.1 rules the tools depend
  on.
  - Sessions are clean (paho's default), so a broken connection loses the
    subscriptions and the queued QoS 0 messages.
  - Messages on one connection stay in order.
  - Retained messages are sent on subscribe, in any order.
  - Overlapping filters give one copy or one per filter.
  - `ForeignPublish` is another client of the public broker publishing
    under the same prefix.
- **`MqttPublisher`**: `mqtt_publisher.py`.
  - `pubPc` is `main()`'s place. `PubConnect` is connect, or its failure.
    `PubPublish` is one `publish_single_message` of the loop over samples
    and the three topics; it returns `MQTT_ERR_NO_CONN` without a socket.
    `PubSubscribe` is one `subscribe_topic` of the four filters. The
    SUBSCRIBE follows the PUBLISH packets already written on the same
    socket, so it takes effect at the broker once those are routed.
    `PubInterrupt` is the Ctrl+C that ends the listen loop. `PubClose` is
    `loop_stop` and `disconnect`.
  - The paho network thread has its own actions: `PubDrop`, `PubReconnect`
    (its `on_connect` only prints) and `PubOnMessage`.
- **`DataVisualizer`**: `data_visualizer.py`, which runs three threads over
  the three `deque(maxlen=100)`.
  - `main()`: `VizConnect`, `VizWindowClosed` and `VizFinally` (the latter
    with `--save`).
  - The network thread: `VizDrop`, `VizReconnect`, `VizOnConnect` (which
    subscribes to `#`), and `on_message` as `VizTake`, `VizAppend` (twice)
    and `VizAppendTimestamp`. `VizAppendTimestamp` fails for a `time` that
    `fromtimestamp` rejects, after the first two appends.
  - The GUI thread: `update_plot` as `PlotStart` and `PlotRead`. Each reads
    a deque's length and then, in a later step, its contents. The contents
    of one deque and the length of the next are read in one step, because
    no check relates them.
- **`IoTPipeline`**: composes the three.
  - The history variable `okAt` records, for each `<<sample, topic>>`
    reported published while the visualizer was subscribed, how many
    connections had broken by then.
  - The liveness property `PublishedIsDisplayed` uses `okAt`.
- **`MCIoTPipeline`**: the foreign payloads, well-formed or with a bad
  `time`.

- **`ProcessMonitor`** (`process_monitor.py`) models `main()`'s monitoring
  branch and `monitor_single_process`.
  - `owner` is the process generation that holds the pid; `zombie` says
    it has exited and is not yet reaped.
  - `attached` is the generation `psutil.Process(pid)` bound to.
  - `Check` is the `is_running()` test: it compares identities, and a
    zombie still counts as running.
  - `Sample` is the `oneshot` block, the row, `current_count += 1` and the
    count test. For a reused pid, both psutil behaviours are allowed:
    reading the new process, or raising `NoSuchProcess`.
  - `TargetExit`, `Reap` and `PidReuse` are the target's life.

- **`ProcScan`** (`proc_analyzer.py`) models `main()` and the three
  analyses that walk the process directories of `/proc`.
  - `proc` maps each pid to the process holding it: state letter (`R`, or
    `Z` until it is reaped), identity, effective uid. `Spawn`, `Exit` and
    `Reap` move it while the program runs, so pids are reused.
  - `Plan` is the call order of `main()`'s if statements, computed from the
    truthy options. `--top-memory` defaults to 10, so it is always truthy.
  - `ScanList`, `ScanOpen` and `ScanRead` are the loops of
    `get_process_statistics` (first `Limit` entries) and
    `find_large_processes` (all entries): listing, `exists()` and `open()`,
    then `read()`. A read after the process was reaped raises
    `ProcessLookupError`. The statistics catch it in their own handler; the
    memory list lets it reach `main()`.
  - `MonitorRound` is one round of `monitor_process_changes`. `report`
    keeps its printed counts next to the identities that really started and
    ended (the history variable `prevIds`).
  - `ReadSystemFile` is one step for each of the overview, memory and cpu
    analyses, which read system files and print. `ReadIoInfo` and
    `GenerateReport` are one step each for `--io` and `--report`, which do
    the same (the report also counts the process directories).
  - `DetailCheck`, `DetailOpen` and `DetailRead` are `--process-detail`:
    `proc_dir.exists()`, then for each of status, stat, maps and fd an
    `exists()` and `open()` step and a `read()` step. Each file is looked
    up through `/proc/<pid>` again. `detailSeen` is a history variable: the
    processes whose files were printed.
- **`ProcTree`** (`process_monitor.py --tree` and `process_manager.py`'s
  `tree` command and `kill_process`) runs one command against a process
  table in which processes start, exit, are reaped and have their pids
  reused, and in which orphans are reparented to init.
  - `proc` maps each pid to `[st, gen, ppid]`. A psutil `Process` object
    is a record of the pid and the generation that held it when the object
    was made: the create time psutil keeps.
  - The recursion of `_print_tree` and `_display_tree_node` is a stack of
    the objects still to visit. `PrintNode` and `DisplayNode` are the
    `name()` call (the manager's `oneshot` block) and the print, and the
    manager first tests and adds the pid to `visited`. `Children` is the
    `children()` call and the loop over its list, a separate step, so a
    process can exit between its line and its children.
  - `children()` keeps psutil's guard: a listed child is not older than its
    parent. `name()` on a reused pid takes both behaviours of psutil's
    releases: the new process's name, or `NoSuchProcess`.
  - `KillOpen` and `KillName` are `Process(pid)` and `name()`.
    `terminate()` is two steps, as in psutil. `KillCheck` compares the pid's
    create time with the object's. `KillSignal` is the `os.kill` that
    follows. A pid reused between the two receives SIGTERM. The model
    reaches that window, but no property checks it: the window lies inside
    psutil.
  - `Preorder` is a `RECURSIVE` reference for the printed tree: each
    process followed by its children's subtrees, in pid order.
  - `start` and `disturbed` are history variables: the table when the
    command began, and the processes reaped or reparented since then.
- **`LossyChannel`** is an abstract specification: what MQTT QoS 0 promises
  one sender and one receiver. What is delivered is a subsequence of what
  was sent: losses, but no duplicates and no reordering.
  - `IoTPipeline` instantiates it (`Chan == INSTANCE LossyChannel WITH ...`)
    and checks `DeliveryRefinesChannel == Chan!ChanSpec`.
  - In the mapping, `sent` is the publishes the publisher has attempted, in
    loop order (a failed publish is a lost message). `delivered` is the
    publisher's messages among those `on_message` completed. `next` is the
    index after the last one delivered.

`SyscallTracer` also holds the specification's own reading of a trace as
operators: `SpecMatches` and `SpecCount`,
written from spec.md 4.1 and 4.2. The properties compare the code's
counters with them.

## 3. Runs

| Run | Expect | What it shows |
|---|---|---|
| `file_session` | pass | All sessions on a trace file (every file of up to 3 lines, path present, absent, a directory or unreadable, text or json). The code's per-name counts equal the spec's count over the lines read so far (`CallCountsMatchSpec`). The text report's top list is the stable descending order (`TopCallsOrdered`). The text categories partition `total` (`TextCategoriesPartition`). The example scripts, on the same lines, count exactly the tracer's calls plus the first halves of split calls. They count exactly its errors plus the calls whose result is a bare `-1`, which the tracer's rule excludes (`ScriptsDifferOnlyBySplitsAndBareMinusOne`). For the line forms modelled, this says exactly where the two error rules of spec.md 9 disagree. |
| `live_session` | pass | Tracing a two-process program that may never exit. Under weak fairness of `main()` and of strace's exit on SIGTERM, the session always ends (`Terminates`): the timeout path (terminate, then an unbounded wait) cannot hang. |
| `live_pid_prefix` | violation | Live traces are pid-prefixed and nothing is counted. |
| `iot_safety` | pass | Publisher in publish and both mode, visualizer, one broken connection. The deques never exceed maxlen (`TypeOK`). What `on_message` completes for the publisher refines the lossy in-order channel (`DeliveryRefinesChannel`). In both mode, without `--retain`, none of the publisher's own samples reaches its `on_message`, broken connection or not (`PubEchoOnlyRetained`): it subscribes after its publish loop on the same ordered connection. |
| `iot_delivery` | pass | Another client sends a payload that `on_message` rejects half-way. The visualizer is subscribed again after every reconnect (`VizResubscribes`). A sample reported published while it is subscribed reaches its deques, unless a connection breaks or the window is closed (`PublishedIsDisplayed`). |
| `iot_plot` | violation | `update_plot` can pass matplotlib x and y data of unequal length. |
| `iot_pub_resubscribe` | violation | After a reconnect the listening publisher has no subscriptions. |
| `monitor_ends` | pass | The target exits, becomes a zombie, is reaped, and its pid is given to new processes twice. `monitor_single_process` still ends once its count is reached or once the process it attached to is gone (`MonitorEnds`). It never samples a successor forever. |
| `proc_scan` | pass | Two pids are used by three processes in turn, under every option set of the run. The statistics' counts stay consistent (`TypeOK`). In each monitor round, the new and dead counts fall short of the processes that really started and ended by the same number: the reused pids (`DiffMissesOnlyReused`). |
| `proc_tree` | pass | Both tree commands and `kill_process`, on every table of four pids, while two more processes start and any exit and are reaped. With no change during the walk, both print exactly `Preorder` of the table (`WalkMatchesReference`). Whatever changes, every process that lives through the walk under ancestors that also stay put is printed: the manager's visited set of pids never hides one (`StableShown`). |
| `proc_scan_detail` | violation | `--process-detail 1` while pid 1 exits, is reaped and is given to a new process. The status printed is that of the first process, and the stat, maps and open files that follow are the second's, under one heading (`DetailOneProcess`). |
| `proc_scan_exit` | violation | A process reaped between `open()` and `read()` of its status file raises `ProcessLookupError`. Either the statistics print an error instead of their distribution, or the memory list ends `main()` before the analyses that follow. |

Each property of a passing run has a mutant in `PROJECT.json`. The mutant is
a plausible bug in the mapped code, and TLC finds the property violated
under the mutant:
- `re.search` instead of `re.match`;
- an unstable sort;
- a loop without the `else` branch;
- `WaitTimeout` without `terminate()`;
- appending a duration without the `if duration` test;
- a deque without maxlen;
- a reconnect without `on_connect` resubscribing;
- "Published" reported whatever `publish` returned;
- a liveness test by pid alone instead of `is_running()`;
- `on_connect` also subscribing a second, overlapping filter (the broker
  then sends copies);
- the uid test written as two `if`s;
- the monitor's set differences taken the wrong way round;
- `children(recursive=True)` in place of `children()`;
- the loop over the children missing the last one;
- `SUBSCRIBE` taking effect ahead of the `PUBLISH` packets written before it;
- the scripts' regex run with `re.search` (pid-prefixed lines counted).

Each sample reaching the visualizer three times (once per topic, as the
publisher sends it to three topics under the `#` filter) is recorded as a
hazard rather than a run: it is the visible design of the two scripts.

Three disagreements with `spec.md` found while modelling the tracer are
recorded as hazards and not run. Each takes one unit test to show:
- a result `-1` followed by a newline is counted as an error;
- the duration group of the pattern never matches;
- the json report's categories do not sum to the total.

One in the visualizer is recorded the same way. A payload whose `time`
is not a number leaves the deques misaligned for good, which one
`on_message` call shows. `iot_delivery` sends such a payload. No property
claims the deques stay aligned: on the public broker, any client can send
such a payload.

Two more, in `proc_analyzer.py`, are recorded the same way:
- run without options, it prints only the memory list;
- the first 1000 processes are classified while all are counted.

Two behaviours of the tree commands are reachable in `proc_tree` and
recorded as hazards, because no output of the code promises otherwise:
- A process whose parent exits between the parent's line and its
  `children()` call is reparented to init. Init's children were already
  listed, so the process is missing from the tree.
- The manager skips a process started during the walk if it got a pid
  the walk already printed.

## 4. Bounds and fairness

- **Trace files:** 3 lines over 3 names.
  - This reaches every pair of line kinds in both orders.
  - It reaches ties and strict orders in the top list.
  - It reaches a name in no category.
  - It reaches the `-1` both as the last line and in the middle of the file.
  - Longer files repeat these cases.
- **Live mode:** two processes with one call each (`MaxCalls = 1`).
  - This is the least that makes strace split a line.
  - Two calls per process gave 2.7M states and adds no new line shape.
- **Fairness:** weak fairness on each tracer action and on `ExitOnSigterm`.
  - `main()` is one thread that never waits on anything but the child.
  - `wait(timeout=300)` always returns or times out.
  - strace exits on SIGTERM after detaching.
  - The traced program gets no fairness: it may run forever, which is what
    the timeout is for.
- **IoT pipeline:** one sample (`Count = 1`), so three messages. The
  delivery run adds one foreign payload.
  - `BufferLen = 2`, which reaches both eviction from a full deque and the
    unfull case.
  - `MaxDrops = 1`: one broken connection of either client.
  - These bounds reach every step order of the three threads over the
    three messages.
  - `--retain` is left FALSE in the runs. The retained messages sent on
    each resubscribe, in every order, made the state space grow past 15M
    states. Retain changes only what is resent after a reconnect. With
    `--retain` in `iot_safety`, `DeliveryRefinesChannel` fails: the
    visualizer's resubscribe after a broken connection replays the
    retained sample, a duplicate the lossy channel does not allow.
- **IoT fairness:** weak fairness on both `main()`s, both paho network
  threads, the broker's routing and the animation timer. There is none on
  Ctrl+C, closing the window, broken connections and other clients: those
  are the user's or the network's choice.
- **Process monitor:** `MaxGen = 3` generations hold the pid: the target,
  then two successors, so a successor can itself exit and be replaced.
  `Counts = {0, 2}`: the unlimited case, and a limit reached after a
  sleep. `MaxRows = 2` bounds `current_count`, which saturates. The only
  test on it is `>= count`, so the saturation is exact for counts up to 2.
- **Process monitor fairness:** weak fairness on the monitor's own steps
  (`time.sleep` returns) and on reaping, since the parent of a process
  waits for it. There is none on Ctrl+C, on the target's exit, or on pid
  reuse.
- **/proc analyzer:** two pids and three processes (`MaxGen = 3`), so a
  pid can be reaped and reused during a scan or between monitor rounds.
  `Limit = 1` stands for the 1000-entry cut, below the number of pids.
  `MaxRounds = 3` monitor rounds: two comparisons. The option sets are
  `--all --monitor` (the default analyses, the memory list twice, then the
  monitor), `--process-stats --top-memory 0`, no option, and
  `--process-detail 1 --io --report FILE --top-memory 0`. `ProcScan`
  checks safety only, so it states no fairness.
- **Process trees:** four pids: init and three that may each be running,
  a zombie or free, in every parent relation where a parent is older. That
  gives trees of depth 3 and nodes with two children. `MaxGen = 3`: two
  processes start during the command, enough for an exit, a reap and a
  reuse of the pid inside one walk. `Targets = {2}`: `--tree -p 2` walks a
  subtree, and `kill 2`. `ProcTree` checks safety only, so it states no
  fairness.
- **Deadlock** is checked. A finished session stutters in `Terminated`,
  which the spec allows explicitly.

## 5. What is not modelled, and the plan

Planned work, in order of what it can show:
1. **`ProcessMonitor`**: a run for the zombie case, within the project's
   budget of 12 runs. `is_running()` is True for a zombie, so a target
   that is never reaped keeps the loop sampling forever.
2. The refinement with `--retain`, where every resubscribe replays the last
   sample of each topic. This needs a smaller publisher instance to fit.
3. The example scripts' crash on a trace with no matching line: they
   divide by `total_calls`, and a trace recorded with `strace -f` has a
   pid on every line. This is recorded as a hazard. One run of a script
   shows it.

Left out:
- chart drawing;
- colour and layout;
- percentages, which are derived from the counts;
- `/proc` files that are only read and printed (version, cpuinfo, I/O
  counters);
- `process_manager.py` past line 163, which the repository does not hold.
  `interactive_mode` before that line only dispatches commands.
- `display_process_list`, `find_processes_by_name`, `show_cpu_top` and
  `analyze_proc_filesystem`: one pass over `process_iter` or a few
  `/proc` files, then printing. Their only hazard, a process gone between
  the listing and a read, is caught by psutil and skipped.
