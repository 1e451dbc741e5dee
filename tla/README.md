# A TLA+ model of the SDN simulator

This directory holds TLA+ modules that model the simulator in `src/`: the spectrum of the network,
the search for free spectrum, the controller that admits, slices, blocks and releases requests, the
engine that drives it, and what stands around that core: the generator of requests, the statistics
and the processes and files of a batch, routing and cross-talk by the state of the spectrum, and the
training of a path agent. TLC checks them on small instances, and TLAPS proves the main safety
results for every value of the constants. Paths below are relative to `src/`.

## 1. The system

The simulator estimates how many connection requests an elastic optical network has to turn away.
One simulation is one process and, apart from signal handlers, one thread. It repeats iterations:
draw requests, handle their arrivals and releases in the order of the drawn times, and take
statistics.

| Component | State | Operations | Made correct by |
|---|---|---|---|
| Spectrum database (`src/engine.py`, `src/sdn_controller.py`) | `net_spec_dict`: per link, band, core and slot 0, a request id (data) or minus an id (guard) | `create_topology`; `allocate` with `_allocate_gb`; `release` | Nobody writes a slot of somebody else; release frees exactly what was allocated |
| Spectrum assignment (`src/spectrum_assignment.py`, `helper_scripts/spectrum_helpers.py`) | `spectrum_props` of one search | `get_spectrum`: first, last, priority and best fit, forced core or index, band order | The window is free on the whole path and as large as the format needs; no room is missed; the promised order is kept |
| Routing (`src/routing.py`) | `route_props`: routes, formats, weights | k shortest paths; least congested, NLI and cross-talk aware | Routes are paths, in order, with the formats their length allows |
| SDN controller (`src/sdn_controller.py`) | `sdn_props`: the request, its path, `was_routed`, the stat lists | `handle_event`: arrival (walk over routes; slicing; dynamic slicing) and release | A failed attempt leaves nothing; a routed request holds its plan; a blocked one had no room |
| Engine (`src/engine.py`) | `reqs_dict`, `reqs_status_dict`, the topology | `run`, `init_iter`, `end_iter`, `handle_arrival`, `handle_release` | Each request leaves once; the spectrum is empty between iterations |
| Statistics (`helper_scripts/stats_helpers.py`) | counters, lists, snapshots | `init_iter_stats`, `iter_update`, `end_iter_update`, `save_stats` | Counters agree with what happened |
| Request generator (`src/request_generator.py`) | bandwidth counts, times | `get_requests` | The configured distribution and a release after each arrival |
| SNR and cross-talk (`src/snr_measurements.py`) | numbers of one check | `handle_snr` and its relatives | The right neighbours are compared |
| Channel helpers (`helper_scripts/sim_helpers.py`) | none | path length, formats, free, taken and overlapping channels | Agree with the spectrum |
| Learning environment (`run_rl_sim.py`, `helper_scripts/rl_helpers.py`, ...) | an episode: `arrival_count`, `depart_list`, forced route and index | `reset`, `step`, `handle_releases`, `allocate` | Same invariants as the engine; releases in time |
| Learning agents (`helper_scripts/{ql,bandit,multi_agent}_helpers.py`) | tables of values and counts | choose, update | Counters and penalties match the outcome |
| Processes and inputs (`run_sim.py`, `config_scripts/`, `helper_scripts/setup_helpers.py`, ...) | the options of each thread, a pool, the files `bw_info_*`, `sim_input_*`, `*_erlang.json` | read options, submit, write and read inputs, save | No simulation fails for another's doing; the results of one that finished are on disk |
| Machine learning, plots, GUI | - | - | presentation or library code |

How they interact: `run_sim.run` starts a process for each thread of the configuration, which share
nothing but the file system. Within a process everything is a call in one thread. `Engine.handle_arrival` calls
`SDNController.handle_event`, which calls `Routing.get_route`, then per route
`SpectrumAssignment.get_spectrum`, then `allocate`; afterwards `update_arrival_params` and
`SimStats.iter_update` read the attributes of the shared `sdn_props`. `Engine.handle_release` looks
the path up in `reqs_status_dict` and calls `handle_event` again, which calls `release`. The learning
environment stands in the place of `Engine.run`: its `step` hands one arrival with a forced route to
the engine, and it releases by an index into `depart_list`. The objects share mutable attributes,
several of which survive from one request, one iteration or one episode to the next.

What is hard here is, but for the processes of a batch, not parallelism but the following; `PROJECT.json` lists each at its line.

- Three places compute where a window ends, with branches on guard slots, size and path length.
- Attempts fail half-way: the third segment of a slice finds no room and two must be given back
  before the next size or route is tried under the same id.
- State is left over: `was_routed`, the stat lists, `reqs_status_dict` and the spectrum itself.
- Arrivals and releases come in any order, and request ids are used again in the next iteration.
- `handle_event` is a `while True` with several flags and exits.
- Lists turn into dictionaries of means and back; what is read depends on which of the two it is.
- Neighbouring cores, the slots of a channel and its centre are computed by hand, each place its way.
- Processes write files and read them back; a signal may come between opening and filling one.
- The environment resets before it asks whether the training is over, so one more step is taken.

## 2. The modules

| Module | Models |
|---|---|
| `Spectrum` | `net_spec_dict` and its writers `Allocate` (with the checks, `CanAllocate`) and `Release`; the reference `Open`/`HasRoom` |
| `SpectrumAssignment` | the searches, as the set of the windows that pass, each with its place in the loops; the answer is the first |
| `SpectrumChurn` | lightpaths that come and go directly on the two modules above, to reach every fragmentation |
| `ChannelHelpers` | what `sim_helpers` reads off the spectrum: free slots, free, taken and super-channels, congestion |
| `Routing` | path length, formats, k shortest paths, precomputed routes |
| `Measurements` | routes of least congestion and of least cross-talk, `check_xt`, the channels that add to the noise |
| `SdnController` | `handle_event`, one action per path tried, slice bandwidth considered and segment placed |
| `Engine` | iterations, arrivals, releases, request status, counters of the statistics |
| `LightpathService` | the abstract promise: lightpaths that hold channels alone on their links until disconnected |
| `EngineProperties` | what engine, controller and spectrum must do together; the refinement mapping |
| `RequestGenerator` | `get_requests`, one action per draw |
| `SimStats` | the operations of `SimStats`: reset, update, end of an iteration, the dictionary that is saved |
| `Simulations` | the processes of a batch: options of each thread, inputs, iterations over `SimStats`, saving, signals |
| `LearningAgents` | the path agent: schedules of epsilon and alpha, the bandits, Q-learning |
| `LearningEnv` | `SimEnv` and the loop over episodes, over the spectrum, the search and the agents |
| `MC...` | the small instances for TLC |
| `SpectrumProofs` | lemmas about sums over finite sets, the two writers, the searches and the channel helpers |
| `ChurnProofs` | theorems about `SpectrumChurn` |
| `EngineProofs`, `ServiceProofs` | theorems about `Engine`: types, the outcomes of a search and ownership; what `EngineProperties` and `LightpathService` state |
| `MeasurementsProofs` | theorems about `Measurements` |
| `GeneratorProofs`, `SimulationsProofs`, `LearningProofs` | theorems about `RequestGenerator`, `Simulations` and `LearningEnv` |

How they are composed: `Engine` extends `SdnController`, which extends `SpectrumAssignment` and `Routing`,
both over `Spectrum`. `EngineProperties` instantiates `LightpathService` with `lit` mapped to the
active requests and the channels each holds on its path. `Measurements` extends `SpectrumChurn` and
`Routing`, `LearningEnv` extends `SpectrumAssignment`, `Routing`, `ChannelHelpers` and
`LearningAgents`, `Simulations` extends `SimStats`. `RequestGenerator` shares no variable with
`Engine`; its property `EngineOrder` is what `Engine` takes for granted of the events it is given.

### How state and actions correspond to the code

- **Links.** `create_topology` stores one `cores_matrix` under `(s, d)` and `(d, s)`, so a link is
  the set `{s, d}` and writing one direction writes the other.
- **Searches.** The nested loops over cores, bands, runs and starts return the first window that
  passes. `Passing` is the set of all windows that pass with their ranks, `First` the one of least
  rank. numpy's slices, which stop at the end of the array and are empty when the end is not above
  the start, are `Slice`; several properties hang on that.
- **Handlers.** `frame` holds the locals of `handle_event`, `pc` the loop it is in. A step is one
  turn of a loop with everything it calls: `TryWhole` (one route, unsliced), `TrySliced` (one route
  handed to a slicing loop), `TooManySegments`, `SkipSlice` and `StartSlice` (one slice bandwidth),
  `PlaceSegment` (a turn of `_allocate_slicing`, with the release of a failed attempt),
  `PlaceLightpath` (a turn of `_handle_dynamic_slicing`), `SliceRound` and `Block` (the end of the
  walk). No other event runs between the steps of a handler, as in the code.
- **Exceptions** (`BufferError` of `allocate`, `IndexError` and `KeyError` of the statistics) set
  `pc` to `"crashed"` and end the run; in `Simulations` and `RequestGenerator` `pc` names the exception.
  In `LearningEnv` `pc` is `"raised"` after the `BufferError` of `allocate`, the `IndexError` and `ValueError` of
  `PathAgent.update` and the `TypeError` of the snapshots.
- **Numbers.** The outcome of an SNR check and the bandwidth the external SNR data support are free
  choices, and so is the segment count a deployed model predicts, each over a constant set. From
  the second iteration on the confidence interval may end the run, so `Finish` is always allowed
  there. In `Simulations` it is computed: `Confident` compares the squares of the interval and the mean as
  integers.
- **Draws.** An arrival takes any endpoints and bandwidth of the tables; a release may come at any
  moment after its arrival. This covers every seed of the generator. Arrivals come in the order of
  ids, which is the order of the drawn arrival times (`EngineOrder`).
- **Stat lists.** `bandwidth_list`, `core_list`, `band_list` and the slot lists are always appended
  to together and are one sequence, `segments`.
- **Times.** `requests_dict` is keyed by floats that are only compared. `RequestGenerator` keeps the
  sequence of its keys in order, and a drawn time is a place in it: `2k` for the very time of event
  `k`, which is a collision, `2k + 1` for a time between two events. `LearningEnv` has for each
  request the arrival at which it has departed, `due`; that is all `handle_releases` finds out.
- **Files.** A file that is opened for writing is empty until it has been dumped, so opening and
  dumping are two steps (`OpenInput`, `DumpInput`, `OpenOutput`, `DumpOutput`). A signal may come
  before any step in the iterations; its handler is `save_stats`, which takes one argument and gets
  two; it raises, which leaves the file as it is (`Interrupt`).
- **Options.** `read_config` and `_setup_threads` take an option from the command line, the section
  of the thread and the options of `s1`, in that order. `Options` merges the three.
- **Measurements.** A request is routed, searched a window for, measured and allocated in one step,
  `Arrive`, as no other event comes between. Where `find_least_cong` selects no route the code fails in the
  caller; `Arrive` then does not happen (`Selects`). A float cost is a pair of numerator and denominator, and costs
  are compared by cross-multiplying.
- **Learning.** Agents' values are integers in units of `1/Scale`, chosen so that the means of the
  bandits are exact for the number of steps a run takes (`ScaleIsExact`); q-values are rounded down. Epsilon, alpha
  and the discount are pairs of numerator and denominator, and the powers of an exponential decay come from a table (`Power`). The arms UCB chooses after each was taken once
  depend on irrational numbers, and are free. Whether a random number is below epsilon is free while epsilon is
  above 0. `served` and `given` record what was served and rewarded, for the properties only.

Definitions such as `Release_DataOnly`, which stand before the one they resemble, are faulty variants
used to test the properties: with the variant in its place the property must fail. `PROJECT.json`
pairs each property with one.

## 3. What TLC checks

| Run | Question | Instance |
|---|---|---|
| `churn_first_fit` | Does first fit offer what `allocate` takes, miss no room, keep the order, and free everything? Do the helpers read the lightpaths off the spectrum? | a line of two links, 1 band of 7 slots, 1 guard slot, demands of 1-3 slots, 3 requests |
| `churn_bands` | The same without guard slots, over bands and cores in BSC order, with forced core or index | 2 cores, bands of 2 and 3 slots, demands of 1-2 slots, 3 requests |
| `engine_whole` | Ownership of slots, emptiness between iterations, blocking, its counters | triangle, 2 routes per pair, 4 slots, 3 requests, 2 iterations, no slicing |
| `engine_slicing` | Is a sliced request placed or given back as a whole? Does it implement `LightpathService`? | 6 slots, bandwidths 25, 50, 100, up to 4 segments, 3 requests |
| `engine_dynamic` | The same for dynamic slicing with every SNR answer, over bands, cores and precomputed routes | external k shortest paths, precomputed formats, fixed grid, 2 cores, 2 bands, no guard slots, 3 requests |
| `engine_model` | Are only predicted divisions tried, and does the run end? | predictions 1 and 4, 2 requests, 2 iterations, weak fairness |
| `requests` | Do counts, ids and events stay in step through collisions, and does the generator return? | 4 requests, 2 nodes, 2 bandwidths, distributions that fit and that do not |
| `simulations` | Which process fails for another's doing, what is on disk when one has finished, does the batch end? | `s1` with two traffic volumes and signals, `s2` with snapshots from its section, up to 3 iterations of 2 requests |
| `measurements` | Are the right neighbours counted, the right route chosen, the noise finite? | 7 cores of 5 slots with one guard slot on a ring of four with a chord, channels of 1 and 2 data slots, 3 requests, both routing methods |
| `learning` | Are departures in time, is what is learned what was rewarded, does epsilon follow what happened, which exceptions end the training, does it end? | triangle, 2 episodes of 3 requests, the six combinations of algorithm and schedules in `MCConfigs`, one of them with a snapshot every second request, weak fairness |
| `engine_phantom` | expected violation of `RoutedHoldsSlots` | slicing with up to 2 segments |
| `learning_reward` | expected violation of `RewardIsDeserved` | as `learning` |

The properties, in `SpectrumChurn`, `EngineProperties` and the modules of the runs, are each preceded by
what they state. The ones to read first: `SearchAgreesWithAllocate` and `NoFalseBlocking` (search
and writer agree with each other and with the reference in every reachable fragmentation),
`SlotsHaveOwners` and `HeldUntilRelease` (nothing leaks, nothing is taken away), `HoldsItsPlan`
(exactly the segments of the attempt that succeeded), `ImplementsService`, `BlockedOnlyWithoutRoom`,
`BlockingIsCounted` and `Terminates`; `CrossTalkMissesNobody` and `LeastCongestedCarriesLeast` (the
arithmetic on the spectrum against the lightpaths that are held); `SavedWhenFinished` and `FailsAlone`;
`HeldAreDue` and `LearnedFromRewards`.

**Why these bounds are enough.** A search looks at one path, one core and one band at a time, and all
its branches depend on the neighbourhood of a window, on whether there are guard slots and on whether
the path has one link or more. Three requests over two links leave runs on both sides of a
lightpath, on either link, and windows free on the first link and taken on the second. In the engine, three
requests are one that holds slots, one that fails or leaves around it and one that profits; two
routes and two or three bandwidths let an attempt fail at each place and succeed later; two
iterations let a record of the first meet an id of the second. In the triangle the two-link way round
is shorter than the direct link, so that the order of routes is not that of hops.

In `requests` a fourth request can collide with an arrival and with a release of each of two
others that overlap; two bandwidths let one be used up while the other is not. In `simulations` two
threads are enough to disagree about a file, two volumes for one to follow or be cancelled by the
other; three iterations with a save step of 4 have one in the middle that is not saved unless the interval ends
the run there. In `measurements` a core of the ring, its neighbour across the wrap (0 and 5) and
the centre occur, and between neighbours there are ways of one, two and three links, the third
being the longer one `find_least_cong` has to meet. Five slots have room for a wide and a narrow channel
with their guard slots beside each other, so that a centre that is measured one slot off meets the edge of another
channel; with four slots it could not, by parity. In `learning` two episodes are an id met again and
a last episode with the step after it, and three requests one that holds, one that is blocked and one
that comes after a release. All bounds are the constants `MaxReqs`, `NumRequests`, `MaxIters`,
`MaxSegments`, `BandSlots` and the tables of the MC modules.

**Fairness.** `engine_model` and `learning` assume `WF_vars(Next)`, that the one thread keeps running;
it never waits for anything. `requests` assumes that, and strong fairness of a draw of fresh
times and of a destination other than the source: a generator of random numbers that draws the same
unlucky value for ever is ruled out, any finite streak of them is not. `Returns` needs it, as the code's loops
have no other end. `simulations` assumes weak fairness of each process, which the
operating system's scheduler justifies, and none of signals.

**Deadlock** is checked everywhere; what has finished or raised stutters in `Ended`.

**Configurations.** Properties hold for the configurations of their runs. `NeverCrashes`
and `BlockingIsCounted` are checked in `engine_whole`. Elsewhere the
run may crash in the statistics: under dynamic slicing a lightpath may carry a bandwidth that is no
key of `mods_used_dict`, and slicing with a low `max_segments` gives `engine_phantom`. The other
properties are checked through such states. `FailsAlone` is checked with `thread_erlangs` off, see below.

### Where code and documents disagree

Two runs end in a violation, each against a line of the documentation (`PROJECT.json`, `findings`):

- **A phantom route** (`src/sdn_controller.py:267`): when no slice bandwidth applies, `was_routed` is what the
  previous request left.
- **A reward for a blocked request** (`run_rl_sim.py:135`): `step` asks whether the id is in
  `reqs_status_dict`, which is never emptied while ids start again in each episode.

The following show when a configuration is edited or the code is read, and have no run of their own.

In the core:

- Last fit on a path of several links (`helper_scripts/spectrum_helpers.py:34`) checks an empty slice on the
  links and refuses every request (`NoFalseBlocking` fails with `AllocationMethod = "last_fit"`). It also visits
  the runs of a core in ascending order and so takes the end of the lowest run that is large enough.
- Best fit with a guard slot (`src/spectrum_assignment.py:46`) overwrites the guard slot it added, and
  `allocate` takes it off again: one data slot too few (`HoldsItsDemand` fails).
- `priority_last` counts upwards from the top of a run (`NoFalseBlocking` fails).
- More than one guard slot: `allocate` takes off and writes one whatever the number (`HoldsItsDemand` fails).
- `xt_aware` with an odd best core searches runs downwards while the end index counts upwards
  (`src/spectrum_assignment.py:229`), and finds nothing.
- `block_reason` (`src/sdn_controller.py:296`) is `distance` for every blocked request, against `docs/args/sdn_args.rst:52`.
- 600 over 500 Gb/s is one segment of 500, counted as routed (`src/sdn_controller.py:134`).
- `segments` keeps the segments of attempts that were given back, which is why `HoldsItsPlan` speaks of
  the last `num_trans` of them.

In routing and measurements:

- `find_least_weight` reads `sdn_props.mod_formats`, which nothing sets: routing by length alone or by
  NLI raises `AttributeError` (`src/routing.py:102`).
- `find_least_cong` selects a route only when a path longer than the shortest by more than one hop comes up
  (`src/routing.py:60`); `Selects` says when.
- `_find_channel_mci` takes the first element of a taken channel, a request id, for its slot index
  (`helper_scripts/routing_helpers.py:51`). `get_channel_overlaps` compares an array with `False` by
  identity and finds no overlap.
- `check_adjacent_cores` misses the last data slot when there are no guard slots, and
  `CrossTalkMissesNobody` is stated for guard slots only. The cross-talk of earlier lightpaths is not checked
  again when a neighbour is lit.
- `find_free_channels` misses channels of one slot after the first gap, and without guard slots
  `find_taken_channels` joins neighbours; `ChannelsAreOpen` and `TakenAreLightpaths` are checked where neither happens.
- `compute_response` (`helper_scripts/snr_helpers.py:66`) indexes a dictionary before it tests the key for 0.

Around the core:

- The handlers of SIGINT and SIGTERM, "to prevent incomplete saves" (`src/engine.py:214`), raise `TypeError`
  and may leave a file open and empty.
- With `thread_erlangs` the tasks of one thread share `bw_info_{thread}.json`, and a reader can meet it empty: `FailsAlone` fails
  as soon as `thread_erlangs` is set in `MCSimulations`.
- Snapshots raise `TypeError` at the first one taken: the name of a band is compared with 0. In a training they are the one exception that
  can be met (`OnlySnapshotsRaise`), at the first request whose number `snapshot_step` divides.
- An `[s1]` section in the configuration file leaves `s1` without its options (`_copy_dict_vals`);
  the model assumes there is none. `read_config` ignores the command line for an option the file lacks
  (`config_scripts/setup_config.py:111`); `GeneralSettings` has all options.
- A distribution such as 0.29 of 100 requests truncates to 28 and is refused by `ValueError`.
- With fewer simple paths than `k_paths` a bandit picks a missing path and Q-learning meets `None`; the
  assumption `EnvAssumption` excludes it. With `num_requests = 1` the step after the training ends an episode. An
  agent whose epsilon and alpha are both state-based counts each visit twice.

## 4. What is proved

The theorems are about the specifications themselves, for every topology, band plan, format table, number of requests,
segments, iterations, threads and options, every outcome of the SNR checks and predictions and every order of events. They rest
on the named assumptions of the modules (`SpectrumAssumption`, `SearchAssumption`, `RoutingAssumption`, `ControllerAssumption`,
`EngineAssumption`, `ChurnAssumption`, `GeneratorAssumption`, ...), which are shapes of the inputs only and which TLC evaluates in the
runs. Two of these are there for the sake of the proofs and true of the code: a band is listed once (they are the keys
of a dictionary), and `None` is not a lightpath (`DarkAssumption`). Where a theorem holds for a part of the configurations only, its
statement names them:

| Hypothesis | Means | Outside it |
|---|---|---|
| `SearchFits` | at most one guard slot, and none with best fit | the end index and the guard band disagree (section 3) |
| `SearchIsComplete` | first fit, best fit, or `priority_first` with the seven cores its order names | last fit and `priority_last` miss open windows (section 3) |
| `SlicingHasChoice` | whatever request may be sliced has, on every route, a smaller bandwidth with a format that reaches | the phantom route of `engine_phantom` |
| `SlicesDivide` | a bandwidth is a multiple of every smaller one | 600 over 500 Gb/s (section 3) |
| `~DynamicLps`, `DynamicLps` | slicing is static, dynamic | a dynamic lightpath may have no key of the statistics |
| `OneVolumeAtATime` | no thread sets `thread_erlangs` | a reader may meet an empty input (section 3) |
| `AlphaDecays` | alpha starts at 1 at most and its rate is at most 1 | a q-value is no mean of the old one and the new |
| `ScaleIsExact` | the unit of the values is fine enough for the means and the discounted sum, which is at most 1 | the model rounds where the code has floats |
| `Band = {"c"}` | the one band whose channels `_calculate_xci` reads | `net_spec_dict` has no such key, or a window of another band is compared with channels of this one |

`SlicingHasChoice` is true of the tables of `engine_whole` and `engine_slicing` and false of those of `engine_phantom` and
`engine_model`. The last predicts a single segment among others, which is the other hypothesis under which
`EngineSlicesAsPredicted` is proved (`1 \in Predictions`).

| Theorem | States | Hypotheses |
|---|---|---|
| `EngineProofs!TypesHold` | `Spec => []TypeOK` | |
| `EngineProofs!SlotsAreOwned` | `[]SlotsHaveOwners`: an occupied slot is an active request's or the one's in the handler, on the path its release will walk | |
| `EngineProofs!NothingIsLeft` | `[]IterationsEndEmpty` | |
| `EngineProofs!HeldSlotsAreKept` | `HeldUntilRelease`: no step between a request's routing and its release touches its slots | |
| `ServiceProofs!EngineImplementsService` | `ImplementsService`: a step connects one lightpath, disconnects one, or is a stutter of `LightpathService` | |
| `ServiceProofs!EngineHoldsItsPlan` | `[]HoldsItsPlan` | |
| `ServiceProofs!EngineCountsBlocking` | `[]BlockingIsCounted` | |
| `ServiceProofs!EngineNeverCrashes` | `[]NeverCrashes` | `SearchFits`, `~DynamicLps`, `SlicingHasChoice` |
| `ServiceProofs!EngineBlocksWithoutRoom` | `[]BlockedOnlyWithoutRoom` | `SearchFits`, `SearchIsComplete` |
| `ServiceProofs!EngineSlicesAsPredicted` | `[]SlicesAsPredicted` | `~DynamicLps`, and `SlicingHasChoice` or `1 \in Predictions` |
| `ServiceProofs!EngineCarriesBandwidth` | `[]PlanCarriesBandwidth` | `DynamicLps`, or `SlicesDivide` and `SlicingHasChoice` |
| `ServiceProofs!EngineIsFinite` | `[][NearsItsEnd]_vars`: each step leaves less work to be done | finitely many bandwidths |
| `ChurnProofs!ChurnImplementsLightpaths` | the churn implements `LightpathService` (`Lightpaths!Spec`) | `SearchFits` |
| `ChurnProofs!ChurnSearchAgrees` | `[]SearchAgreesWithAllocate` | `SearchFits` |
| `ChurnProofs!ChurnNoFalseBlocking` | `[]NoFalseBlocking` | `SearchFits`, `SearchIsComplete` |
| `ChurnProofs!ChurnFirstOpen` | `[]TakesFirstOpen` | `SearchFits`, first fit |
| `ChurnProofs!ChurnForced` | `[]ForcedIsObeyed` | `SearchFits`, not last fit |
| `ChurnProofs!ChurnChannelsAreOpen` | `[]ChannelsAreOpen` | |
| `ChurnProofs!ChurnHoldsItsDemand` | `[]HoldsItsDemand` | `SearchFits` |
| `ChurnProofs!ChurnTakenAreLightpaths` | `[]TakenAreLightpaths` | `SearchFits` |
| `ChurnProofs!ChurnNothingLeaks` | `[]NothingLeaks` | |
| `GeneratorProofs!GeneratorEngineOrder` | `[]EngineOrder` | |
| `GeneratorProofs!GeneratorInStep` | `[]InStep` | |
| `SimulationsProofs!ResultsAreSaved` | `[]SavedWhenFinished`: a simulation that finished has its own last results whole on disk | |
| `SimulationsProofs!SimulationsFailAlone` | `[]FailsAlone` | `OneVolumeAtATime` |
| `SimulationsProofs!BatchIsFinite` | `[][NearsItsEnd]_vars`: each step brings one process nearer its end and sets none back | |
| `MeasurementsProofs!MeasuredImplementsChurn` | `MeasuredSpec => Spec`, the specification of `SpectrumChurn` | `SearchFits` |
| `MeasurementsProofs!MeasuredMissesNobody` | `[]CrossTalkMissesNobody` | `SearchFits` |
| `MeasurementsProofs!MeasuredCarriesLeast` | `[]LeastCongestedCarriesLeast` | `SearchFits` |
| `MeasurementsProofs!MeasuredKeepsAway` | `[]XtRouteKeepsAway` | `SearchFits`, links of positive length |
| `MeasurementsProofs!MeasuredXciIsFinite` | `[]XciIsFinite` | `SearchFits`, `Band = {"c"}` |
| `LearningProofs!OnlySnapshotsEndTraining` | `[]OnlySnapshotsRaise`: of all that a step may raise, only a due snapshot does | `SearchFits` |
| `LearningProofs!TrainingHoldsWhatIsDue` | `[]HeldAreDue` | `SearchFits` |
| `LearningProofs!TrainingLearnsFromRewards` | `[]LearnedFromRewards` | `ScaleIsExact`, `AlphaDecays` |
| `LearningProofs!TrainingMovesEpsilon` | `[]EpsilonFollowsHistory`: epsilon is where the episodes, visits or rewards so far put it | |
| `LearningProofs!TrainingIsComplete` | a training that ends has given every request of every episode its reward | |
| `LearningProofs!TrainingIsFinite` | `[][NearsItsEnd]_vars`: each step leaves fewer steps to come | |
| `LearningProofs!RoutesAreShortest` | what `find_k_shortest` answers: simple paths, each once, the shortest first, as many as there are up to `k` | a finite topology |

**The writers and the searches** (`SpectrumProofs`). `AllocateCell` and `ReleaseCell` say what the writers change: `allocate`, where its
checks pass, turns free cells on its path into its id or minus its id, and `release` frees the cells of its id on its
path. `AssignedType` says that whatever the method, a search that succeeds assigns a window in an existing core
and band, which takes an argument that the first of a set of ranked windows is one of them. Of the lemmas on the
searches `AssignedFits` is the central one: what the search found has its data and guard slots free on every link.
From there the first five theorems on the churn (the search agrees with `allocate`, misses nothing, keeps the order, obeys what is forced, and
the channel helpers agree with it) follow for **every** spectrum, not only the reachable ones, so they hold
wherever the search is called. The other three are about histories:

- `LeakInv` strengthens `NothingLeaks` by the links: an occupied cell is of a request held over its link, or its release would
  miss it;
- `ExactInv` adds that each request holds its window whole (`Holding`), without which `find_taken_channels` might see one
  lightpath as two or two as one.

`ChurnImplementsLightpaths` is a second refinement of `LightpathService`, of the search and the writers without the controller. A lightpath's
channels are what the spectrum shows of it on **every** link of its path (`ChannelsHeld`). That there is one rests on `Holding`, that two
lightpaths over a link have none in common on a cell having one value (`ChannelsApart`).

**The types** of the engine come first in `EngineProofs`: `Typed` is `TypeOK` with what the types of the next state rest on, that
the handler's bandwidth is one of the table, a slice is smaller than it, and the stored paths are paths. The
module also lifts `AssignedType` to the outcomes of `get_spectrum`.

**Ownership** is not inductive as it stands. `OwnsInv` strengthens it:

- the request in the handler is new, neither routed nor released before (`HandlesNew`), so that its id is nobody else's
  and giving back its cells takes nobody's;
- between attempts it owns nothing, and during one its cells lie on `path_list`, the very path that the
  give-back walks (`SlotsOwned` with `InProgress`);
- `_handle_dynamic_slicing` gives back only when `remaining_bw` differs from the bandwidth, so as long as all of
  the bandwidth remains nothing was placed (`NonePlaced`);
- a segment loop runs only with `was_routed` set, without which a finished attempt would be taken for a
  failed one that still holds slots;
- every active request has a record of its path.

Each action has a lemma (`Owns...`) that it keeps `OwnsInv` and changes only cells of the request it is about
(`TouchesOnly`). The first half gives `SlotsAreOwned` and, with no active request left, `NothingIsLeft`;
the second, as no active request is the one in the handler, `HeldSlotsAreKept`. Nothing but `AllocateCell` and `ReleaseCell`
is used of the writers, so the result does not
depend on the search being right: a wrong window makes the run crash in `allocate`, and leaks nothing.

**The plan and the refinement** rest on `ServiceInv`, which adds to `OwnsInv`

- `PlacedInv`: what each place of the handler has placed. In the loop of segments the request holds the windows of the last
  `num_trans - remaining` segments, in the loop of lightpaths of the last `num_trans`, and these exactly (`HoldsWindows`); a failed attempt starts the
  next one from nothing. The phantom route is the second half of its last conjunct: routed, no segment, no slot;
- `OnRoute`: the handler walks the routes of its request's endpoints;
- `Lit`: an active request has the same channels, at least one, on each link of its path.

`HoldsItsPlan` is `PlacedInv` where the handler returns. For `ImplementsService` each step is shown to connect, to disconnect, or to keep
all lightpaths (`Connects`, `Disconnects`, `Keeps`). What a connected lightpath holds was free
before, so its channels are nobody else's on a link they share: that is the guard of `Connect`, and `TouchesOnly` is what keeps the other lightpaths
as they are.

**The other engine theorems** each add a small invariant to `ServiceInv`:

- `EngineNeverCrashes`: `ChoiceInv`, when the loop over the slice bandwidths is entered with an earlier request's flag, it has a slice
  to try, so it does not end on that flag; and `CountsInv`, segments have bandwidths of the table and a
  routed request has a segment. `allocate` raises nothing because of `AssignedFits`.
- `EngineBlocksWithoutRoom`: `RoomInv`, the routes already tried have no room in the spectrum **without** the request in the handler
  (`Without`). An attempt that failed between was given back, so this is the spectrum as the request found it;
  `TouchesOnly` shows that it does not change while the handler runs.
- `EngineSlicesAsPredicted`: `PredictedInv`, the segments in the loop are as many as predicted, from the choice of the path to the end.
- `EngineCountsBlocking`: `CountedInv`, the counters are those of the `Settled` requests, which are the arrived ones but the one in
  the handler, in each state in which it has not been counted yet.
- `EngineCarriesBandwidth`: `CarriedInv`, what was placed (`Carry`) and what remains to be placed make up the bandwidth.
- `EngineIsFinite`: `WorkLeft` is a row of six natural numbers, from the outermost loop to the innermost - iterations, events, rounds of the
  handler over its routes, turns of a round, slice bandwidths of a route, parts to be placed - and each step makes it smaller in lexicographic order: what a loop starts
  afresh inside, it pays for outside. `IndexInv` keeps the index of the route in range. The table of formats has to have finitely many bandwidths, as a dictionary does, or the loop over
  the smaller ones would have no length. A run that crashes is over, so `SearchFits` is not needed here.

`EngineCountsBlocking` and `EngineCarriesBandwidth` speak of sums, which the model computes by the folds of the community modules. `SpectrumProofs` proves what is
needed of them by a smallest counterexample: were some finite set without the property, there would be one all of whose
proper subsets have it (`SmallestSubset`, from the well-foundedness of strict inclusion), and one step of the fold
refutes it. `SumExists` and `SumUnique` show in this way that the table the fold is defined by exists, and `SumStep` and its
consequences compute with it. The measurements rest on the same lemmas.

**The generator.** `OrderInv` says of any two events of the sequence which comes first (`Ordered`), and where a time that
is being drawn lies: after the last arrival, its departure after itself. A collision leaves the events alone, a record inserts two and
shifts the rest. `StepInv` adds the pending bandwidth: between the draw of a bandwidth and the record the count has
gone down for a request that is not there yet.

**Saving.** `SavedWhenFinished` says nothing of a process that still runs; `SavingInv` says what each place
of the loop has achieved: while requests are handled the list of blocking has one entry for each
iteration that is over, from the end of an iteration on one more, whose last entry is the count of this iteration
(`Closed`); and when the loop is about to ask whether to end and will, the file holds the present statistics (`Saved`). The
heart is `SavingEndIter`: `end_iter` skips the save only where neither the last iteration nor the confidence
interval ends the loop, and the loop asks the same of statistics that have not changed. `OneProcess` reduces a step to the process
that takes it, since no process writes another's file or statistics, and `StaysKept` does the others.

`BatchIsFinite` counts what each process has still to do, from the tasks of its thread down to the requests of an iteration
(`StepsLeft`). A step, or the signal that stops a process, makes this number smaller for that process and leaves those of the others alone, so processes cannot keep each other from ending by running on. `BoundsInv` is what keeps the counts within their loops.

**Failing alone.** `AloneInv` says that a task has begun only if those before it in its thread are finished (`InTurn`), so that its input is
whole when it reads it, and that the statistics are open for appending whenever a request is counted, although the
end of an iteration turns lists into dictionaries of means.

**The training.** `ProgressInv` ties the agent to the environment: both count the same episodes, and while there are episodes to come
the agent has one row of rewards for each that is over, of one length, and one for the present episode as long as it has served
requests. So the row a reward goes to exists, the average is taken of rows that are as long, and the reward of the step after the last
reset is dropped because the agent has counted that episode too.

`HeldInv` is about the departures. Within an episode there is a clock, the arrival up to which releases are processed: 0 from a
reset to its observation, from then on the request that was last looked at (`Clock`). `last_processed` is the number of departures by the
clock, the spectrum is what is due after it (`Due`), and the entries of this episode, and of no other, say where its lightpaths
are (`EntriesInv`, `EpisodeInv`). That matters because `reqs_status_dict` outlives the reset: a request it has from an earlier
episode, blocked in this one, is released over a path it does not hold, and the spectrum shows no trace of it only since no
cell carries its id. `PositionTells` is the fact about the sorted list: a release lies beyond the index exactly when
its request has not departed by the clock. `ReleasedFrees` says what the releases of a whole batch free, in whatever order the fold takes
them, again by a smallest counterexample. A release processed twice, or an index kept over a reset, breaks the first
conjunct of `EpisodeInv`.

That the routes of different pairs and arms are different paths, which the departures need and the rewards too, is `RoutesAreShortest`. The
recursion of `find_k_shortest` takes a shortest path of those that are left. The prover has no induction for its table, so the proof takes the
smallest index at which a claim on the table would fail (`LeastNatural`) and contradicts it by the index before: first that there is such a table, then that
an entry is a path not taken before. The powers of the schedules are treated alike (`PowersExist`, `PowersAre`).

For the rewards, `GivenInv` says that each request served was given one reward, but for the one the agent is about to learn from, and how many
there are after so many episodes; `LearnedInv` adds the property, for the requests that have theirs. The value of an arm is the running mean
`v + (r - v) / n` of the code: `EntryLearns` shows that the mean of `n` rewards times `n` is their sum again, provided that the
quotient is exact, which it is because `Scale` is a multiple of every count an arm can reach (`QuotientIs`), which is at most the number of all requests of the training. A q-value is a mean, with weight alpha, of itself and of a reward plus the discounted
future; `QStays` shows that the bounds `Scale * r / (1 - discount)` are closed under it, with the rounding. As some of the terms of a
bound are 0 by sign, the bounds need the better of the two rewards and 0.

`ParamsInv` has the types of epsilon, alpha and what they are made from, and under `AlphaDecays` that alpha stays a weight. For
`EpsilonFollowsHistory`, `EpsInv` says the same by what the agent stores: an episodic epsilon is the value of its schedule for the iteration, `visits` has for
each pair and arm the requests that were learned from on that path, each counted once or twice, and `reward_list` the last two rewards. `RankInv` tells the requests
that are learned from by their place alone, the first `MaxIters * NumRequests`, so that the one of the step after the last episode, which the agent
drops, changes none of the three; `PlaceInv` has that step nowhere else. A reset in the first episode sets the agent up again
(`NewAgent`), with a history that is still empty.

After a step has raised, nothing is told apart of what it had written. The invariants above are therefore kept as long as none has: the proofs show them of every
step that does not end in `"raised"`, and `OnlySnapshotsRaise` of the one that does, from the invariants before it. `ServeSucceeds` is the
lemma that `allocate` takes the window the search has found (`AssignedFits` once more), in the spectrum that `HeldInv` describes.

`TrainingIsFinite` is liveness as far as the prover goes: each step makes `StepsLeft` smaller, a number, so no training, of whatever size, goes on for ever. Together with
`TrainingIsComplete` it leaves of `TrainingEnds` that the thread keeps running and that a step is possible, which TLC checks.

**The measurements.** An arrival in `Measurements` that is routed is a `Provision` of `SpectrumChurn`, whatever route the state of
the spectrum has it take (`ArriveProvisions`), so `ExactInv` holds here too: every lightpath is whole on its path. `MeasuredInv`
adds that its `end_slot` is where its data stop. The rest is arithmetic on a spectrum of which that is known:

- `NobodyIsMissed`: at a slot, the neighbouring cores in use and the lightpaths held on neighbouring cores are in bijection, since a slot
  has one holder and a holder one core (`BesideIsCounted`). The window that is looked at ends with its guard slot.
- `LeastCongestedIs`: what is free on a link is what there is less what the lightpaths take (`FreeAndLoad`), the blocks of different
  lightpaths being disjoint (`DisjointSum`), so fewest free slots and largest load are the same link.
- `KeepsAway`: a link costs nothing if and only if it is clear, that is, has free slots and none of them lies beside one in use (`LinkCostIs`).
  A link that carries nothing is clear (`IdleIsClear`), so where a path carries nothing the route found is clear too. A clear link that carries something
  has one on each of the seven cores (`ClearCarriesSeven`): the slot where a lightpath starts is not free on the centre
  core, or it would be a free slot beside one in use, so the centre carries one too, and then each core of the ring for the same reason. `CostExists` shows that the table `XtCost` picks from exists, and a smallest node of the path where
  the sum would go wrong that it does not (`XtCostIs`). A band without slots makes every link cost the same and carry nothing.
- `NoiseIsFinite`: an edge at the centre of the window would lie between free slots, or be one.

Two conjuncts of `MeasurementsAssumption` serve these proofs: every pair of nodes that is asked for has a path, as `find_least_weight` fails
on an empty list, and the formats need numbers of slots that `SlotsNeeded` has. `FindLeastXt` takes any candidate should none be least, which
cannot be with finitely many of them.

`ArriveProvisions` is also the step of `MeasuredImplementsChurn`: whatever is proved of `SpectrumChurn` holds where the state of the
spectrum chooses the routes.

**Only model-checked**: liveness (`Terminates`, `Returns`, `BatchEnds` and `TrainingEnds`), which is beyond the prover. Of three of these the half that is a matter
of safety is proved: an engine run, a batch and a training cannot go on for ever, for any size. That the process keeps running and that a step is possible
until the end is what TLC adds, on its instances. `Returns`, of the generator, is TLC's alone: a draw of a bandwidth that is used up is repeated, so what ends its loop is the fairness of the draws. Every invariant and
every action property that a passing run checks is a theorem above.

## 5. What is not modelled, and why

- The physics of SNR, cross-talk and NLI: floating point. Which cores, slots and channels enter it is modelled.
- Means and deviations other than those the confidence interval rests on, training data files and printing: floating point and output.
- `xt_aware` allocation with `find_best_core`, `xt_type` `with_length`, and `_handle_snr_external` (tables outside
  the repository); `forced_band`, which no caller sets; the scores of fragmentation, which no caller that runs asks for.
- Core and spectrum agents ("no longer supported"), agents of the DRL library, testing with a saved model and the search for hyperparameters.
- Slicing in a training (`max_segments` above 1, the second round of `handle_event`): `LearningEnv` has `max_segments = 1`, as the example
  configurations of the trainings do. What a training raises in the statistics or on its files: the statistics are in `Engine`, files in `Simulations`.
- Types and validation of arguments, topology files and modulation tables: pure input.
- Training of the learned models (library code), plots and the GUI: presentation.

## 6. Plan

1. **Core** (done): `Spectrum`, `SpectrumAssignment`, `SpectrumChurn`, `Routing`, `SdnController`, `Engine`,
   `LightpathService` and the theorems about them.
2. **Around the core** (done): `RequestGenerator`, `SimStats`, `Simulations`, `ChannelHelpers`, `Measurements`,
   `LearningAgents`, `LearningEnv`; the theorem about saving.
3. **Proofs** (done): every safety property of the passing runs, that engine runs, batches and trainings are finite, and the
   refinements of `LightpathService` and `SpectrumChurn`, section 4.
4. **Models, next**: `xt_aware` allocation, testing mode of the agents.
