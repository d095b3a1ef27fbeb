# A TLA+ model of MMSearch-R1 training

This directory specifies the core of the repository: the multi-turn rollout in
which a vision-language model asks search tools for help, the tools themselves,
the reward computed from a finished conversation and what a training step makes
of it, the trainer that saves the model and survives interruptions, the fully
asynchronous pipeline in which rollout and training run side by side, and the
DAG-IG pipeline that decides which searches were worth their reward. Safety and
liveness are model-checked with TLC on small instances. The safety properties that
hold are also proved with TLAPS for every value of the constants, some of them under
a hypothesis on the constants; section 4 says which, and what is left to TLC.

Paths below are relative to the repository's root.

## 1. The system

### 1.1 Components

| Component | State | Operations | Talks to |
|---|---|---|---|
| **Multi-turn rollout** `mmsearch_r1/workers/multimodal/rollout/vllm_rollout_spmd.py`, `mmsearch_r1/utils/torch_functional.py` | `to_generate`, `current_iteration`, per trajectory the prompt token ids, the mask, the image list, the search counters, the futures of the running searches | `generate_sequences`: generate, trigger, call, process, rebuild, pad and cut | engine (vLLM), search tools (threads), reward and actor (the batch) |
| **Search tools** `mmsearch_r1/utils/tools/*.py` | `_INDEX_CACHE`, `_INDEX_LOCK`, the parquet file | `call_image_search`, `call_text_search`, `get_offline_index` | called by threads of the rollout; SerpAPI over HTTP |
| **Reward manager** `mmsearch_r1/workers/multimodal/reward/mmsearch_r1.py`, `mmsearch_r1/utils/reward_score_mm/mmsearch_r1_score.py`, `mmsearch_r1/utils/dagig_offline.py` | none but diagnostics and a cache of edges | `__call__`: find the turns, score them, spread a bonus | reads the batch of the rollout; the trainer reads its tensor |
| **Trainer** `mmsearch_r1/trainer/multimodal/ray_trainer.py` | `global_steps`, the dataloader's position, the prompts being gathered, `last_val_metrics` | `fit`, `_validate`, `_save_checkpoint`, `_load_checkpoint` | all workers by remote calls; the disk |
| **Checkpoint managers** `verl/verl/utils/checkpoint/*.py` | `previous_saved_paths`, in memory; the checkpoint folders and the tracker, on disk | `save_checkpoint`, `load_checkpoint`, `ensure_checkpoint_capacity`, `register_checkpoint` | one instance per rank, synchronised by barriers |
| **GRPO advantage** `mmsearch_r1/trainer/multimodal/core_algos.py` | none | group by `uid`, normalise, mask | trainer |
| **Actor update** `mmsearch_r1/workers/multimodal/actor/dp_actor.py` | weights and optimiser | `update_policy`: mini- and micro-batches | trainer |
| **FSDP workers** `mmsearch_r1/workers/multimodal/fsdp_workers.py` | what is on the GPU, what is off-loaded | load/offload around every call | trainer, rollout, actor |
| Grounded agent `mmsearch_r1/agents/grounded_zoom_search_verify.py` | caches, budgets, crops | zoom, search, verify | search tools |
| **Fully asynchronous pipeline** `verl/verl/experimental/fully_async_policy`, `verl/verl/checkpoint_engine/base.py` | the message queue; `active_tasks`, `staleness_samples`, `paused` and the lock of the rollouter; version, local step and batch of the trainer | feed, process, pause, put, get, `reset_staleness`, `update_weights`, monitor, close | trainer, rollouter and queue are Ray actors; the rollouter is coroutines on one event loop |
| **DAG-IG** `projects/dagig_mmsearch/src`, `mmsearch_r1/utils/dagig_offline.py` | trajectories of tool steps; the pool of counterfactual steps; the rows a relabelling job selects | three rollouts and a teacher chain, scoring against the pool, returns, token rewards, relabelling, loading of edges | its own tools; the reward manager reads its edges |
| Dataset `mmsearch_r1/utils/dataset/mm_rl_dataset.py` | parquet rows | item, collate | trainer |
| Entry point, monkey patches, scripts, `verl/` | - | wiring, numerics, command lines, vendored framework | - |

A training step is: the trainer takes a batch of prompts from the stateful
loader; the rollout turns each into `n` conversations; the reward manager
scores every conversation; with `filter_groups` prompts whose conversations all
got the same reward are dropped and another batch is taken; advantages are
computed; critic and actor are updated; every `save_freq` steps everything is
saved. Four places share state across threads or processes: the tool threads
of one rollout share the result list and the index cache; the ranks of one save
share the folder of the step; consecutive jobs share the disk; the coroutines of
the asynchronous rollouter share its counters, and the trainer reaches into them
by a remote call.

### 1.2 What is hard here, and what makes each part correct

* **Rollout.** Search threads end in any order while results are paired with
  trajectories by position, and three lists (`to_generate`, `image_urls`,
  the outputs) have to stay aligned after trajectories left. Each token has a
  mask entry whose meaning (the model wrote it) decides what is trained on;
  truncation at `max_model_len`, the multiplication of `<|image_pad|>` and the
  cut at `response_length_total` all move tokens and have to move the mask with
  them. *Correct* means: own results, own image, mask = authorship, never a
  conversation that stops on an unread tool message, limits respected,
  images and placeholders match, and the call always ends.
* **Search tools.** A lazily built index behind a lock and a cache, with a
  build that may raise, at the end of a chain of fall-backs that several threads
  go down at once. *Correct*: one build that all calls share, at most `topk`
  images, every call ends.
* **Reward.** It receives flat token rows and has to find the turns again from
  the mask. *Correct*: turns are not split, joined or lost, a search is not paid
  for twice, a correct answer is told from the score alone, a correct answer ranks
  above a wrong one however many searches are paid, and the proxy bonus looks only
  at what the tools said.
* **A step from reward to update.** Rows are identified by position and by `uid`
  through a filter that may gather several generation batches, a cut, a split
  over ranks and two further splits of sizes that need not divide. *Correct*: a
  group is a prompt with all its samples, advantages cancel within it,
  each row is used once per epoch and the gradient is a mean.
* **Fully asynchronous pipeline.** Nobody waits for a put: the queue drops.
  The rollouter pauses on a count that is incremented by one coroutine, reset by
  another and corrected by a remote call that suspends between two reads; locks
  are held across waits. *Correct*: samples do not get staler than promised, none
  is left behind at the end, a pause ends while the trainer waits, and so does the
  job, also when a task fails or its request is aborted. The code keeps the first
  up to one sample, and the third where the staleness limit leaves room for the
  running tasks (section 5).
* **DAG-IG.** A step is scored against steps of *other* trajectories, out of a
  bounded pool that evicts and that scoring itself looks up; the answer must not
  reach the policy through an observation; rewards are given to spans of tokens.
  *Correct*: nobody is compared with himself, what was hidden stays hidden, a
  reward lands on the tokens of the step that earned it, and an edge that
  training pays for was earned.
* **Trainer and checkpoints.** A job may die between any two steps; what a save
  writes is spread over many files of several ranks, `data.pt` and a tracker
  file; old checkpoints are deleted while new ones are written. *Correct*: the
  tracker names a complete checkpoint, the next job continues from the last
  completed save and loses fewer than `save_freq` updates, no batch is skipped or
  trained on twice, the step counter counts updates, the job ends.

PROJECT.json lists each hazard at its line, with the property that covers it
and, where that is less than the whole, what it leaves.

## 2. Modules

| Module | Models | Role |
|---|---|---|
| `MultiTurnRollout` | one call of `generate_sequences` | detailed specification |
| `SearchDialogue` | what a rollout promises per trajectory | abstract specification, implemented by `MultiTurnRollout` |
| `RolloutRefinement` | the refinement mapping between the two | refinement |
| `MCMultiTurnRollout` | engine outputs and tool results | TLC instance |
| `MultiTurnRolloutProofs` | types, mask, owners, the last word, the refinement step by step; the batch: mask, attention mask, images | TLAPS |
| `CheckpointManager` | a save or load on several ranks | component |
| `TrainLoop` | `fit` and the jobs that run it; EXTENDS `CheckpointManager` and calls its actions | composition |
| `MCTrainLoop` | values of `checkpoint.save_contents` | TLC instance |
| `TrainLoopProofs` | types, steps, checkpoints and batches across jobs | TLAPS |
| `SearchTools` | the tools as concurrent threads | component, checked directly |
| `SearchToolsProofs` | theorems about `SearchTools` | TLAPS |
| `RewardManager` | the reward of one row | pure algorithm, with one step |
| `PolicyStep` | a step of `fit` from the reward to the update; EXTENDS `RewardManager` | composition |
| `MCPolicyStep` | the turns of which rows are made, and the prices of the scripts | TLC instance |
| `RewardProofs` | a row's turns, the actions found in them, the spans rewarded | TLAPS, lemmas only |
| `PolicyStepProofs` | turns, threshold, searches, groups, advantages, correct and wrong answers, rows per epoch | TLAPS |
| `MessageQueue` | the queue between rollouter and trainer | component |
| `FullyAsyncRollouter` | the coroutines of the rollouter; EXTENDS `MessageQueue` | component |
| `FullyAsync` | servers and trainer; EXTENDS `FullyAsyncRollouter` | composition, checked directly |
| `FullyAsyncProofs` | types, the bound on stale samples, the end of the stream | TLAPS |
| `DagIg` | rollout, pool, scoring, relabelling, loading of edges | component |
| `MCDagIg` | samples, observations, gains | TLC instance |
| `DagIgProofs` | spans, redaction, pool, comparisons, edges, token rewards | TLAPS |
| `FoldLemmas` | induction over numbers; what the folds of the community modules compute | TLAPS, lemmas only |

Operators named `Mut...` are deliberate bugs. No specification uses them; each
is a plausible mistake that a property is shown to catch when it takes the place
of the operator after it.

### 2.1 MultiTurnRollout

The variables are the code's (`to_generate`, `idx_to_remove`,
`id_search_query_mapping`, `search_call_futures`, `id_image_gen_cnt`, the mask,
...). `pc` is the stage of the round and `left` the trajectories that the
running `for` loop has not visited. One action is one iteration of a loop
of the code or one straight piece of code between loops:

| Action | Code |
|---|---|
| `StartRound` | head of the `while`, generation starts |
| `Trigger(t, out)` | one engine output: filter, append, mark, choose a tool or end |
| `EmptyOutput(t)` | an output with every id filtered out: `IndexError` |
| `SubmitCalls` | `to_generate` shrinks, the futures are submitted |
| `StartCall`, `FinishCall` | a pool thread takes and ends a call |
| `CollectResults` | `[f.result() for f in search_call_futures]` |
| `ProcessResult(t)` | one search result is appended |
| `EndRound`, `StopGenerating` | the loop goes on, or ends |
| `Rebuild(t)`, `ReturnBatch` | image_pads are multiplied, the batch is cut |

Abstractions. A token is its kind (text, `im_end`, `image_pad`), its author and
its owner; author and owner are *history*, the code does not have them, and they
are what the properties compare the code's mask and lists with. The engine is an
environment that returns any of the constant `Outputs`, a tool any of
`TextResults` or `ImageResults`; a result may raise. Padding is left out: it is
positions outside the response, with mask 0. The `prompt` part of an owner says
for which prompt's image or question a call searched.

`SearchDialogue` knows no rounds and no threads: a trajectory is in the hands of
the model or of a tool or closed, asks within its limits, and the batch is
returned when all have closed, or is lost as a whole. `RolloutRefinement`
states the refinement mapping: a trajectory is in the tool's hands from the time
it has asked until its result is appended, and closed when it has left
`to_generate`. The abstract fairness is part of what is checked.

### 2.2 CheckpointManager and TrainLoop

`CheckpointManager` has one control state per rank (`stage`), the files of each
step, role and rank as `absent`, `torn` or `whole`, and the list of saved paths
that lives in memory. A file that is opened is torn until it is closed, so a
death in between leaves a torn file. `EnterSave` includes making room
(`ensure_checkpoint_capacity`), `LeaveSave` includes `register_checkpoint`.

`TrainLoop` adds the loop of `fit`, the stateful loader, `filter_groups`, the
critic with its warm-up, `data.pt`, the tracker, and jobs: `Die` may happen
between any two actions, and keeps the disk only; `Launch` starts the next job
on the same directory. The weights of a role are the *batches it has learnt
from*, one entry per update, so that a property can say what was trained on
across restarts. `Resume` is what `fit` does before its loop: load, and validate;
with `val_only` (the constant `ValOnly` says which jobs may have it) it returns
behind the validation. `Update` stands for reward, advantage and both updates of a
step: they keep no state a death could split, as weights live in memory.

The state of the loader is (`yielded` in this epoch, `passed` in all). That a
loaded loader continues its epoch, and yields nothing if the epoch was over,
is how `torchdata`'s `StatefulDataLoader` behaves; it is not in this repository
and marked external in the map.

### 2.3 SearchTools

Each call is a process: `SkipEmpty`, `AskSerpApi`, `FallBack`, `EnterLock`,
`Build`, `LeaveLock`, `Search`. The lock is taken before the cache is looked at,
but the file's existence is tested before the lock. The file may be absent,
whole or broken, and have any number of entries up to one more than `topk`;
`Nearest` is the number that a search returns. Ranking, wording and HTTP are left
out.

### 2.4 RewardManager

The module describes one row: `Init` chooses a dialogue as a rollout returns it, cut
or padded to the width of the batch, and the options that travel in `extra_info`;
the single action `Score` computes what `__call__` computes for it. The operators
follow the code: `SegmentStarts`, `SegmentEnds` (the `torch.diff` of the mask),
`FormatScore`, `AnswerScore`, `Observation`, `SearchActionSpans`, `Shaped`,
`Rewarded`. Two helpers say what several of the code's loops do: `Keep(s, S)` keeps
the elements in `S` of a sequence, in their order, and `Nth(S, k)` is the `k`-th of
a set of positions. Scores are integers (thousandths) so that comparison with the
threshold is exact. The strings that the regular expressions look for are single
tokens. A turn may hold any number of searches, and every `<text_search>` of it is
found and paid.

### 2.5 PolicyStep

`PolicyStep` runs `Score` of `RewardManager` for one row after the other
(`RewardRow`, `NextRow`, `EndReward`), and goes on as `fit` does: `KeepAll` or
`KeepGroups` (`filter_groups`, which takes another generation batch until enough
prompts are left or `max_num_gen_batches` is reached), `ComputeLogProb`,
`ComputeAdvantage` (GRPO), `UpdateActor`. `uid` is what the code repeats over the
samples; `prompt` is history, the prompt a row really belongs to, and the
properties compare the two. A group's mean is kept multiplied by its size and its
standard deviation is left out, as it is the same positive factor for all of a
group, so that advantages stay integers. Rounding lets the standard deviation of
more than two equal rewards other than 0 be positive, hence `MayPass`. `Chunk`
asserts as `DataProto.chunk` does, and `raised` is the end of a step whose sizes
do not divide. `UpdateActor` follows `update_policy` for batches with images.
`PaysCorrectOnly` are the options under which wrong answers get no bonus: the mode
`outcome_only`, or `correct_only` set.

### 2.6 FullyAsync

The rollouter is coroutines on one event loop. The processor is followed
statement by statement (`pc`): it takes a sample, waits for a slot, creates a
task, pauses and drains. While it runs nobody else does; the other coroutines
step only when it has `Yielded`. The condition variable's `asyncio.Lock` is a FIFO
queue (`lock`), and who holds it across an `await` stays at its head; a section
that takes the free lock and does not suspend is one step. `reset_staleness`
has three points (`EnterReset`, or `QueueReset` first, and `EndReset`), because it
counts the active tasks when it gets the lock and reads the size of the queue
by a remote call that suspends. The monitor, the feeder and the end of the main
coroutine are actions of their own. `Put` and `Generate` happen at other actors
and do not need the loop.

The trainer collects samples, trains, and after `TriggerSteps` local updates
synchronises the weights: `Abort`, `Load` (which calls `reset_staleness`) and
`Save`. `Abort` reaches any of the requests in generation, as the others may still
be on their way. What an aborted request has is its answer, or, with
`partial_rollout`, it is `aborted` until the client sends it again (`SendAgain`),
perhaps to an engine that is still paused, and it may be aborted once more at the
next synchronization. The end of the stream is the entry `None` in the queue.

### 2.7 DagIg

One job: `mode` is the entry point (the relabelling job with its teacher chain, or
the two-turn, prompted and agentic rollouts). A text is a sequence of words. Indexes
are chosen lazily: what a query returned once it returns again (`index`). The code
sorts the candidates for a comparison; `Ranked` says the same by position: the n-th
is the candidate that n - 1 others are `Before`. Each sample becomes a trajectory of
steps with spans of tokens; the relabelling job fills the pool with all of them
before it scores any, the others add each trajectory to the pool just before it is
scored. `Words` are the words of which texts are made, `Put` is `d[k] = v` on a
dict, and `Keep` and `Inject` are the bodies of two loops. Scoring takes up to
`CfSamples` counterfactuals from the pool for each step, draws a gain for each
log-probability difference, and computes the weighted gains, the dependency weights,
the returns and the rewards of tokens in integers (a gain counts hundredths, and
products keep their own denominators). A gain is arbitrary: how a model comes to its
log-probabilities is left open. The agentic rollout is modelled with all its
fall-backs on; `run_model_agent_rollout.py:69-71` turns them off unless told
otherwise, and the shapes of trajectories it then makes are those of the two-turn
rollout. `Load` is `load_dagig_offline_edges`, whose result is what `RewardManager`
takes as `info.edge`.

## 3. What the runs check

| Run | Instance | Properties | Distinct states |
|---|---|---|---|
| `Rollout` | 2 prompts x 2 samples, 3 rounds, 2 threads, image limit 2, text limit 1, calls may raise | `ModelHasLastWord`, `ResultsAreOwn`, `SearchesOwnImage`, `Completes`, `IsSearchDialogue` | 103 362 |
| `RolloutImages` | 1 x 2, all kinds of output, results with 0, 1 or 2 images of 1 or 2 patches, `max_model_len` 13, response length 12 | `TypeOK`, `ResponseMaskMatchesAuthor`, `PadsMatchImages`, `MarkedTokensAttended`, `MaskMatchesAuthor` | 9 133 |
| `Train` | actor and critic on 2 ranks, 3 jobs, 6 steps, a save at every second, two kept, `filter_groups` over 2 epochs of 3 batches, critic warm-up 2, `resume_mode` `auto`, or `resume_path` with `resume_from_path` set, `val_only` or not | `TrainTypeOK`, `TrackerNamesComplete`, `ResumesFromLastSave`, `StepsCountUpdates`, `EachBatchOnce`, `LosesFewUpdates`, `JobsEnd` | 518 867 |
| `SearchTools` | two image calls, one without image, one text call; `topk` 2, an index of up to 3 entries | `SearchTypeOK`, `OneIndex`, `CallsEnd` | 6 576 |
| `Reward` | first row: every dialogue of up to 3 turns out of 4 searches, 4 last turns (one with five searches), 2 tool turns, widths 4 and 20, every shaping mode; 2 prompts x 2 samples, up to two generation batches, 2 ranks, 2 epochs, every combination of the sizes | `ResponsesAreTurns`, `RewardedOnce`, `ThresholdTellsCorrect`, `GroupsArePrompts`, `AdvantagesCancel`, `CorrectIsAhead`, `EachRowOncePerEpoch` | 316 762 |
| `FullyAsync` | 7 samples, queue of 4, 2 slots, 2 local updates per version, a task that may fail, `partial_rollout` | `TypeOK`, `StaleBounded`, `NothingLeftBehind`, `JobEnds` | 274 655 |
| `DagIg` | all four entry points, 2 samples (3 when prompted), two of which share an id, pool of 2 per type | `TypeOK`, `ComparedWithOthers`, `AnswerHidden`, `RewardsOnOwnTokens`, `EdgesAreEarned`, `ScoringKeepsPool` | 327 988 |

and, expected to be *violated* (section 5): `TrainTracker`, `TrainKeepOne`,
`RewardProxy`, `FullyAsyncStale`, `FullyAsyncOnPolicy`.

### Why the bounds are enough

* Two prompts with two samples each are the smallest batch in which a wrong
  repetition of a list (by prompt, by sample, tiled) differs from the right one;
  two threads for up to four calls give every order of completion and queueing.
* Three rounds are what the project's configurations use, and leave room for
  image search, text search and answer; the limits 2 and 1 are reached
  separately and together with the last round.
* `RolloutImages` has limits that fall into the middle of the longer
  conversations: into a model turn, between two turns, into a tool turn and on a
  border, while the shorter ones fit. `PadsMatchImages` and `MarkedTokensAttended`
  speak of responses that `response_length_total` did not cut, and the results have
  one `<|image_pad|>` per image; section 5 says what happens without.
* Two ranks make the two barriers and the difference between rank 0 and the
  others visible. Three jobs allow two interruptions, so that a torn save is
  overwritten by a job that is itself interrupted. Six steps with a save at every
  second and two kept checkpoints remove one while another is written. Two epochs
  of three batches put the border of an epoch between steps and inside a resumed
  run. Each batch may be rejected, up to `max_num_gen_batches = 2`, so that a step
  gathers from two batches, `fit` can raise by that bound, and the six batches can
  be used up behind any step, saved or not, as well as suffice for all six.
* `SearchTools`: two image calls that reach the index together, a text call that
  does not use it, and one more entry than `topk` asks for.
* `Reward`: width 4 cuts a row inside a text search or behind the first token of the
  result of an image search, and pads a direct answer; width 20 pads most rows and
  cuts the longest. A dialogue of three turns is the longest that `format_reward`
  accepts. Only the first row is any row; the rows behind it are `FewRows`, a right
  answer at once and a wrong one after two searches, which give equal and unequal
  groups. One last turn is wrong and asks for five searches, whose bonuses are
  together worth a correct answer. A training batch of three prompts out of
  generation batches of two makes the filter gather, and cut in the middle of the
  second. The penalties are the scripts' (0.1 each), the bonus is 0.2.
* `FullyAsync`: seven samples against a queue of four and a limit of four fill
  the queue, let it drop, and pause and resume the rollouter more than once; a
  state with the count one above the limit (`StaleBounded`'s `+ 1`) is reached.
  Two local updates make a version, so that samples are left over at the end.
  `PartialRollout` is TRUE: a behaviour without it, in which an aborted request is
  its answer, is one with it in which those requests were answered just before the
  abort.
* `JobEnds` is stated for sizes with `RoomForTasks`: `MaxConcurrent <= MaxRequired
  - RequiredSamples * TriggerSteps`. `reset_staleness` counts a task that has put
  its sample and is not yet reaped beside the sample, so that up to
  `MaxConcurrent` samples count that the trainer will not get, or twice; with that
  room a whole version still fits under the limit. `FullyAsync` has it. The
  modes of the pipeline's README with `staleness_threshold = 0` have not: then the
  limit is one version, and `FullyAsyncOnPolicy`, the smallest instance of them
  with a batch of two, shows the trainer waiting for ever. `FullyAsyncStale` has
  `staleness_threshold = 2` and room.
* `DagIg`: three trajectories overflow a pool of two; with two samples of one id
  a lookup by id differs from one by position. Gains are -0.08 and 0.03, so the
  dead zone and the clipping of the gains are not reached.

### Fairness

* Rollout: `WF(Main)` - `generate_sequences` is one thread that runs on;
  `WF(Pool(t))` - every request of a tool has a timeout, so a call ends with a
  result or an exception. Nothing is assumed of the order, nor that a call
  succeeds. vLLM is assumed to return.
* Tools: weak fairness of each call's step. Python's lock is not fair, but each
  call takes it once, so that a waiting call is passed by finitely many others.
* Training: weak fairness of the trainer, of each rank, and of launching after a
  death (the operator starts the job again). `Die` has no fairness, and at most
  `MaxJobs - 1` deaths happen. A relaunch after a job that *returned* or
  *raised* is possible but not assumed.
* Asynchronous pipeline: weak fairness of the trainer, of the processor, the feeder,
  the monitor (it wakes every ten seconds), a called `reset_staleness` and the end
  of the main coroutine, and for each sample of its generation, of its being sent
  again after an abort, and of its task. A generation is disabled while the engine
  is paused, and an abort undoes it, but there are only as many synchronizations as
  the samples allow. asyncio runs every ready coroutine, its lock is FIFO, and the
  servers answer. That a task fails is possible, never assumed.
* `PolicyStep` and `DagIg` are sequential; they have safety properties only.

## 4. What is proved

`MultiTurnRolloutProofs` proves, from the assumptions named in
`MultiTurnRollout` (`ConstantsAssumption`, `ToolsAssumption`: constants are
numbers or Booleans of the right kind, outputs and results are sequences of
token ids) and nothing else:

* `TypeCorrect == Spec => []TypeOK`. `TypeOK` bounds the search counters, so
  this contains that no trajectory ever searches more often than its limits. It
  is inductive with the bound of the round counter: outside the head of the
  loop `iteration < MaxGenRound` (`RoundBound`).
* `MaskCorrect == Spec => []MaskMatchesAuthor`. The invariant is inductive given
  `TypeOK`. The heart is `MaskStep`: `_extend_prompt_token_ids` keeps a prefix
  of the turn, and the mask grows by the length of that prefix with the bit of
  its author. It rests on lemmas about `AppendedLen`, `Extend`, `Marks` and
  `Written`, stated once and cited by `Trigger` and `ProcessResult`.
* `OwnCorrect == Spec => []ResultsAreOwn` and
  `OwnImageCorrect == Spec => []SearchesOwnImage`. Neither is inductive: a result
  that is appended was produced earlier by a call, from a query set earlier. The
  strengthening `OwnInv` says that everything in a conversation has its own
  trajectory and its own prompt as owner (`OwnResults`) and adds `CallsAreOwn`:
  while calls run, every trajectory that is still generating has a query of its
  own, and a future that is done holds a result of the trajectory that submitted
  it; every trajectory that is processed has such a future. That the query names
  the right image is `PromptsAreInBatch`: entry `t` of the repeated `image_urls`
  is the image of trajectory `t`'s prompt, validating or not.
* `LastWordCorrect == Spec => []ModelHasLastWord`. The invariant `LastWordInv`
  says who may lack the last word: only trajectories that take part in the round
  (`OthersHaveLastWord`). That nobody is left to answer when the rounds are used up
  is `LastRoundEndsAll`: in the last round every output ends its trajectory, so
  `to_generate` is empty when the loop stops.
* `RolloutRefinesDialogue`: `Spec` implies the initial condition and `[][Next]` of
  `SearchDialogue` under the mapping of `RolloutRefinement`. Each action is one
  lemma: `Trigger` is a question or a close, `ProcessResult` an answer, whatever
  raises a loss, `ReturnBatch` a return, and the other actions change no phase. That
  a question is asked in time needs the invariant `RoundInv`: a trajectory that
  takes part has searched once in each round before (`RoundsAreSearches`), and who
  was removed stays out.

The module goes on to the batch, in which `<|image_pad|>` is multiplied and the
tail is cut, by lemmas about `FlattenSeq` (what a concatenation of pieces fits,
counts and ends with):

* `ResponseMaskCorrect == Spec => []ResponseMaskMatchesAuthor`, if the engine samples
  no `<|image_pad|>` (`NoPadsSampled`). The invariant: pads stand in tool turns
  (`PadsAreTools`), and a rebuilt row is in step with its mask (`RowsInStep`), as
  each pad is replaced by as many tokens as mask entries.
* `AttendedCorrect == Spec => []MarkedTokensAttended`, if also an output that ends
  its turn ends in an `im_end` (`StopsAtEnd`): `im_end` is an end-of-sequence id at
  which vLLM stops. Every turn of the model that did not meet `max_model_len` is
  closed by an `im_end` (`TurnsEnd`), before the rebuilding and after it
  (`RowsClosed`).
* `ImagesCorrect == Spec => []PadsMatchImages`, for a sampled batch (`N > 1`,
  `~Validate`) of results with one pad per image (`PadsPerImage`), if again no pad is
  sampled. `FuturesReturned` says that what a future holds is a result of a tool,
  `ImagesPlaced` that a conversation below `max_model_len` has as many pads as its
  list has images, and none in the prompt; `RowsPlaced` says of a rebuilt row that
  it has as many as its images have patches. Where a result has images without pads
  the property fails: see section 5.

`TrainLoopProofs` proves, from the assumptions of `CheckpointManager` and
`TrainLoop`, for any number of ranks, steps, epochs, files and jobs, with a death
between any two steps:

* `TrainTypeCorrect == Spec => []TrainTypeOK`. `TypeInv` adds where the counters may
  be (`Places`), that a rank is at a stage only while the trainer waits for the ranks
  (`RanksInStep`), that no file is of a step no job has reached (`Reached`), and what
  a closed `data.pt` and tracker hold (`Closed`).
* `StepsCorrect == Spec => []StepsCountUpdates`, if the learner (the critic, or the
  actor where there is none) learns in every step (`LearnsEveryStep`: with a warm-up
  and no critic the first steps train nobody). `Counted` says the same of every
  whole file, as any of them may be loaded.
* `TrackerCorrect == Spec => []TrackerNamesComplete` and
  `ResumeCorrect == Spec => []ResumesFromLastSave`, if more than one checkpoint is
  kept or none is removed (`KeepsTwo`) and jobs resume the latest one
  (`ResumesLatest`). Without the first the run `TrainKeepOne` is a counterexample.
  `SaveInv` is what makes them inductive: the running job is ahead of the tracker
  (`Ahead`); the paths in memory ascend to the last completed save, or to the running
  one once it is registered (`PathsAscend`), so that with two kept the step in the
  tracker is not the one that makes room; and which files of the running save are
  whole follows from the stages of the ranks (`Saved`).
* `LossCorrect == Spec => []LosesFewUpdates` and
  `BatchesCorrect == Spec => []EachBatchOnce`, under all three hypotheses. The first
  compares what the learner has learnt with the checkpoint of the tracker:
  `FewUnsaved` follows the running job from a save that was due to the next. `Once` says
  that what the learner has learnt from, and what is gathered for it, is the sequence
  of the batches taken so far, in memory and in the checkpoint of the tracker.

`SearchToolsProofs` proves, from `ToolsConstants`, for any set of calls:

* `SearchTypeCorrect == Spec => []SearchTypeOK`, with `TypeInv`, which adds the
  type of the results.
* `OneIndexCorrect == Spec => []OneIndex`. The strengthening `IndexInv` adds
  `HoldsLock` (a call is in the `with` block exactly if it holds the lock, so at
  most one is) and `CacheIsIndex` (the cache names the last build, and whoever
  builds found it empty). Without the mutual exclusion two calls that both saw
  an empty cache would both build.

`FullyAsyncProofs` proves, from `QueueAssumption`, `RollouterAssumption` and
`TrainerAssumption`, for any number of samples and any sizes:

* `AsyncTypeCorrect == Spec => []TypeOK`. `TypeOK` bounds the queue. It is not
  inductive: a coroutine that goes on after an `await` leaves the lock by removing
  its head, which has to be itself. `LockHeld` says that who suspended under the
  lock is still its head, `HandTaken` that the sample in hand is not the end
  signal.
* `StaleCorrect == Spec => []StaleBounded`: one sample more than the pipeline's
  README promises, which run `FullyAsyncStale` shows to be reached. The
  strengthening `Counted` bounds `Underway`, the samples in hand, in generation or
  queued, and those the trainer got since the last synchronization: at most
  `staleness + 1`, at most `MaxRequired` while the processor waits for its next
  sample, and `MaxRequired + 1` ever. Only `Take` lets it grow, and only below the
  limit; a `Collect` moves a sample from the backlog to the trainer, which is one
  for one because no sample is queued twice (`QueuedOnce`), nor queued before it was
  generated. `reset_staleness` replaces the count by what it reads before and after
  it suspends: that this is not too low is `Sized`, which holds because it keeps the
  lock, so that no task is created or reaped meanwhile.

* `StreamCorrect == Spec => []NothingLeftBehind`. `Progress` says that every sample
  taken on has a task until it has ended, `EndSignal` that `None` is put once, behind
  everything else, and `Ledger` is the account: the samples neither in the queue nor
  dropped are those of the updates made and of the batch at hand.

`PolicyStepProofs` proves, from `RewardAssumption` and `StepAssumption`, for any
turns, numbers of turns, widths, prices and sizes of batches (what concerns a single
row is in `RewardProofs`):

* `RowCorrect == Spec => []RowInv`: the row at hand is a dialogue, cut or padded, and
  its score is its own. `InTurns` is what a row's turns look like without the
  dialogue it came from: from one token to the next the turn stays, is the next one,
  or the padding begins.
* `ResponsesCorrect == Spec => []ResponsesAreTurns`. The edges of the mask are the
  first and last positions of the odd turns (`TurnEdges`), and the k-th edge is found
  at the k-th turn because both are listed in ascending order (`Lists`, `NthIs`).
* `ThresholdCorrect == Spec => []ThresholdTellsCorrect`, if the prices leave a correct
  answer above the threshold (`CorrectPays`), as those of the scripts do.
* `OnceCorrect == Spec => []RewardedOnce`. `OnceInv` says that the spans of the row at
  hand start at different places (`Distinct`) and that each has a token of its own by
  which the model asked (`Marked`). Both hold of what `SearchActionSpans` has found
  before each action: an action's ids are looked for anywhere in the response, but
  not where another was found. So a search that is asked for twice is rewarded at two
  places, and none is rewarded that the model did not ask for.
* `GroupsCorrect == Spec => []GroupsArePrompts`. `BatchInv` says that the batch is
  blocks of `N` rows, one prompt each (`InBlocks`), that a row's `uid` is its prompt,
  and that the gathered rows come from earlier generation batches. The filter
  keeps whole blocks (`KeepBlocks`), and the cut at `TrainBatchSize * N` is between
  two of them.
* `AdvantagesCorrect == Spec => []AdvantagesCancel`, for `N > 1`: the sum of
  `N * reward - total` over a group of `N`. With one sample the code takes 0 for the
  mean, and the advantage is the reward.
* `AheadCorrect == Spec => []CorrectIsAhead`, if the prices satisfy `CorrectPays`.
  The property is about the options `PaysCorrectOnly`, and about rows with any number
  of searches: a correct answer stays above the threshold after its penalties
  (`ThresholdTells`), a bonus only adds to it (`ShapedPays`), and a wrong one gets
  none (`UnpaidInv`), because whether it is paid is told from the same threshold.
  `PaidInv` keeps both for the rows of the batch. Where wrong answers are paid
  (`correct_only` off) it does not hold: see section 5.
* `EpochsCorrect == Spec => []EachRowOncePerEpoch`. `StepsInv` says that a batch that
  is trained on divides by the ranks, and that the steps taken are the `RankSteps` of
  the shares. What `Chunk` makes for the ranks, and `Pieces` for the mini- and
  micro-batches, are runs of a sequence one behind the other, so that no row is left
  out or repeated in an epoch, whether or not the sizes divide.

`DagIgProofs` proves, from `SampleAssumption` and `SizeAssumption`, for any samples,
observations, words, gains and limits, and all four entry points:

* `DagIgTypeCorrect == Spec => []TypeOK`, with the spans of a trajectory's steps one
  behind the other from 0 (`Laid`).
* `HiddenCorrect == Spec => []AnswerHidden`. What a rollout has made stays `Fitting`
  (`MadeInv`): the summary of a redacted step is cut from a text without golds, and
  no part of such a text has one.
* `PoolCorrect == Spec => ScoringKeepsPool`, an action property. `PoolInv` says what a
  pool with room for the job holds (`PoolOf`): the steps of the trajectories it was
  given (`Given`, all of them before the first is scored when relabelling, else those
  scored so far), each once, and no others. It follows by induction over the
  trajectories: as a trajectory has at most one step of each tool (`OneEach`), it adds
  at most one to a bucket, and nothing is evicted. A step that is in the pool is not
  added again.
* `ComparedCorrect == Spec => []ComparedWithOthers`, for all four entry points.
  `CfsInv` says it of the trajectory scored last. `Before` is a strict total order on
  the candidates, so that the ranks are the numbers from 1 and `Ranked` lists each
  candidate once (`RankedLists`). In a bucket without duplicates the candidates are as
  many as the other steps the job knows (`CandidatesCount`), so that the first
  `cf_samples` of them are that many different steps.
* `EdgesCorrect == Spec => []EdgesAreEarned`. `EarnedInv` traces every row, and every
  edge loaded from the rows, to a trajectory of its sample.
* `TokensCorrect == Spec => []RewardsOnOwnTokens`. The loop over the steps writes into
  disjoint spans (`Writers`, `InjectRuns`).

The prover takes no induction over data, as the library's theorems have an operator
for a parameter. `FoldLemmas` has induction in the form of a set instead: `NatMin`, a
least element of any set of numbers, from the well-foundedness of `<`, and `NatAll`,
a set with 0 and every successor has all. From it come the lemmas about the folds the
models are built from: `FlattenSeq` and what its pieces hand on, the sum of a
function over a set in whatever order it is folded (`SumRemove`), and the states a
fold over a sequence runs through (`FoldRuns`).

Only model-checked is liveness, which is out of the prover's reach: `Completes`,
`JobsEnd`, `CallsEnd`, `JobEnds`, and the fairness part of `IsSearchDialogue`, whose
safety part is `RolloutRefinesDialogue`. Every other property that a run shows to hold
is a theorem.

## 5. Disagreements found

Each is shown by a run that TLC ends with a counterexample.

1. `TrainTracker` / `TrackerReadable`. The tracker is said to be "for atomic
   usage" (`ray_trainer.py:1033`), but `open(..., "w")` empties it before the
   number is written: a death in between leaves a tracker that makes every later
   job raise in `find_latest_ckpt_path`.
2. `TrainKeepOne` / `TrackerNamesComplete`. `ensure_checkpoint_capacity` says
   that with one checkpoint kept the old one stays until the new save is
   complete. `register_checkpoint` removes it after the shards, before `data.pt`
   and the tracker: a death in between leaves a tracker that names a checkpoint
   without shards.
3. `RewardProxy` / `ProxyNeedsObservation`. The docstring of
   `has_dagig_proxy_support` counts only what is not the assistant's. `__call__`
   takes the last `valid_response_length` entries of the mask, which on a padded
   row are shifted against the ids: part of the model's own text, such as its
   answer, counts as an observation.
4. `FullyAsyncStale` / `AtMostRolloutNum`. The pipeline's README
   (`fully_async_policy/README.md:136-138`) promises that the rollouter generates at
   most `max_required_samples`, less what was left over, between two updates. The
   processor may hold a sample while it waits for a free slot; `reset_staleness`
   sees it neither among the tasks nor in the queue, and one sample more is taken on.
5. `FullyAsyncOnPolicy` / `TrainerIsServed`. The README describes modes with
   `staleness_threshold = 0` (lines 190-203), in which the trainer gets its samples,
   trains, and synchronises. A task that has put its sample and is not yet reaped
   is counted by `reset_staleness` a second time. The count then reaches the limit
   before the trainer's batch is complete, the rollouter pauses, and neither the
   monitor, which looks at the same count, nor the trainer, which waits for a
   sample, ends the pause.

Found while modelling, and without a run of their own:

* README.md:77 promises interleaved thumbnails and titles. `search_google_lens`
  (`serpapi_backend.py:138`) returns up to three thumbnails, but text without
  `<|image_pad|>`, so that the batch carries features the response has no place
  for. `PadsMatchImages` is about the other results.
* The comment at `vllm_rollout_spmd.py:250` makes sure that each turn ends with an
  `im_end`, for `get_final_eos_mask`. The later cut at `response_length_total` may
  remove it again: tokens behind the last `im_end` are marked as the model's but not
  attended, and drop out of the loss. `MarkedTokensAttended` is about responses that
  were not cut.
* Every `<text_search>` of a turn is paid (`mmsearch_r1.py:79`). With the scripts'
  bonus of 0.2 a wrong answer behind five searches in one turn draws level with a
  correct one where wrong answers are paid: three of the sanity scripts turn
  `correct_only` off (as `scripts/run_mmsearch_r1_search_required_sanity.sh:38`). No
  document excludes it; `CorrectIsAhead` is about the other settings.
* The path in `resume_from_path` is never used for loading, and checkpoints of an
  earlier job are neither counted nor removed after a restart.
* Without `use_kl_loss`, the KL penalty on the reward is applied before the
  log-probabilities it needs are computed, and raises (`ray_trainer.py:1313`);
  `EndReward` goes to `raised`.
* `update_weights` aborts every request (`checkpoint_engine/base.py:417`), and
  without `partial_rollout` `generate` then returns the tokens there are
  (`agent_loop.py:118`), so that a cut response is trained on.
  `fully_async_policy/README.md:216` says that the rollouter "will wait for the
  tasks to complete". `Abort` models what the code does.
* A processor that raises leaves `running` set
  (`fully_async_rollouter.py:624`): the monitor goes on for ever and `fit` of the
  rollouter does not return, though the trainer does. `JobEnds` says so much and
  no more.
* The filter of the engine's ids keeps `<= 151664` (`vllm_rollout_spmd.py:248`), and
  `<|image_pad|>` is 151655: a sampled one would be multiplied with the tool's.
  `ResponseMaskCorrect` therefore assumes that the model samples none.
* `_is_hard_negative` compares, for an image search, a `semantic_id` that no
  rollout sets, so that it never holds.
* `summarize_observation` adds index and score behind the redaction, so that an
  answer which is a number may still be seen there.

## 6. What is not modelled, and why

* Floating-point work: log-probabilities, losses, the KL penalty, the standard
  deviation of a group, attention. Only their effect on the protocol is kept.
* `_validate` is one action; its batches change no state that lasts, apart from
  `last_val_metrics`, which is kept.
* With `filter_groups`, prompts beyond `train_batch_size` are dropped from the
  update (`batch[:traj_bsz]`); `EachBatchOnce` speaks of batches, not of prompts.
* That another trajectory with the same sample id earned an edge: `EdgesAreEarned`
  accepts any of the trajectories of the id.
* The HuggingFace export, HDFS copies, and the two functions of the base
  checkpoint manager no one calls.
* `resume_mode=disable` in a used directory and `resume_mode=<path>` are in
  `TrainLoop`, but in no run: nothing in the repository says what the tracker
  and the batches should be after them (see the hazards).
* `TrainLoop` and `PolicyStep` are two views of `fit`, not one: the first has
  crashes and restarts and takes a step as one update, the second has one step and
  nothing that outlives it. Together they would be out of TLC's reach.
* `PolicyStep`: batches without images and `use_dynamic_bsz`, what is on the GPU
  when, and the critic.
* `FullyAsync`: validation, resuming a job, `clear_queue`, `shutdown` and
  `put_validate`, servers with vLLM before 0.12, the version tags of samples,
  the reference and critic workers, `dataloader_lock`, and the order in which the
  main coroutine waits for the lock in `StopRunning`.
* `DagIg`: `direct_vqa_rollout` and the debug rollout, which only fill rows; how
  log-probabilities are computed; the details of the parsers, which may return any
  of the given actions; the building of indexes, tables, figures and statistics.
* Normalisation of answers, wording of results, diagnostics, and the relevance
  weights of offline edges.
* The grounded agent: one question in one thread, straight from zoom to answer,
  with a new agent for each run.
* Dataset, entry point, monkey patches, and the scripts: wiring, numerics and
  command lines.
* `verl`, apart from its checkpoint managers and its asynchronous pipeline. It is
  most of the repository's lines: back ends, kernels, model code, other trainers
  and other experiments, most of which this program never runs. Modelling it line
  by line would not be about this system.

## 7. Plan

What was planned exists: the rollout with its abstract specification and
refinement, checkpoints and training, the search tools, the reward and the step it
belongs to, the asynchronous pipeline, DAG-IG, and a theorem for every safety property
that holds. What could come next:

1. Abstract specifications of the asynchronous pipeline (a stream with bounded
   staleness) and of the trainer (a job that is never interrupted), and refinements to
   them, as there is one of the rollout.
2. A model of the grounded agent, should it get state that outlives a question.
3. Proofs of liveness, with a prover that supports `ENABLED` and fairness.
