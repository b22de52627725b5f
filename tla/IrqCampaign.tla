----------------------------- MODULE IrqCampaign -----------------------------
(***************************************************************************)
(* The random interrupt campaign: the tool that picks seeds,  runs one     *)
(* simulation for each and adds up their reports, and the generator the    *)
(* firmware shares with it.  A 32-bit word is the set of the positions of  *)
(* its ones, so every shift and every truncation is the program's own.     *)
(***************************************************************************)
EXTENDS Integers, FiniteSets, SequencesExt

Word32(high, low) ==
  LET ones(half) == {i \in 0..15 : (half \div 2^i) % 2 = 1}
  IN  ones(low) \union {i + 16 : i \in ones(high)}

LeftBy(w, n) == {i + n : i \in w} \intersect 0..31
RightBy(w, n) == {i - n : i \in w} \intersect 0..31

XorShift32(value) ==
  LET left == SymDiff(value, LeftBy(value, 13))
      right == SymDiff(left, RightBy(left, 17))
  IN  SymDiff(right, LeftBy(right, 5))

RoundsPerSeed == 12
Selectors == 0..3

\* The generator's states from a seed on, one for each round.
Window(seed) ==
  Tail(FoldLeft(LAMBDA states, round : Append(states, XorShift32(Last(states))),
                <<seed>>, [round \in 1..RoundsPerSeed |-> round]))

-------------------------------------------------------------------------------
(* The firmware and the test bench that prints its mailbox *)

Trace(window) ==
  UNION {{2 * k - 2 + bit : bit \in window[k] \intersect {0, 1}} :
           k \in 1..RoundsPerSeed}

SelectorAt(trace, round) ==
  (IF 2 * round \in trace THEN 1 ELSE 0) + (IF 2 * round + 1 \in trace THEN 2 ELSE 0)

\* Selector 0 arms the timer, 1 the DMA, 2 the GPIO, and 3 the timer and the DMA.
PassLine(seed) ==
  LET window == Window(seed)
      trace == Trace(window)
      rounds(selectors) ==
        Cardinality({r \in 0..(RoundsPerSeed - 1) :
                       SelectorAt(trace, r) \in selectors})
  IN  [seed |-> seed, state |-> Last(window), trace |-> trace,
       events |-> rounds({0, 1, 2}) + 2 * rounds({3}),
       timer |-> rounds({0, 3}), dma |-> rounds({1, 3}), gpio |-> rounds({2})]

-------------------------------------------------------------------------------
(* The tool *)

ParseSeed(value) == value # {} /\ value \subseteq 0..31
ParsePositiveCount(count) == count > 0

\* One seed, and the whole window it schedules skipped before the next.
GenerateSeedCampaign(generator, count) ==
  LET chosen == [seeds |-> << >>, state |-> generator, raised |-> FALSE]
      choose(c, k) ==
        LET seed == XorShift32(c.state)
        IN  [seeds |-> Append(c.seeds, seed), state |-> Last(Window(seed)),
             raised |-> c.raised \/ seed = {} \/ seed \in ToSet(c.seeds)]
  IN  FoldLeft(choose, chosen, [k \in 1..count |-> k])

SelectorHistogram(trace, rounds) ==
  [s \in Selectors |-> Cardinality({r \in 0..(rounds - 1) : SelectorAt(trace, r) = s})]

\* What one simulation leaves: its exit status and the PASS lines found in it.
ParsePassOutput(output, expected) ==
  /\ output.lines # << >>
  /\ Head(output.lines).seed = expected
  /\ Head(output.lines).events =
       Head(output.lines).timer + Head(output.lines).dma + Head(output.lines).gpio

PassRecord(line) ==
  [seed |-> line.seed, events |-> line.events, timer |-> line.timer,
   dma |-> line.dma, gpio |-> line.gpio,
   selectors |-> SelectorHistogram(line.trace, RoundsPerSeed)]

BuildSummary(records) ==
  LET total(value(_)) == FoldLeft(LAMBDA sum, r : sum + value(r), 0, records)
  IN  [seeds |-> Len(records), rounds |-> Len(records) * RoundsPerSeed,
       events |-> total(LAMBDA r : r.events), timer |-> total(LAMBDA r : r.timer),
       dma |-> total(LAMBDA r : r.dma), gpio |-> total(LAMBDA r : r.gpio),
       selectors |-> [s \in Selectors |-> total(LAMBDA r : r.selectors[s])]]

RequireCompleteSelectorCoverage(summary) ==
  /\ \A s \in Selectors : summary.selectors[s] # 0
  /\ FoldSet(LAMBDA s, sum : sum + summary.selectors[s], 0, Selectors) = summary.rounds

SeedsAsked(args) ==
  IF args.seeds # << >> THEN args.seeds
  ELSE GenerateSeedCampaign(args.generator, args.count).seeds

Refused(args) ==
  \/ \E k \in DOMAIN args.seeds : ~ParseSeed(args.seeds[k])
  \/ /\ args.seeds = << >>
     /\ \/ ~ParsePositiveCount(args.count) \/ ~ParseSeed(args.generator)
        \/ GenerateSeedCampaign(args.generator, args.count).raised
  \/ ~IsInjective(SeedsAsked(args))

\* The seeds simulated, in order, and whether the campaign passed, given what each
\* simulation leaves: it stops at the first that fails or reports something else.
Main(args, simulated) ==
  LET seeds == SeedsAsked(args)
      good(k) == /\ simulated[seeds[k]].exit = 0
                 /\ ParsePassOutput(simulated[seeds[k]], seeds[k])
      bad == {k \in DOMAIN seeds : ~good(k)}
      record(k) == PassRecord(Head(simulated[seeds[k]].lines))
      summary == BuildSummary([k \in DOMAIN seeds |-> record(k)])
  IN  IF Refused(args) THEN [ran |-> << >>, passed |-> FALSE]
      ELSE IF bad # {} THEN [ran |-> SubSeq(seeds, 1, Min(bad)), passed |-> FALSE]
      ELSE [ran |-> seeds,
            passed |-> args.coverage => RequireCompleteSelectorCoverage(summary)]

-------------------------------------------------------------------------------
(* What is asked of them *)

\* The campaign of every night and the seeds of the shorter one.
Nightly == [seeds |-> << >>, generator |-> Word32(\hC001, \hD00D), count |-> 32,
            coverage |-> TRUE]
Short ==
  [Nightly EXCEPT
     !.coverage = FALSE,
     !.seeds = <<Word32(\h1A2B, \h3C4D), Word32(\h1234, \h5678),
                 Word32(\hDEAD, \hBEEF), Word32(\h0F1E, \h2D3C)>>]

Output(seed) == [exit |-> 0, lines |-> <<PassLine(seed)>>]
Healthy(args) == [seed \in ToSet(SeedsAsked(args)) |-> Output(seed)]

\* The model's generator, firmware and decoder give the record the unit test of
\* the campaign quotes from a simulation.
RecordOfTheTest ==
  LET line == PassLine(Word32(\h1234, \h5678))
  IN  /\ line.state = Word32(\h4E0F, \h25F8) /\ line.trace = Word32(\h0007, \h540D)
      /\ line.events = 14 /\ line.timer = 7 /\ line.dma = 7 /\ line.gpio = 0

\* The windows of the seeds of a night do not overlap: each of the 384 rounds
\* counted is a state of the generator no other round has, and none is zero.
WindowsDisjoint ==
  LET seeds == SeedsAsked(Nightly)
      states == UNION {ToSet(Window(seeds[k])) : k \in DOMAIN seeds}
  IN  /\ Cardinality(states) = Nightly.count * RoundsPerSeed
      /\ {} \notin states

\* Both campaigns pass on healthy simulations, the nightly one with its demand
\* that every selector occurs, and the events reported are those the selectors
\* schedule.
CampaignsPass ==
  LET seeds == SeedsAsked(Nightly)
      summary == BuildSummary([k \in DOMAIN seeds |-> PassRecord(PassLine(seeds[k]))])
  IN  /\ Main(Nightly, Healthy(Nightly)) = [ran |-> seeds, passed |-> TRUE]
      /\ Main(Short, Healthy(Short)) = [ran |-> Short.seeds, passed |-> TRUE]
      /\ summary.timer = summary.selectors[0] + summary.selectors[3]
      /\ summary.dma = summary.selectors[1] + summary.selectors[3]
      /\ summary.gpio = summary.selectors[2]

\* A simulation that fails, says nothing, reports another seed (one the GPIO pins
\* never delivered) or sums that disagree ends the campaign there, whichever seed
\* it was started for; a repeated or zero seed starts none at all.
TroubleIsNoticed ==
  LET troubles(seed) ==
        {[Output(seed) EXCEPT !.exit = 1], [Output(seed) EXCEPT !.lines = << >>],
         [Output(seed) EXCEPT !.lines[1].events = @ + 1], Output(XorShift32(seed))}
      refused(args) == Main(args, Healthy(args)) = [ran |-> << >>, passed |-> FALSE]
  IN  /\ \A k \in DOMAIN Short.seeds : \A trouble \in troubles(Short.seeds[k]) :
           Main(Short, [Healthy(Short) EXCEPT ![Short.seeds[k]] = trouble]) =
             [ran |-> SubSeq(Short.seeds, 1, k), passed |-> FALSE]
      /\ refused([Short EXCEPT !.seeds = Append(@, @[2])])
      /\ refused([Short EXCEPT !.seeds[1] = {}])
      /\ refused([Nightly EXCEPT !.generator = {}])

CampaignIsSound ==
  RecordOfTheTest /\ WindowsDisjoint /\ CampaignsPass /\ TroubleIsNoticed
ASSUME CampaignSense == CampaignIsSound
===============================================================================
