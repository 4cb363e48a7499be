\* _find_main_thread_id over every snapshot of up to two entries, with
\* creation times 0 (unknown), 1 and 2, so ties and unknown times occur.
\* The walk ends at "done": the program stops there.
CONSTANTS
  Tids <- MCTids
  MaxTime = 2
  MaxEntries = 2
SPECIFICATION Spec
INVARIANTS TypeOK FindsMainThread HandlesClosed
CHECK_DEADLOCK FALSE
