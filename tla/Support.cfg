\* A question, an answer and a closing in any order, while an administrator looks;
\* or a closing, while a customer and an administrator list the threads of two.
CONSTANTS
  t1 = t1
  t2 = t2
  ada = ada
  bob = bob
  sue = sue
  tom = tom
  open = open
  another = another
  ask = ask
  answer = answer
  close = close
  look = look
  mine = mine
  queue = queue
  Threads = {t1, t2}
  Customers = {ada, bob}
  Admins = {sue, tom}
  Nobody = Nobody
  Calls = {open, ask, answer, close, look, another, mine, queue}
  CallOf <- MCCallOf
  ListOf <- MCListOf
SPECIFICATION MCSpec
INVARIANTS
  TypeOK
  NothingAfterClose
  RowFollowsLog
  AnswersAreWhole
  PagesKeepTheCount
CHECK_DEADLOCK FALSE
