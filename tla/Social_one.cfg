SPECIFICATION GreetSpec
CONSTANTS
  u1 = u1
  u2 = u2
  image = image
  m0 = m0
  m1 = m1
  p1 = p1
  p2 = p2
  None = None
  Users = {u1, u2}
  Subjects = {"relations", "lists", "moments", "greets"}
  Media = {image}
  Moments = {m1}
  FirstMoment = m0
  FirstAuthor = u2
  Procs = {p1, p2}
  ListTTL = 1
  ConfigTTL = 2
  MaxStarted = 3
  MaxFailures = 1
  Greeter = u1
  DailyLimit = 1
  Pause = 1
  MaxDay = 1
  MaxListed = 4
CHECK_DEADLOCK FALSE
INVARIANTS CacheCatchesUp BlockedDoNotFollow FeedIsVetted GreetsAreCounted PagesAreTheList
