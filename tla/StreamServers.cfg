CONSTANTS
  a = a
  b = b
  c = c
  Conns = {a, b, c}
  Stalling = {a}
  Lines = {"data", "quit", "stop"}
  Programs = {"basic", "threads", "pool", "libuv", "epoll"}
  NThreads = 2
  Arrivals <- MCArrivals
  LinesTo <- MCLinesTo
  MaxWrites = 2
  MaxSpurious = 1
  EpollMax = 4
  Stdin = Stdin
  MainFd = MainFd
  NoFd = NoFd
SPECIFICATION StFairSpec
INVARIANTS TcpInv UvInv EpollInv BatchNotStale
PROPERTIES ServedUnlessBusy EndedFreed
CHECK_DEADLOCK FALSE
