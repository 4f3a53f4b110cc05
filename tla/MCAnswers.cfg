CONSTANTS
  None = None
  NaN = NaN
  Shapes <- SomeShapes
  MaxCalls = 3
  Upstreams <- SomeUpstreams
  OpenAIKeys = {"gpt"}
  AnthropicKeys = {"claude"}
  BedrockKeys = {"bedrock", "bedrock2"}
  OpenAIEmbeddingKeys = {"embedding"}
  CohereKeys = {"cohere"}
  Regions = {"us", "eu"}
  Unit = 24
  q1 = q1
SPECIFICATION AnswersSpec
INVARIANTS
  ResumeIsFaithful FingerprintIsTheValue CatalogIsTheListing
  SpanTellsTheOperation
  StreamIsFaithful CostIsTheInvoice
PROPERTY SignedPartsAreFinal
