CONSTANTS
  None = None
  NaN = NaN
  Shapes <- SomeShapes
  MaxCalls = 3
  Upstreams <- SomeUpstreams
  OpenAIKeys = {"gpt"}
  AnthropicKeys = {"claude"}
  BedrockKeys = {"bedrock", "bedrock2"}
  OpenAIEmbeddingKeys = {"embedding"}
  CohereKeys = {"cohere"}
  Regions = {"us", "eu"}
  Unit = 24
SPECIFICATION ResumeSpec
INVARIANT FileStaysLoadable
